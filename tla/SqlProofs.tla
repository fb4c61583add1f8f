------------------------------ MODULE SqlProofs ------------------------------
(***************************************************************************)
(* Proofs about SQL sessions: every row is a row of its table, for any     *)
(* tables, columns and values, and any statements of any number of         *)
(* sessions.                                                               *)
(***************************************************************************)
EXTENDS Sql, FiniteSetTheorems, SequenceTheorems, TLAPS

-----------------------------------------------------------------------------
(* The inductive invariant                                                 *)

\* A sequence, of whatever.
IsSeq(w) == Len(w) \in Nat /\ w = [i \in 1..Len(w) |-> w[i]]

\* The row may be written by a statement of that kind: it fits, or is known to
\* be let through.
Allowed(kind, cols, row) == IsRowOf(cols, row) \/ Unchecked(kind, cols, row)

\* What a view holds under the keys of tables and rows.
Typed(view) ==
    /\ view = [k \in StoreKey |-> view[k]]
    /\ \A t \in TableName : view[TableKey(t)] \in Seq(Column) \cup {None}
    /\ \A t \in TableName, id \in Ids : view[RowKey(t, id)] \in Seq(Datum) \cup {None}

\* A write of a statement on a table that is there.
RowWrite(view, kind, w) ==
    w.key.kind = "Row" /\ w.data # None =>
        \E t \in TableName : /\ w.key.name = t
                             /\ view[TableKey(t)] # None
                             /\ w.data \in Seq(Datum)
                             /\ Allowed(kind, view[TableKey(t)], w.data)

\* The write of a table is the last; rows are only deleted before it, and when
\* the table is dropped, all of them.
TableWrite(view, todo, i) ==
    todo[i].key.kind = "Table" =>
        \E t \in TableName :
            /\ todo[i].key = TableKey(t)
            /\ i = Len(todo)
            /\ \/ todo[i].data \in Seq(Column) /\ view[TableKey(t)] = None
               \/ /\ todo[i].data = None
                  /\ \A id \in Ids : view[RowKey(t, id)] # None =>
                        \E j \in 1..(i - 1) : todo[j] = [key |-> RowKey(t, id), data |-> None]

\* What is left to write of a statement of that kind leads to a sound view.
ToDo(view, kind, todo) ==
    /\ IsSeq(todo)
    /\ \A i \in 1..Len(todo) : RowWrite(view, kind, todo[i]) /\ TableWrite(view, todo, i)
    /\ (\E i \in 1..Len(todo) : todo[i].key.kind = "Table") =>
          \A i \in 1..Len(todo) : todo[i].key.kind = "Row" => todo[i].data = None

\* No row without its table, and no row that does not fit it; but for the
\* tables set apart, and for the rows known to be unfit.
Belong(view, apart) ==
    \A t \in TableName \ apart, id \in Ids :
        view[RowKey(t, id)] # None => view[TableKey(t)] # None

Fit(view, apart, unfit) ==
    \A t \in TableName \ apart, id \in Ids :
        view[RowKey(t, id)] # None /\ view[TableKey(t)] # None =>
            \/ IsRowOf(view[TableKey(t)], view[RowKey(t, id)])
            \/ RowKey(t, id) \in unfit

Sound(view, apart, unfit) == Typed(view) /\ Belong(view, apart) /\ Fit(view, apart, unfit)

StoreTyped ==
    /\ live \subseteq Session
    /\ own = [s \in Session |-> [k \in StoreKey |-> own[s][k]]]
    /\ snapshot = [s \in Session |-> [k \in StoreKey |-> snapshot[s][k]]]
    /\ missed \in [Session -> SUBSET StoreKey]
    /\ \A s \in Session : s \notin live => own[s] = Store!NoWrites

\* What nobody committed since a transaction began is as it saw it.
SnapshotsKnown == \A s \in live : \A k \in StoreKey \ missed[s] : snapshot[s][k] = db[k]

UnderWay ==
    /\ running = [s \in Session |-> running[s]]
    /\ \A s \in Session : running[s] # Idle =>
          /\ running[s] = [kind |-> running[s].kind, todo |-> running[s].todo,
                           ok |-> running[s].ok, gain |-> running[s].gain,
                           rows |-> running[s].rows, before |-> running[s].before]
          /\ s \in live => ToDo(View(s), running[s].kind, running[s].todo)

SqlInv ==
    /\ StoreTyped
    /\ SnapshotsKnown
    /\ Sound(db, skewed, misfits)
    /\ \A s \in live : Sound(View(s), skewed, misfits)
    /\ UnderWay

-----------------------------------------------------------------------------
(* Listing a set in an order                                               *)

Plain(c, r, x) == c
Never(c, n, r) == FALSE
Induct == INSTANCE Induction WITH Step <- Plain, Holds <- Never

(* An instance has its own names for the operators on finite sets.         *)
LEMMA SameSets == \A S : /\ IsFiniteSet(S) <=> Induct!IsFiniteSet(S)
                         /\ Cardinality(S) = Induct!Cardinality(S)
BY DEF IsFiniteSet, Induct!IsFiniteSet, Cardinality, Induct!Cardinality

(* There are finitely many keys of rows, and of primary keys.              *)
LEMMA FiniteKeys == IsFiniteSet(Ids) /\ IsFiniteSet(RowKeySet)
<1>1. IsFiniteSet(Ids)
  BY DataAssumption, FS_Subset DEF Ids
<1>2. IsFiniteSet(TableName \X Ids)
  BY <1>1, DataAssumption, FS_Product
<1>. DEFINE f == [p \in TableName \X Ids |-> RowKey(p[1], p[2])]
<1>3. \A p \in TableName \X Ids : f[p] \in RowKeySet
  BY DEF RowKeySet
<1>4. \A k \in RowKeySet : \E p \in TableName \X Ids : f[p] = k
  <2>. SUFFICES ASSUME NEW k \in RowKeySet PROVE \E p \in TableName \X Ids : f[p] = k
    OBVIOUS
  <2>1. PICK t \in TableName, id \in Ids : k = RowKey(t, id)
    BY DEF RowKeySet
  <2>2. << t, id >> \in TableName \X Ids /\ f[<< t, id >>] = RowKey(t, id)
    OBVIOUS
  <2>. QED BY <2>1, <2>2, Zenon
<1>5. f = [p \in TableName \X Ids |-> f[p]]
  OBVIOUS
<1>. HIDE DEF f
<1>6. f \in Surjection(TableName \X Ids, RowKeySet)
  BY <1>3, <1>4, <1>5, Zenon DEF Surjection
<1>. QED BY <1>1, <1>2, <1>6, FS_Surjection

(* The rows of a scan, the ids of an index entry and the positions of the  *)
(* indexed columns are put in order without losing any.                    *)
LEMMA KeysInOrder ==
  ASSUME NEW S \in SUBSET RowKeySet
  PROVE  Induct!Listing(S, InOrder(S, KeyBefore))
<1>. DEFINE R == {p \in S \X S : KeyBefore(p[1], p[2])}
            seq == InOrder(S, KeyBefore)
<1>1. IsFiniteSet(S)
  BY FiniteKeys, FS_Subset
<1>2. \A x, y \in S : << x, y >> \in R <=> KeyBefore(x, y)
  OBVIOUS
<1>3. Induct!Orders(S, R)
  BY <1>2, OrdersAssumption, Zenon DEF Induct!Orders
<1>. HIDE DEF R
<1>4. PICK list : Induct!Lists(S, R, list)
  BY <1>1, <1>3, SameSets, Induct!ListExists
<1>5. Induct!Lists(S, R, seq)
  <2>1. \A q \in [1..Cardinality(S) -> S] :
          Induct!Lists(S, R, q) <=> \A i, j \in DOMAIN q : i < j => KeyBefore(q[i], q[j])
    <3>. SUFFICES ASSUME NEW q \in [1..Cardinality(S) -> S]
                  PROVE  Induct!Lists(S, R, q) <=> \A i, j \in DOMAIN q : i < j => KeyBefore(q[i], q[j])
      OBVIOUS
    <3>1. DOMAIN q = 1..Cardinality(S) /\ \A i \in DOMAIN q : q[i] \in S
      BY Zenon
    <3>. QED BY <1>2, <3>1, SameSets, Zenon DEF Induct!Lists
  <2>2. list \in [1..Cardinality(S) -> S]
    BY <1>4, SameSets, Zenon DEF Induct!Lists
  <2>. QED BY <1>4, <2>1, <2>2, Zenon DEF InOrder
<1>. HIDE DEF seq
<1>6. /\ Cardinality(S) \in Nat
      /\ seq \in [1..Cardinality(S) -> S]
      /\ \A x \in S : \E i \in 1..Cardinality(S) : seq[i] = x
      /\ \A i, j \in 1..Cardinality(S) : i # j => seq[i] # seq[j]
  BY <1>1, <1>3, <1>5, SameSets, Induct!ListsAll
<1>. QED BY <1>6, Zenon DEF Induct!Listing, seq

LEMMA IdsInOrder ==
  ASSUME NEW S \in SUBSET Ids
  PROVE  Induct!Listing(S, InOrder(S, IdBefore))
<1>. DEFINE R == {p \in S \X S : IdBefore(p[1], p[2])}
            seq == InOrder(S, IdBefore)
<1>1. IsFiniteSet(S)
  BY FiniteKeys, FS_Subset
<1>2. \A x, y \in S : << x, y >> \in R <=> IdBefore(x, y)
  OBVIOUS
<1>3. Induct!Orders(S, R)
  BY <1>2, OrdersAssumption, Zenon DEF Induct!Orders
<1>. HIDE DEF R
<1>4. PICK list : Induct!Lists(S, R, list)
  BY <1>1, <1>3, SameSets, Induct!ListExists
<1>5. Induct!Lists(S, R, seq)
  <2>1. \A q \in [1..Cardinality(S) -> S] :
          Induct!Lists(S, R, q) <=> \A i, j \in DOMAIN q : i < j => IdBefore(q[i], q[j])
    <3>. SUFFICES ASSUME NEW q \in [1..Cardinality(S) -> S]
                  PROVE  Induct!Lists(S, R, q) <=> \A i, j \in DOMAIN q : i < j => IdBefore(q[i], q[j])
      OBVIOUS
    <3>1. DOMAIN q = 1..Cardinality(S) /\ \A i \in DOMAIN q : q[i] \in S
      BY Zenon
    <3>. QED BY <1>2, <3>1, SameSets, Zenon DEF Induct!Lists
  <2>2. list \in [1..Cardinality(S) -> S]
    BY <1>4, SameSets, Zenon DEF Induct!Lists
  <2>. QED BY <1>4, <2>1, <2>2, Zenon DEF InOrder
<1>. HIDE DEF seq
<1>6. /\ Cardinality(S) \in Nat
      /\ seq \in [1..Cardinality(S) -> S]
      /\ \A x \in S : \E i \in 1..Cardinality(S) : seq[i] = x
      /\ \A i, j \in 1..Cardinality(S) : i # j => seq[i] # seq[j]
  BY <1>1, <1>3, <1>5, SameSets, Induct!ListsAll
<1>. QED BY <1>6, Zenon DEF Induct!Listing, seq

LEMMA PositionsInOrder ==
  ASSUME NEW n \in Nat, NEW S \in SUBSET (1..n)
  PROVE  Induct!Listing(S, InOrder(S, <))
<1>. DEFINE R == {p \in S \X S : p[1] < p[2]}
            seq == InOrder(S, <)
<1>1. IsFiniteSet(S)
  BY FS_Interval, FS_Subset, n \in Int, 1 \in Int
<1>2. \A x, y \in S : << x, y >> \in R <=> x < y
  OBVIOUS
<1>3. Induct!Orders(S, R)
  BY <1>2 DEF Induct!Orders
<1>. HIDE DEF R
<1>4. PICK list : Induct!Lists(S, R, list)
  BY <1>1, <1>3, SameSets, Induct!ListExists
<1>5. Induct!Lists(S, R, seq)
  <2>1. \A q \in [1..Cardinality(S) -> S] :
          Induct!Lists(S, R, q) <=> \A i, j \in DOMAIN q : i < j => q[i] < q[j]
    <3>. SUFFICES ASSUME NEW q \in [1..Cardinality(S) -> S]
                  PROVE  Induct!Lists(S, R, q) <=> \A i, j \in DOMAIN q : i < j => q[i] < q[j]
      OBVIOUS
    <3>1. DOMAIN q = 1..Cardinality(S) /\ \A i \in DOMAIN q : q[i] \in S
      BY Zenon
    <3>. QED BY <1>2, <3>1, SameSets, Zenon DEF Induct!Lists
  <2>2. list \in [1..Cardinality(S) -> S]
    BY <1>4, SameSets, Zenon DEF Induct!Lists
  <2>. QED BY <1>4, <2>1, <2>2, Zenon DEF InOrder
<1>. HIDE DEF seq
<1>6. /\ Cardinality(S) \in Nat
      /\ seq \in [1..Cardinality(S) -> S]
      /\ \A x \in S : \E i \in 1..Cardinality(S) : seq[i] = x
      /\ \A i, j \in 1..Cardinality(S) : i # j => seq[i] # seq[j]
  BY <1>1, <1>3, <1>5, SameSets, Induct!ListsAll
<1>. QED BY <1>6, Zenon DEF Induct!Listing, seq

-----------------------------------------------------------------------------
(* Sequences of whatever                                                   *)

LEMMA AppendIsSeq ==
  ASSUME NEW w, IsSeq(w), NEW e
  PROVE  /\ IsSeq(Append(w, e))
         /\ Len(Append(w, e)) = Len(w) + 1
         /\ \A i \in 1..Len(w) : Append(w, e)[i] = w[i]
         /\ Append(w, e)[Len(w) + 1] = e
<1>. DEFINE S == {w[i] : i \in 1..Len(w)} \cup {e}
            n == Len(w)
<1>1. n \in Nat /\ w = [i \in 1..n |-> w[i]] /\ \A i \in 1..n : w[i] \in S
  BY DEF IsSeq
<1>2. e \in S
  OBVIOUS
<1>. HIDE DEF S
<1>3. w \in Seq(S)
  <2>. HIDE DEF n
  <2>. QED BY <1>1
<1>4. /\ Append(w, e) \in Seq(S)
      /\ Len(Append(w, e)) = Len(w) + 1
      /\ \A i \in 1..Len(w) : Append(w, e)[i] = w[i]
      /\ Append(w, e)[Len(w) + 1] = e
  BY <1>2, <1>3, AppendProperties
<1>5. IsSeq(Append(w, e))
  <2>. DEFINE v == Append(w, e)
  <2>1. v \in Seq(S)
    BY <1>4
  <2>. HIDE DEF v
  <2>2. Len(v) \in Nat /\ v \in [1..Len(v) -> S]
    BY <2>1, LenProperties
  <2>3. IsSeq(v)
    BY <2>2 DEF IsSeq
  <2>. QED BY <2>3 DEF v
<1>. QED BY <1>4, <1>5

LEMMA EmptyIsSeq == IsSeq(<< >>) /\ Len(<< >>) = 0
  BY DEF IsSeq

LEMMA TailIsSeq ==
  ASSUME NEW w, IsSeq(w), w # << >>
  PROVE  /\ IsSeq(Tail(w))
         /\ Len(w) \in Nat \ {0}
         /\ Len(Tail(w)) = Len(w) - 1
         /\ Head(w) = w[1]
         /\ \A i \in 1..Len(Tail(w)) : Tail(w)[i] = w[i + 1]
<1>. DEFINE S == {w[i] : i \in 1..Len(w)}
            n == Len(w)
<1>1. n \in Nat /\ w = [i \in 1..n |-> w[i]] /\ \A i \in 1..n : w[i] \in S
  BY DEF IsSeq
<1>. HIDE DEF S
<1>2. w \in Seq(S)
  <2>. HIDE DEF n
  <2>. QED BY <1>1
<1>3. /\ Tail(w) \in Seq(S)
      /\ Len(Tail(w)) = Len(w) - 1
      /\ \A i \in 1..Len(Tail(w)) : Tail(w)[i] = w[i + 1]
  BY <1>2, HeadTailProperties
<1>4. Len(w) # 0
  BY <1>2, EmptySeq
<1>5. IsSeq(Tail(w))
  <2>. DEFINE v == Tail(w)
  <2>1. v \in Seq(S)
    BY <1>3
  <2>. HIDE DEF v
  <2>2. Len(v) \in Nat /\ v \in [1..Len(v) -> S]
    BY <2>1, LenProperties
  <2>3. IsSeq(v)
    BY <2>2 DEF IsSeq
  <2>. QED BY <2>3 DEF v
<1>6. Head(w) = w[1]
  BY <1>2
<1>. QED BY <1>1, <1>3, <1>4, <1>5, <1>6

-----------------------------------------------------------------------------
(* Outcomes                                                                *)

\* What a statement of that kind, which began on the view, may have done: the
\* tables are as they were, and its rows may be written.
Outcome(view, kind, o) ==
    /\ o = [view |-> o.view, writes |-> o.writes, ok |-> o.ok, count |-> o.count]
    /\ o.view = [k \in StoreKey |-> o.view[k]]
    /\ \A t \in TableName : o.view[TableKey(t)] = view[TableKey(t)]
    /\ IsSeq(o.writes)
    /\ \A i \in 1..Len(o.writes) :
          o.writes[i].key.kind # "Table" /\ RowWrite(view, kind, o.writes[i])

LEMMA StartIsOutcome ==
  ASSUME NEW view, NEW kind, Typed(view)
  PROVE  Outcome(view, kind, Start(view))
<1>1. view = [k \in StoreKey |-> view[k]]
  BY DEF Typed
<1>. DEFINE o == Start(view)
<1>2. o.view = view /\ o.writes = << >> /\ o = [view |-> o.view, writes |-> o.writes, ok |-> o.ok, count |-> o.count]
  BY DEF Start
<1>. HIDE DEF o
<1>3. Outcome(view, kind, o)
  BY <1>1, <1>2, EmptyIsSeq DEF Outcome
<1>. QED BY <1>3 DEF o

LEMMA ErrKeeps ==
  ASSUME NEW view, NEW kind, NEW o, Outcome(view, kind, o)
  PROVE  Outcome(view, kind, Err(o))
<1>. DEFINE p == Err(o)
<1>1. o = [view |-> o.view, writes |-> o.writes, ok |-> o.ok, count |-> o.count]
  BY DEF Outcome
<1>2. p = [view |-> o.view, writes |-> o.writes, ok |-> FALSE, count |-> o.count]
  <2>. DEFINE no == FALSE
  <2>1. p = [o EXCEPT !.ok = no]
    BY DEF Err
  <2>. HIDE DEF no, p
  <2>2. p = [view |-> o.view, writes |-> o.writes, ok |-> no, count |-> o.count]
    BY <1>1, <2>1
  <2>. QED BY <2>2 DEF no
<1>3. p.view = o.view /\ p.writes = o.writes
      /\ p = [view |-> p.view, writes |-> p.writes, ok |-> p.ok, count |-> p.count]
  <2>. HIDE DEF p
  <2>. QED BY <1>2
<1>. HIDE DEF p
<1>4. Outcome(view, kind, p)
  BY <1>3 DEF Outcome
<1>. QED BY <1>4 DEF p

LEMMA CountKeeps ==
  ASSUME NEW view, NEW kind, NEW o, NEW n, Outcome(view, kind, o)
  PROVE  Outcome(view, kind, [o EXCEPT !.count = n])
<1>. DEFINE p == [o EXCEPT !.count = n]
<1>1. o = [view |-> o.view, writes |-> o.writes, ok |-> o.ok, count |-> o.count]
  BY DEF Outcome
<1>2. p.view = o.view /\ p.writes = o.writes
      /\ p = [view |-> p.view, writes |-> p.writes, ok |-> p.ok, count |-> p.count]
  BY <1>1
<1>. HIDE DEF p
<1>3. Outcome(view, kind, p)
  BY <1>2 DEF Outcome
<1>. QED BY <1>3 DEF p

LEMMA PutKeeps ==
  ASSUME NEW view, NEW kind, NEW o, Outcome(view, kind, o),
         NEW key, NEW x, key.kind # "Table",
         RowWrite(view, kind, [key |-> key, data |-> x])
  PROVE  Outcome(view, kind, Put(o, key, x))
<1>1. CASE ~o.ok
  BY <1>1 DEF Put
<1>2. CASE o.ok
  <2>. DEFINE p == Put(o, key, x)
              w == [key |-> key, data |-> x]
  <2>1. o = [view |-> o.view, writes |-> o.writes, ok |-> o.ok, count |-> o.count]
    BY DEF Outcome
  <2>2. /\ p = [view |-> p.view, writes |-> p.writes, ok |-> p.ok, count |-> p.count]
        /\ p.view = [o.view EXCEPT ![key] = x]
        /\ p.writes = Append(o.writes, w)
    BY <1>2, <2>1 DEF Put
  <2>3. \A t \in TableName : key # TableKey(t)
    BY DEF TableKey
  <2>4. w.key = key /\ RowWrite(view, kind, w)
    OBVIOUS
  <2>. HIDE DEF p, w
  <2>5. /\ p.view = [k \in StoreKey |-> p.view[k]]
        /\ \A t \in TableName : p.view[TableKey(t)] = view[TableKey(t)]
    <3>1. o.view = [k \in StoreKey |-> o.view[k]]
      BY DEF Outcome
    <3>2. \A k \in StoreKey : k # key => p.view[k] = o.view[k]
      BY <2>2, <3>1
    <3>3. p.view = [k \in StoreKey |-> p.view[k]]
      BY <2>2, <3>1
    <3>4. \A t \in TableName : TableKey(t) \in StoreKey
      BY DEF StoreKey
    <3>. QED BY <2>3, <3>2, <3>3, <3>4 DEF Outcome
  <2>6. IsSeq(p.writes) /\ Len(p.writes) = Len(o.writes) + 1
        /\ p.writes[Len(o.writes) + 1] = w
        /\ \A i \in 1..Len(o.writes) : p.writes[i] = o.writes[i]
    BY <2>2, AppendIsSeq DEF Outcome
  <2>7. ASSUME NEW i \in 1..Len(p.writes)
        PROVE  p.writes[i].key.kind # "Table" /\ RowWrite(view, kind, p.writes[i])
    <3>1. Len(o.writes) \in Nat
      BY DEF Outcome, IsSeq
    <3>2. i = Len(o.writes) + 1 \/ i \in 1..Len(o.writes)
      BY <2>6, <3>1
    <3>. QED BY <2>4, <2>6, <3>2 DEF Outcome
  <2>8. Outcome(view, kind, p)
    BY <2>2, <2>5, <2>6, <2>7, Zenon DEF Outcome
  <2>. QED BY <2>8 DEF p
<1>. QED BY <1>1, <1>2

\* A deletion, and the write of an index entry, are always allowed.
LEMMA DeleteKeeps ==
  ASSUME NEW view, NEW kind, NEW o, Outcome(view, kind, o), NEW t, NEW id
  PROVE  Outcome(view, kind, Put(o, RowKey(t, id), None))
<1>1. RowKey(t, id).kind # "Table"
  BY DEF RowKey
<1>2. RowWrite(view, kind, [key |-> RowKey(t, id), data |-> None])
  BY DEF RowWrite
<1>. QED BY <1>1, <1>2, PutKeeps

LEMMA IndexKeeps ==
  ASSUME NEW view, NEW kind, NEW o, Outcome(view, kind, o), NEW t, NEW c, NEW x, NEW ids
  PROVE  Outcome(view, kind, SaveIndex(o, t, c, x, ids))
<1>. DEFINE key == IndexKey(t, c, x)
            y == IF ids = {} THEN None ELSE ids
<1>1. key.kind = "Index"
  BY DEF IndexKey
<1>. HIDE DEF key, y
<1>2. key.kind # "Table" /\ RowWrite(view, kind, [key |-> key, data |-> y])
  BY <1>1 DEF RowWrite
<1>3. Outcome(view, kind, Put(o, key, y))
  BY <1>2, PutKeeps
<1>. QED BY <1>3 DEF SaveIndex, key, y

-----------------------------------------------------------------------------
(* Rows                                                                    *)

\* The steps of the folds over the indexed columns of a row, with what they
\* speak of in a record.
AddStep(c, p, i) ==
    AddToIndex(p, c.t, c.o.view[TableKey(c.t)][i].name, c.row[i],
               GetPrimaryKey(c.o.view[TableKey(c.t)], c.row))
MoveStep(c, p, i) ==
    IF ReadById(c.o.view, c.t, c.id) = None \/ ReadById(c.o.view, c.t, c.id)[i] = c.row[i] THEN p
    ELSE AddToIndex(RemoveFromIndex(p, c.t, c.cols[i].name, ReadById(c.o.view, c.t, c.id)[i], c.id),
                    c.t, c.cols[i].name, c.row[i], c.id)
GoesOn(c, n, p) == Outcome(c.view, c.kind, p)

AddFold == INSTANCE Induction WITH Step <- AddStep, Holds <- GoesOn
MoveFold == INSTANCE Induction WITH Step <- MoveStep, Holds <- GoesOn

LEMMA IndexColsListed ==
  ASSUME NEW cols \in Seq(Column)
  PROVE  \E n \in Nat : DOMAIN IndexCols(cols) = 1..n
<1>. DEFINE S == {i \in DOMAIN cols : cols[i].index}
<1>1. Len(cols) \in Nat /\ S \in SUBSET (1..Len(cols))
  BY LenProperties
<1>. HIDE DEF S
<1>2. Induct!Listing(S, InOrder(S, <))
  BY <1>1, PositionsInOrder
<1>3. \E n \in Nat : DOMAIN InOrder(S, <) = 1..n
  BY <1>2 DEF Induct!Listing
<1>. QED BY <1>3 DEF IndexCols, S

LEMMA TableOfView ==
  ASSUME NEW view, Typed(view), NEW t \in TableName, view[TableKey(t)] # None
  PROVE  view[TableKey(t)] \in Seq(Column)
BY DEF Typed

(* The folds of a row are folds of these steps.                            *)
LEMMA CreateRowFolds ==
  ASSUME NEW c, c.o.view[TableKey(c.t)] # None, Fits(c.o.view[TableKey(c.t)], c.row),
         ReadById(c.o.view, c.t, GetPrimaryKey(c.o.view[TableKey(c.t)], c.row)) = None
  PROVE  CreateRow(c.o, c.t, c.row)
            = AddFold!Fold(c, Put(c.o, RowKey(c.t, GetPrimaryKey(c.o.view[TableKey(c.t)], c.row)),
                                  c.row),
                           IndexCols(c.o.view[TableKey(c.t)]))
BY Zenon DEF CreateRow, AddFold!Fold, AddFold!Folds, AddFold!Last, FoldLeft, MapThenFoldSet, Max,
             AddStep

LEMMA UpdateRowFolds ==
  ASSUME NEW c, c.id = GetPrimaryKey(c.cols, c.row)
  PROVE  UpdateRow(c.o, c.t, c.cols, c.id, c.row)
            = Put(MoveFold!Fold(c, c.o, IndexCols(c.cols)), RowKey(c.t, c.id), c.row)
BY Zenon DEF UpdateRow, MoveFold!Fold, MoveFold!Folds, MoveFold!Last, FoldLeft, MapThenFoldSet,
             Max, MoveStep

(* A new row is written where it fits, and is in no other way in a table.  *)
LEMMA CreateRowKeeps ==
  ASSUME NEW view, NEW kind, NEW o, Typed(view), Outcome(view, kind, o),
         NEW t \in TableName, NEW row \in Seq(Datum),
         view[TableKey(t)] # None /\ Fits(view[TableKey(t)], row) =>
            Allowed(kind, view[TableKey(t)], row)
  PROVE  Outcome(view, kind, CreateRow(o, t, row))
<1>. DEFINE cols == o.view[TableKey(t)]
            id   == GetPrimaryKey(cols, row)
            fails == cols = None \/ ~Fits(cols, row) \/ ReadById(o.view, t, id) # None
            c == [view |-> view, kind |-> kind, o |-> o, t |-> t, row |-> row]
            base == Put(o, RowKey(t, id), row)
<1>1. CASE fails
  <2>1. CreateRow(o, t, row) = Err(o)
    BY <1>1 DEF CreateRow
  <2>. QED BY <2>1, ErrKeeps
<1>2. CASE ~fails
  <2>1. c.view = view /\ c.kind = kind /\ c.o = o /\ c.t = t /\ c.row = row
    OBVIOUS
  <2>2. cols = view[TableKey(t)]
    BY DEF Outcome
  <2>3. cols # None /\ Fits(cols, row)
    BY <1>2
  <2>4. cols \in Seq(Column)
    BY <2>2, <2>3, TableOfView
  <2>5. CreateRow(o, t, row) = AddFold!Fold(c, base, IndexCols(cols))
    <3>1. ReadById(o.view, t, id) = None
      BY <1>2
    <3>. HIDE DEF c, cols, id
    <3>2. cols = o.view[TableKey(t)] /\ id = GetPrimaryKey(cols, row)
      BY DEF cols, id
    <3>. QED BY <2>1, <2>3, <3>1, <3>2, CreateRowFolds, Zenon
  <2>6. Outcome(view, kind, base)
    <3>. DEFINE key == RowKey(t, id)
    <3>1. key.kind = "Row" /\ key.name = t
      BY DEF RowKey
    <3>2. RowWrite(view, kind, [key |-> key, data |-> row])
      <4>. HIDE DEF key, cols
      <4>. QED BY <2>2, <2>3, <3>1 DEF RowWrite
    <3>. HIDE DEF key
    <3>3. Outcome(view, kind, Put(o, key, row))
      BY <3>1, <3>2, PutKeeps
    <3>. QED BY <3>3 DEF key
  <2>. HIDE DEF c, base, cols, id, fails
  <2>7. \A i, p : Outcome(view, kind, p) => Outcome(view, kind, AddStep(c, p, i))
    BY IndexKeeps, Zenon DEF AddStep, AddToIndex
  <2>8. GoesOn(c, 0, base) /\ \A i, j, p : GoesOn(c, i, p) => GoesOn(c, i + 1, AddStep(c, p, j))
    BY <2>1, <2>6, <2>7, Zenon DEF GoesOn
  <2>9. PICK n \in Nat : DOMAIN IndexCols(cols) = 1..n
    BY <2>4, IndexColsListed
  <2>10. GoesOn(c, n, AddFold!Fold(c, base, IndexCols(cols)))
    BY <2>8, <2>9, AddFold!FoldHolds, Zenon
  <2>. QED BY <2>1, <2>5, <2>10, Zenon DEF GoesOn
<1>. QED BY <1>1, <1>2

(* A changed row is that of a table that is there.                         *)
LEMMA UpdateRowKeeps ==
  ASSUME NEW view, NEW o, Typed(view), Outcome(view, "Update", o),
         NEW t \in TableName, view[TableKey(t)] # None, NEW id, NEW row \in Seq(Datum)
  PROVE  Outcome(view, "Update", UpdateRow(o, t, view[TableKey(t)], id, row))
<1>. DEFINE cols == view[TableKey(t)]
            kind == "Update"
            c == [view |-> view, kind |-> kind, o |-> o, t |-> t, cols |-> cols, row |-> row,
                  id |-> id]
<1>1. Allowed(kind, cols, row)
  BY Zenon DEF Allowed, Unchecked
<1>2. cols \in Seq(Column) /\ cols # None
  BY TableOfView
<1>3. CASE GetPrimaryKey(cols, row) # id
  <2>1. UpdateRow(o, t, cols, id, row) = CreateRow(DeleteRow(o, t, cols, id), t, row)
    BY <1>3, Zenon DEF UpdateRow
  <2>2. Outcome(view, kind, DeleteRow(o, t, cols, id))
    BY DeleteKeeps, Zenon DEF DeleteRow
  <2>. HIDE DEF kind
  <2>3. Outcome(view, kind, CreateRow(DeleteRow(o, t, cols, id), t, row))
    BY <1>1, <2>2, CreateRowKeeps
  <2>. QED BY <2>1, <2>3, Zenon DEF kind
<1>4. CASE GetPrimaryKey(cols, row) = id
  <2>1. c.view = view /\ c.kind = kind /\ c.o = o /\ c.t = t /\ c.cols = cols /\ c.row = row
        /\ c.id = id
    OBVIOUS
  <2>2. UpdateRow(o, t, cols, id, row)
          = Put(MoveFold!Fold(c, o, IndexCols(cols)), RowKey(t, id), row)
    <3>. HIDE DEF c, cols
    <3>. QED BY <1>4, <2>1, UpdateRowFolds, Zenon
  <2>. HIDE DEF c, cols, kind
  <2>3. \A i, p : Outcome(view, kind, p) => Outcome(view, kind, MoveStep(c, p, i))
    <3>1. \A p, u, v, x, y : Outcome(view, kind, p) =>
             Outcome(view, kind, AddToIndex(p, u, v, x, y))
      BY IndexKeeps, Zenon DEF AddToIndex
    <3>2. \A p, u, v, x, y : Outcome(view, kind, p) =>
             Outcome(view, kind, RemoveFromIndex(p, u, v, x, y))
      BY IndexKeeps, Zenon DEF RemoveFromIndex
    <3>. QED BY <3>1, <3>2, Zenon DEF MoveStep
  <2>4. GoesOn(c, 0, o) /\ \A i, j, p : GoesOn(c, i, p) => GoesOn(c, i + 1, MoveStep(c, p, j))
    <3>1. Outcome(view, kind, o)
      BY DEF kind
    <3>. QED BY <2>1, <2>3, <3>1, Zenon DEF GoesOn
  <2>5. PICK n \in Nat : DOMAIN IndexCols(cols) = 1..n
    BY <1>2, IndexColsListed
  <2>6. GoesOn(c, n, MoveFold!Fold(c, o, IndexCols(cols)))
    BY <2>4, <2>5, MoveFold!FoldHolds, Zenon
  <2>7. Outcome(view, kind, MoveFold!Fold(c, o, IndexCols(cols)))
    BY <2>1, <2>6, Zenon DEF GoesOn
  <2>. DEFINE key == RowKey(t, id)
              p == MoveFold!Fold(c, o, IndexCols(cols))
  <2>8. key.kind = "Row" /\ key.name = t
    BY DEF RowKey
  <2>. HIDE DEF key, p
  <2>9. RowWrite(view, kind, [key |-> key, data |-> row])
    BY <1>1, <1>2, <2>8 DEF RowWrite, cols
  <2>10. Outcome(view, kind, Put(p, key, row))
    BY <2>7, <2>8, <2>9, PutKeeps DEF p
  <2>. QED BY <2>2, <2>10, Zenon DEF key, p, kind, cols
<1>. QED BY <1>3, <1>4

-----------------------------------------------------------------------------
(* Where rows come from                                                    *)

LEMMA RowKeysOfView ==
  ASSUME NEW view, Typed(view), NEW t
  PROVE  /\ RowKeys(view, t) \in SUBSET RowKeySet
         /\ \A k \in RowKeys(view, t) : view[k] \in Seq(Datum)
<1>1. \A k \in StoreKey : k.kind = "Row" => k \in RowKeySet
  BY DEF StoreKey, RowKeySet, TableKey, RowKey, IndexKey, Ids
<1>2. \A k \in RowKeySet : view[k] # None => view[k] \in Seq(Datum)
  BY DEF Typed, RowKeySet
<1>3. DOMAIN view = StoreKey
  BY DEF Typed
<1>4. \A k \in RowKeys(view, t) : k \in StoreKey /\ k.kind = "Row" /\ view[k] # None
  BY <1>3 DEF RowKeys
<1>. QED BY <1>1, <1>2, <1>4

(* A listing of rows is a sequence of them.                                *)
LEMMA RowsListed ==
  ASSUME NEW S, NEW seq, Induct!Listing(S, seq), NEW rows, DOMAIN rows = DOMAIN seq,
         rows = [i \in DOMAIN rows |-> rows[i]],
         \A i \in DOMAIN seq : rows[i] \in Seq(Datum)
  PROVE  rows \in Seq(Seq(Datum))
<1>1. PICK n \in Nat : DOMAIN seq = 1..n
  BY DEF Induct!Listing
<1>2. rows \in [1..n -> Seq(Datum)]
  BY <1>1
<1>. QED BY <1>2

LEMMA RowsAtAreRows ==
  ASSUME NEW view, NEW S \in SUBSET RowKeySet, \A k \in S : view[k] \in Seq(Datum)
  PROVE  RowsAt(view, S) \in Seq(Seq(Datum))
<1>. DEFINE seq == InOrder(S, KeyBefore)
            rows == [i \in DOMAIN seq |-> view[seq[i]]]
<1>1. Induct!Listing(S, seq)
  BY KeysInOrder
<1>2. \A i \in DOMAIN seq : seq[i] \in S
  <2>. HIDE DEF seq
  <2>. QED BY <1>1 DEF Induct!Listing
<1>3. RowsAt(view, S) = rows
  BY Zenon DEF RowsAt
<1>. HIDE DEF seq
<1>4. DOMAIN rows = DOMAIN seq /\ rows = [i \in DOMAIN rows |-> rows[i]]
      /\ \A i \in DOMAIN seq : rows[i] \in Seq(Datum)
  BY <1>2
<1>. HIDE DEF rows
<1>. QED BY <1>1, <1>3, <1>4, RowsListed

LEMMA ScanTableRows ==
  ASSUME NEW view, Typed(view), NEW t, NEW where
  PROVE  ScanTable(view, t, where) \in Seq(Seq(Datum)) \cup {None}
<1>. DEFINE keys == RowKeys(view, t)
            pos == ColumnPos(view[TableKey(t)], where.field)
            Test(k) == EvaluateEqual(view[k][CHOOSE i \in pos : TRUE], where.value)
            some == {k \in keys : Test(k) = TRUE}
<1>1. ScanTable(view, t, where) \in {RowsAt(view, keys), None, RowsAt(view, some)}
  BY Zenon DEF ScanTable
<1>2. keys \in SUBSET RowKeySet /\ \A k \in keys : view[k] \in Seq(Datum)
  BY RowKeysOfView
<1>3. some \in SUBSET keys
  <2>. HIDE DEF keys, Test
  <2>. QED OBVIOUS
<1>. HIDE DEF keys, some
<1>4. RowsAt(view, keys) \in Seq(Seq(Datum))
  BY <1>2, RowsAtAreRows
<1>5. some \in SUBSET RowKeySet /\ \A k \in some : view[k] \in Seq(Datum)
  BY <1>2, <1>3
<1>6. RowsAt(view, some) \in Seq(Seq(Datum))
  BY <1>5, RowsAtAreRows
<1>. QED BY <1>1, <1>4, <1>6

LEMMA ReadByIdRow ==
  ASSUME NEW view, Typed(view), NEW t \in TableName, NEW id, ReadById(view, t, id) # None
  PROVE  ReadById(view, t, id) \in Seq(Datum) /\ id \in Ids
BY DEF ReadById, Typed

LEMMA IndexScanRows ==
  ASSUME NEW view, Typed(view), NEW t \in TableName, NEW c, NEW x
  PROVE  IndexScan(view, t, c, x) \in Seq(Seq(Datum))
<1>. DEFINE S == {id \in LoadIndex(view, t, c, x) : ReadById(view, t, id) # None}
            seq == InOrder(S, IdBefore)
            rows == [i \in DOMAIN seq |-> ReadById(view, t, seq[i])]
<1>1. S \in SUBSET Ids /\ \A id \in S : ReadById(view, t, id) \in Seq(Datum)
  BY ReadByIdRow
<1>2. IndexScan(view, t, c, x) = rows
  BY Zenon DEF IndexScan
<1>. HIDE DEF S
<1>3. Induct!Listing(S, seq)
  BY <1>1, IdsInOrder
<1>. HIDE DEF seq
<1>4. \A i \in DOMAIN seq : seq[i] \in S
  BY <1>3 DEF Induct!Listing
<1>5. DOMAIN rows = DOMAIN seq /\ rows = [i \in DOMAIN rows |-> rows[i]]
      /\ \A i \in DOMAIN seq : rows[i] \in Seq(Datum)
  BY <1>1, <1>4
<1>. HIDE DEF rows
<1>. QED BY <1>2, <1>3, <1>5, RowsListed

LEMMA PrimaryKeyScanRows ==
  ASSUME NEW view, Typed(view), NEW t \in TableName, NEW x
  PROVE  PrimaryKeyScan(view, t, x) \in Seq(Seq(Datum))
<1>. DEFINE row == ReadById(view, t, Whole(x))
<1>1. row # None => row \in Seq(Datum)
  BY ReadByIdRow
<1>2. PrimaryKeyScan(view, t, x) = IF row = None THEN << >> ELSE << row >>
  BY Zenon DEF PrimaryKeyScan
<1>. HIDE DEF row
<1>. QED BY <1>1, <1>2

(* The rows UPDATE and DELETE go through are rows of data, if not an error. *)
LEMMA SourceRowsAreRows ==
  ASSUME NEW view, Typed(view), NEW t \in TableName, NEW where,
         SourceRows(view, t, where) # None
  PROVE  view[TableKey(t)] # None /\ SourceRows(view, t, where) \in Seq(Seq(Datum))
<1>1. SourceRows(view, t, where) \in
        {ScanTable(view, t, where), PrimaryKeyScan(view, t, where.value),
         IndexScan(view, t, where.field, where.value)}
  BY Zenon DEF SourceRows
<1>2. view[TableKey(t)] # None
  BY Zenon DEF SourceRows
<1>. QED BY <1>1, <1>2, ScanTableRows, PrimaryKeyScanRows, IndexScanRows

-----------------------------------------------------------------------------
(* The rows of INSERT                                                      *)

LEMMA DefaultOfColumn ==
  ASSUME NEW cols \in Seq(Column), NEW i \in DOMAIN cols, cols[i].default # None
  PROVE  cols[i].default \in Datum
<1>1. cols[i] \in Column
  BY LenProperties
<1>. QED BY <1>1 DEF Column

LEMMA PadRowIsWide ==
  ASSUME NEW cols \in Seq(Column), NEW values \in Seq(Datum), PadRow(cols, values) # None
  PROVE  PadRow(cols, values) \in Seq(Datum) /\ Len(PadRow(cols, values)) >= Len(cols)
<1>. DEFINE n == Len(cols)
            m == Len(values)
            more == IF m < n THEN n - m ELSE 0
            pad == [j \in 1..more |-> cols[m + j].default]
<1>1. n \in Nat /\ m \in Nat /\ DOMAIN cols = 1..n
  BY LenProperties
<1>2. ~\E i \in DOMAIN cols : i > m /\ cols[i].default = None
  BY Zenon DEF PadRow
<1>3. PadRow(cols, values) = values \o pad
  BY <1>2, Zenon DEF PadRow
<1>. HIDE DEF n, m
<1>4. more \in Nat /\ m + more >= n
  BY <1>1
<1>5. \A j \in 1..more : m + j \in 1..n /\ m + j > m
  BY <1>1
<1>. HIDE DEF more
<1>6. \A j \in 1..more : pad[j] \in Datum
  BY <1>1, <1>2, <1>5, DefaultOfColumn
<1>7. pad \in Seq(Datum) /\ Len(pad) = more
  BY <1>4, <1>6
<1>. HIDE DEF pad
<1>8. values \o pad \in Seq(Datum) /\ Len(values \o pad) = m + more
  BY <1>7, ConcatProperties DEF m
<1>. QED BY <1>3, <1>4, <1>8 DEF n

LEMMA LastOfPositions ==
  ASSUME NEW n \in Nat, NEW S \in SUBSET (1..n), S # {}
  PROVE  Max(S) \in S
<1>. DEFINE R == {p \in S \X S : p[1] < p[2]}
<1>1. IsFiniteSet(S)
  BY FS_Interval, FS_Subset, n \in Int, 1 \in Int
<1>2. \A x, y \in S : << x, y >> \in R <=> x < y
  OBVIOUS
<1>3. Induct!Orders(S, R)
  BY <1>2 DEF Induct!Orders
<1>. HIDE DEF R
<1>4. PICK m \in S : \A x \in S \ {m} : << x, m >> \in R
  <2>1. Induct!HasLast(S, R)
    BY <1>1, <1>3, SameSets, Induct!LastExists
  <2>. QED BY <2>1, Zenon DEF Induct!HasLast
<1>5. ASSUME NEW x \in S PROVE m >= x
  <2>1. x = m \/ << x, m >> \in R
    BY <1>4, Zenon
  <2>2. x = m \/ x < m
    BY <1>2, <2>1, Zenon
  <2>. QED BY <2>2
<1>. QED BY <1>5, Zenon DEF Max

LEMMA MakeRowIsWide ==
  ASSUME NEW cols \in Seq(Column), NEW names \in Seq(ColumnName), NEW values \in Seq(Datum),
         MakeRow(cols, names, values) # None
  PROVE  MakeRow(cols, names, values) \in Seq(Datum)
         /\ Len(MakeRow(cols, names, values)) >= Len(cols)
<1>. DEFINE given(c) == {i \in DOMAIN names : names[i] = c}
            row == [i \in DOMAIN cols |-> IF given(cols[i].name) # {}
                                          THEN values[Max(given(cols[i].name))]
                                          ELSE cols[i].default]
            n == Len(cols)
<1>1. ~(\/ Len(names) # Len(values)
        \/ \E i \in DOMAIN cols : given(cols[i].name) = {} /\ cols[i].default = None)
  BY Zenon DEF MakeRow
<1>2. MakeRow(cols, names, values) = row
  BY <1>1, Zenon DEF MakeRow
<1>3. n \in Nat /\ DOMAIN cols = 1..n /\ Len(names) \in Nat
      /\ DOMAIN names = 1..Len(names) /\ values \in [1..Len(values) -> Datum]
  BY LenProperties
<1>4. ASSUME NEW i \in DOMAIN cols PROVE row[i] \in Datum
  <2>1. CASE given(cols[i].name) = {}
    BY <1>1, <2>1, DefaultOfColumn
  <2>2. CASE given(cols[i].name) # {}
    <3>1. given(cols[i].name) \in SUBSET (1..Len(names))
      BY <1>3
    <3>. HIDE DEF given
    <3>2. Max(given(cols[i].name)) \in 1..Len(names)
      BY <1>3, <2>2, <3>1, LastOfPositions
    <3>3. Len(names) = Len(values)
      BY <1>1
    <3>. QED BY <1>3, <2>2, <3>2, <3>3
  <2>. QED BY <2>1, <2>2
<1>. HIDE DEF given
<1>5. row \in [1..n -> Datum]
  BY <1>3, <1>4
<1>. HIDE DEF row
<1>6. row \in Seq(Datum) /\ Len(row) = n
  <2>. HIDE DEF n
  <2>. QED BY <1>3, <1>5
<1>. QED BY <1>2, <1>3, <1>6

-----------------------------------------------------------------------------
(* Statements                                                              *)

\* The steps of the folds over the rows of a statement.
InsertStep(c, p, values) ==
    LET row == IF c.names = << >> THEN PadRow(c.o.view[TableKey(c.t)], values)
               ELSE MakeRow(c.o.view[TableKey(c.t)], c.names, values)
    IN  IF ~p.ok THEN p ELSE IF row = None THEN Err(p) ELSE CreateRow(p, c.t, row)
UpdateStep(c, p, row) ==
    IF p.ok
    THEN UpdateRow(p, c.t, c.o.view[TableKey(c.t)],
                   GetPrimaryKey(c.o.view[TableKey(c.t)], row),
                   [i \in DOMAIN row |->
                      IF i \in DOMAIN c.o.view[TableKey(c.t)]
                           /\ c.o.view[TableKey(c.t)][i].name \in DOMAIN c.set
                      THEN c.set[c.o.view[TableKey(c.t)][i].name] ELSE row[i]])
    ELSE p
DeleteStep(c, p, row) ==
    DeleteRow(p, c.t, c.o.view[TableKey(c.t)], GetPrimaryKey(c.o.view[TableKey(c.t)], row))

InsertFold == INSTANCE Induction WITH Step <- InsertStep, Holds <- GoesOn
UpdateFold == INSTANCE Induction WITH Step <- UpdateStep, Holds <- GoesOn
DeleteFold == INSTANCE Induction WITH Step <- DeleteStep, Holds <- GoesOn

LEMMA InsertFolds ==
  ASSUME NEW c, c.o.view[TableKey(c.t)] # None
  PROVE  Insert(c.o, c.t, c.names, c.rows)
            = [InsertFold!Fold(c, c.o, c.rows) EXCEPT !.count = Len(c.rows)]
BY Zenon DEF Insert, InsertFold!Fold, InsertFold!Folds, InsertFold!Last, FoldLeft, MapThenFoldSet,
             Max, InsertStep

LEMMA UpdateFolds ==
  ASSUME NEW c, SourceRows(c.o.view, c.t, c.where) # None
  PROVE  Update(c.o, c.t, c.where, c.set)
            = [UpdateFold!Fold(c, c.o, SourceRows(c.o.view, c.t, c.where)) EXCEPT
                 !.count = Len(SourceRows(c.o.view, c.t, c.where))]
BY Zenon DEF Update, UpdateFold!Fold, UpdateFold!Folds, UpdateFold!Last, FoldLeft, MapThenFoldSet,
             Max, UpdateStep

LEMMA DeleteFolds ==
  ASSUME NEW c, SourceRows(c.o.view, c.t, c.where) # None
  PROVE  Delete(c.o, c.t, c.where)
            = [DeleteFold!Fold(c, c.o, SourceRows(c.o.view, c.t, c.where)) EXCEPT
                 !.count = Len(SourceRows(c.o.view, c.t, c.where))]
BY Zenon DEF Delete, DeleteFold!Fold, DeleteFold!Folds, DeleteFold!Last, FoldLeft, MapThenFoldSet,
             Max, DeleteStep

(* A row INSERT makes is as wide as the table, or wider.                   *)
LEMMA InsertKeeps ==
  ASSUME NEW view, Typed(view), NEW t \in TableName,
         NEW names \in Seq(ColumnName), NEW rows \in Seq(Seq(Datum))
  PROVE  Outcome(view, "Insert", Insert(Start(view), t, names, rows))
<1>. DEFINE o == Start(view)
            kind == "Insert"
            cols == view[TableKey(t)]
            c == [view |-> view, kind |-> kind, o |-> o, t |-> t, names |-> names, rows |-> rows]
<1>1. o.view = view /\ Outcome(view, kind, o)
  BY StartIsOutcome DEF Start
<1>2. CASE cols = None
  <2>1. Insert(o, t, names, rows) = Err(o)
    BY <1>1, <1>2, Zenon DEF Insert
  <2>. QED BY <1>1, <2>1, ErrKeeps
<1>3. CASE cols # None
  <2>1. c.view = view /\ c.kind = kind /\ c.o = o /\ c.t = t /\ c.names = names /\ c.rows = rows
    OBVIOUS
  <2>. HIDE DEF c, o
  <2>2. Insert(o, t, names, rows) = [InsertFold!Fold(c, o, rows) EXCEPT !.count = Len(rows)]
    <3>1. c.o.view[TableKey(c.t)] # None
      BY <1>1, <1>3, <2>1
    <3>2. Insert(c.o, c.t, c.names, c.rows)
            = [InsertFold!Fold(c, c.o, c.rows) EXCEPT !.count = Len(c.rows)]
      BY <3>1, InsertFolds, Zenon
    <3>. QED BY <2>1, <3>2, Zenon
  <2>3. cols \in Seq(Column)
    BY <1>3, TableOfView
  <2>. HIDE DEF kind
  <2>4. ASSUME NEW values \in Seq(Datum), NEW p, Outcome(view, kind, p)
        PROVE  Outcome(view, kind, InsertStep(c, p, values))
    <3>. DEFINE row == IF names = << >> THEN PadRow(cols, values) ELSE MakeRow(cols, names, values)
    <3>1. InsertStep(c, p, values)
            = IF ~p.ok THEN p ELSE IF row = None THEN Err(p) ELSE CreateRow(p, t, row)
      BY <1>1, <2>1, Zenon DEF InsertStep
    <3>2. Outcome(view, kind, Err(p))
      BY <2>4, ErrKeeps
    <3>3. ASSUME row # None PROVE Outcome(view, kind, CreateRow(p, t, row))
      <4>1. row \in Seq(Datum) /\ Len(row) >= Len(cols)
        BY <2>3, <3>3, PadRowIsWide, MakeRowIsWide
      <4>. HIDE DEF row
      <4>2. Len(row) \in Nat /\ Len(cols) \in Nat
        BY <2>3, <4>1, LenProperties
      <4>3. Fits(cols, row) => Allowed(kind, cols, row)
        BY <1>3, <4>1, <4>2 DEF Allowed, IsRowOf, Unchecked
      <4>. QED BY <2>4, <4>1, <4>3, CreateRowKeeps
    <3>. HIDE DEF row
    <3>. QED BY <2>4, <3>1, <3>2, <3>3, Zenon
  <2>5. Len(rows) \in Nat /\ DOMAIN rows = 1..Len(rows)
        /\ \A i \in 0..(Len(rows) - 1) : rows[i + 1] \in Seq(Datum)
    BY LenProperties
  <2>6. GoesOn(c, 0, o)
        /\ \A i \in 0..(Len(rows) - 1) : \A p :
              GoesOn(c, i, p) => GoesOn(c, i + 1, InsertStep(c, p, rows[i + 1]))
    BY <1>1, <2>1, <2>4, <2>5, Zenon DEF GoesOn
  <2>7. GoesOn(c, Len(rows), InsertFold!Fold(c, o, rows))
    BY <2>5, <2>6, InsertFold!FoldHolds, Zenon
  <2>8. Outcome(view, kind, InsertFold!Fold(c, o, rows))
    BY <2>1, <2>7, Zenon DEF GoesOn
  <2>9. Outcome(view, kind, [InsertFold!Fold(c, o, rows) EXCEPT !.count = Len(rows)])
    BY <2>8, CountKeeps
  <2>10. Outcome(view, kind, Insert(o, t, names, rows))
    BY <2>2, <2>9, Zenon
  <2>. QED BY <2>10 DEF kind, o
<1>. QED BY <1>2, <1>3

(* UPDATE and DELETE go through rows of the table.                         *)
LEMMA UpdateKeeps ==
  ASSUME NEW view, Typed(view), NEW t \in TableName, NEW where,
         NEW C, NEW set \in [C -> Datum]
  PROVE  Outcome(view, "Update", Update(Start(view), t, where, set))
<1>. DEFINE o == Start(view)
            kind == "Update"
            cols == view[TableKey(t)]
            rows == SourceRows(view, t, where)
            c == [view |-> view, kind |-> kind, o |-> o, t |-> t, where |-> where, set |-> set]
<1>1. o.view = view /\ Outcome(view, kind, o)
  BY StartIsOutcome DEF Start
<1>2. CASE rows = None
  <2>1. Update(o, t, where, set) = Err(o)
    BY <1>1, <1>2, Zenon DEF Update
  <2>. QED BY <1>1, <2>1, ErrKeeps
<1>3. CASE rows # None
  <2>1. c.view = view /\ c.kind = kind /\ c.o = o /\ c.t = t /\ c.where = where /\ c.set = set
    OBVIOUS
  <2>2. cols # None /\ rows \in Seq(Seq(Datum))
    BY <1>3, SourceRowsAreRows
  <2>. HIDE DEF c, o, rows
  <2>3. Update(o, t, where, set) = [UpdateFold!Fold(c, o, rows) EXCEPT !.count = Len(rows)]
    <3>1. SourceRows(c.o.view, c.t, c.where) = rows
      BY <1>1, <2>1, Zenon DEF rows
    <3>2. Update(c.o, c.t, c.where, c.set)
            = [UpdateFold!Fold(c, c.o, SourceRows(c.o.view, c.t, c.where)) EXCEPT
                 !.count = Len(SourceRows(c.o.view, c.t, c.where))]
      BY <1>3, <3>1, UpdateFolds, Zenon
    <3>. QED BY <2>1, <3>1, <3>2, Zenon
  <2>4. ASSUME NEW row \in Seq(Datum), NEW p, Outcome(view, kind, p)
        PROVE  Outcome(view, kind, UpdateStep(c, p, row))
    <3>. DEFINE new == [i \in DOMAIN row |->
                          IF i \in DOMAIN cols /\ cols[i].name \in DOMAIN set
                          THEN set[cols[i].name] ELSE row[i]]
                id == GetPrimaryKey(cols, row)
    <3>1. UpdateStep(c, p, row) = IF p.ok THEN UpdateRow(p, t, cols, id, new) ELSE p
      BY <1>1, <2>1, Zenon DEF UpdateStep
    <3>2. new \in Seq(Datum)
      <4>1. Len(row) \in Nat /\ DOMAIN row = 1..Len(row) /\ \A i \in DOMAIN row : row[i] \in Datum
        BY LenProperties
      <4>2. \A i \in DOMAIN row : new[i] \in Datum
        BY <4>1
      <4>. QED BY <4>1, <4>2
    <3>. HIDE DEF new, id
    <3>3. Outcome(view, kind, UpdateRow(p, t, cols, id, new))
      BY <2>2, <2>4, <3>2, UpdateRowKeeps
    <3>. QED BY <2>4, <3>1, <3>3, Zenon
  <2>. HIDE DEF kind
  <2>5. Len(rows) \in Nat /\ DOMAIN rows = 1..Len(rows)
        /\ \A i \in 0..(Len(rows) - 1) : rows[i + 1] \in Seq(Datum)
    BY <2>2, LenProperties
  <2>6. GoesOn(c, 0, o)
        /\ \A i \in 0..(Len(rows) - 1) : \A p :
              GoesOn(c, i, p) => GoesOn(c, i + 1, UpdateStep(c, p, rows[i + 1]))
    BY <1>1, <2>1, <2>4, <2>5, Zenon DEF GoesOn
  <2>7. GoesOn(c, Len(rows), UpdateFold!Fold(c, o, rows))
    BY <2>5, <2>6, UpdateFold!FoldHolds, Zenon
  <2>8. Outcome(view, kind, UpdateFold!Fold(c, o, rows))
    BY <2>1, <2>7, Zenon DEF GoesOn
  <2>9. Outcome(view, kind, [UpdateFold!Fold(c, o, rows) EXCEPT !.count = Len(rows)])
    BY <2>8, CountKeeps
  <2>10. Outcome(view, kind, Update(o, t, where, set))
    BY <2>3, <2>9, Zenon
  <2>. QED BY <2>10 DEF kind, o
<1>. QED BY <1>2, <1>3

LEMMA DeleteKeepsAll ==
  ASSUME NEW view, Typed(view), NEW t \in TableName, NEW where
  PROVE  Outcome(view, "Delete", Delete(Start(view), t, where))
<1>. DEFINE o == Start(view)
            kind == "Delete"
            rows == SourceRows(view, t, where)
            c == [view |-> view, kind |-> kind, o |-> o, t |-> t, where |-> where]
<1>1. o.view = view /\ Outcome(view, kind, o)
  BY StartIsOutcome DEF Start
<1>2. CASE rows = None
  <2>1. Delete(o, t, where) = Err(o)
    BY <1>1, <1>2, Zenon DEF Delete
  <2>. QED BY <1>1, <2>1, ErrKeeps
<1>3. CASE rows # None
  <2>1. c.view = view /\ c.kind = kind /\ c.o = o /\ c.t = t /\ c.where = where
    OBVIOUS
  <2>2. rows \in Seq(Seq(Datum))
    BY <1>3, SourceRowsAreRows
  <2>. HIDE DEF c, o, rows, kind
  <2>3. Delete(o, t, where) = [DeleteFold!Fold(c, o, rows) EXCEPT !.count = Len(rows)]
    <3>1. SourceRows(c.o.view, c.t, c.where) = rows
      BY <1>1, <2>1, Zenon DEF rows
    <3>2. Delete(c.o, c.t, c.where)
            = [DeleteFold!Fold(c, c.o, SourceRows(c.o.view, c.t, c.where)) EXCEPT
                 !.count = Len(SourceRows(c.o.view, c.t, c.where))]
      BY <1>3, <3>1, DeleteFolds, Zenon
    <3>. QED BY <2>1, <3>1, <3>2, Zenon
  <2>4. \A row, p : Outcome(view, kind, p) => Outcome(view, kind, DeleteStep(c, p, row))
    BY DeleteKeeps, Zenon DEF DeleteStep, DeleteRow
  <2>5. Len(rows) \in Nat /\ DOMAIN rows = 1..Len(rows)
    BY <2>2, LenProperties
  <2>6. GoesOn(c, 0, o)
        /\ \A i \in 0..(Len(rows) - 1) : \A p :
              GoesOn(c, i, p) => GoesOn(c, i + 1, DeleteStep(c, p, rows[i + 1]))
    BY <1>1, <2>1, <2>4, Zenon DEF GoesOn
  <2>7. GoesOn(c, Len(rows), DeleteFold!Fold(c, o, rows))
    BY <2>5, <2>6, DeleteFold!FoldHolds, Zenon
  <2>8. Outcome(view, kind, DeleteFold!Fold(c, o, rows))
    BY <2>1, <2>7, Zenon DEF GoesOn
  <2>9. Outcome(view, kind, [DeleteFold!Fold(c, o, rows) EXCEPT !.count = Len(rows)])
    BY <2>8, CountKeeps
  <2>10. Outcome(view, kind, Delete(o, t, where))
    BY <2>3, <2>9, Zenon
  <2>. QED BY <2>10 DEF kind, o
<1>. QED BY <1>2, <1>3

(* No table is written, so there is nothing to say of tables.              *)
LEMMA OutcomeToDo ==
  ASSUME NEW view, NEW kind, NEW o, Outcome(view, kind, o)
  PROVE  ToDo(view, kind, o.writes)
BY DEF Outcome, ToDo, TableWrite

LEMMA CreateTableToDo ==
  ASSUME NEW view, Typed(view), NEW t \in TableName, NEW cols \in Seq(Column), NEW kind
  PROVE  ToDo(view, kind, CreateTable(Start(view), t, cols).writes)
<1>. DEFINE o == Start(view)
            w == [key |-> TableKey(t), data |-> cols]
            p == CreateTable(o, t, cols)
<1>1. Outcome(view, kind, o) /\ o.view = view /\ o.writes = << >> /\ o.ok = TRUE
  BY StartIsOutcome DEF Start
<1>2. CASE o.view[TableKey(t)] # None \/ ~Validate(cols)
  <2>1. p = Err(o)
    BY <1>2 DEF CreateTable
  <2>2. Outcome(view, kind, p)
    BY <1>1, <2>1, ErrKeeps, Zenon
  <2>. QED BY <2>2, OutcomeToDo
<1>3. CASE ~(o.view[TableKey(t)] # None \/ ~Validate(cols))
  <2>1. p = Put(o, TableKey(t), cols) /\ view[TableKey(t)] = None
    BY <1>1, <1>3, Zenon DEF CreateTable
  <2>2. o = [view |-> o.view, writes |-> o.writes, ok |-> o.ok, count |-> o.count]
    BY DEF Start
  <2>. HIDE DEF o
  <2>3. p.writes = Append(o.writes, w)
    BY <1>1, <2>1, <2>2 DEF Put
  <2>4. w.key = TableKey(t) /\ w.data = cols /\ w.key.kind = "Table"
    BY DEF TableKey
  <2>. HIDE DEF p, w
  <2>5. IsSeq(p.writes) /\ Len(p.writes) = 1 /\ p.writes[1] = w
    <3>1. IsSeq(o.writes) /\ Len(o.writes) = 0
      BY <1>1, EmptyIsSeq
    <3>2. IsSeq(p.writes) /\ Len(p.writes) = Len(o.writes) + 1
          /\ p.writes[Len(o.writes) + 1] = w
      BY <2>3, <3>1, AppendIsSeq
    <3>. QED BY <3>1, <3>2
  <2>6. \A i \in 1..Len(p.writes) : i = 1
    BY <2>5
  <2>7. RowWrite(view, kind, w) /\ TableWrite(view, p.writes, 1)
    BY <2>1, <2>4, <2>5 DEF RowWrite, TableWrite
  <2>8. ToDo(view, kind, p.writes)
    BY <2>4, <2>5, <2>6, <2>7 DEF ToDo
  <2>. QED BY <2>8 DEF p, o
<1>. QED BY <1>2, <1>3

\* The rows of a table are deleted, one key after the other.
DropStep(c, p, k) == Put(p, k, None)
DropGoesOn(c, n, p) ==
    /\ p = [view |-> p.view, writes |-> p.writes, ok |-> p.ok, count |-> p.count]
    /\ p.ok = TRUE
    /\ IsSeq(p.writes)
    /\ Len(p.writes) = n
    /\ \A i \in 1..n : p.writes[i] = [key |-> c[i], data |-> None]

DropFold == INSTANCE Induction WITH Step <- DropStep, Holds <- DropGoesOn

LEMMA DropFolds ==
  ASSUME NEW o, NEW t, NEW c
  PROVE  DropTable(o, t) =
            Put(DropFold!Fold(c, o, InOrder(RowKeys(o.view, t), KeyBefore)), TableKey(t), None)
BY Zenon DEF DropTable, DropFold!Fold, DropFold!Folds, DropFold!Last, FoldLeft, MapThenFoldSet,
             Max, DropStep

\* One more write, of whatever.
DropWritten(c, n, q, w) ==
    /\ q = [view |-> q.view, writes |-> q.writes, ok |-> q.ok, count |-> q.count]
    /\ q.ok = TRUE
    /\ IsSeq(q.writes)
    /\ n \in Nat
    /\ Len(q.writes) = n + 1
    /\ \A i \in 1..n : q.writes[i] = [key |-> c[i], data |-> None]
    /\ q.writes[n + 1] = w

LEMMA PutWrites ==
  ASSUME NEW c, NEW n, NEW p, DropGoesOn(c, n, p), NEW k, NEW x
  PROVE  DropWritten(c, n, Put(p, k, x), [key |-> k, data |-> x])
<1>. DEFINE q == Put(p, k, x)
            w == [key |-> k, data |-> x]
<1>1. p = [view |-> p.view, writes |-> p.writes, ok |-> p.ok, count |-> p.count] /\ p.ok = TRUE
  BY DEF DropGoesOn
<1>2. /\ q = [view |-> q.view, writes |-> q.writes, ok |-> q.ok, count |-> q.count]
      /\ q.ok = p.ok
      /\ q.writes = Append(p.writes, w)
  BY <1>1 DEF Put
<1>. HIDE DEF q, w
<1>3. n = Len(p.writes) /\ n \in Nat /\ IsSeq(p.writes)
  BY DEF DropGoesOn, IsSeq
<1>4. IsSeq(q.writes) /\ Len(q.writes) = n + 1 /\ q.writes[n + 1] = w
      /\ \A i \in 1..n : q.writes[i] = p.writes[i]
  BY <1>2, <1>3, AppendIsSeq
<1>5. DropWritten(c, n, q, w)
  BY <1>1, <1>2, <1>3, <1>4, Zenon DEF DropGoesOn, DropWritten
<1>. QED BY <1>5 DEF q, w

LEMMA DropTableToDo ==
  ASSUME NEW view, Typed(view), NEW t \in TableName, NEW kind
  PROVE  ToDo(view, kind, DropTable(Start(view), t).writes)
<1>. DEFINE o == Start(view)
            keys == InOrder(RowKeys(view, t), KeyBefore)
            p == DropFold!Fold(keys, o, keys)
            q == Put(p, TableKey(t), None)
            todo == q.writes
<1>1. /\ o = [view |-> o.view, writes |-> o.writes, ok |-> o.ok, count |-> o.count]
      /\ o.ok = TRUE /\ o.view = view /\ o.writes = << >>
  BY DEF Start
<1>. HIDE DEF o
<1>2. DropTable(o, t) = q
  BY <1>1, DropFolds, Zenon
<1>3. PICK n \in Nat : /\ keys \in [1..n -> RowKeys(view, t)]
                       /\ \A k \in RowKeys(view, t) : \E i \in 1..n : keys[i] = k
  BY RowKeysOfView, KeysInOrder DEF Induct!Listing
<1>. HIDE DEF keys
<1>4. DropGoesOn(keys, 0, o)
  BY <1>1, EmptyIsSeq DEF DropGoesOn
<1>5. ASSUME NEW i \in 0..(n - 1), NEW r, DropGoesOn(keys, i, r)
      PROVE  DropGoesOn(keys, i + 1, DropStep(keys, r, keys[i + 1]))
  <2>. DEFINE r2 == Put(r, keys[i + 1], None)
  <2>1. DropWritten(keys, i, r2, [key |-> keys[i + 1], data |-> None])
    BY <1>5, PutWrites
  <2>. HIDE DEF r2
  <2>2. \A j \in 1..(i + 1) : j \in 1..i \/ j = i + 1
    OBVIOUS
  <2>3. DropGoesOn(keys, i + 1, r2)
    BY <2>1, <2>2, Zenon DEF DropGoesOn, DropWritten
  <2>. QED BY <2>3, Zenon DEF DropStep, r2
<1>6. DropGoesOn(keys, n, p)
  <2>1. DOMAIN keys = 1..n
    BY <1>3
  <2>. QED BY <1>4, <1>5, <2>1, DropFold!FoldHolds, Zenon
<1>. HIDE DEF p
<1>7. /\ IsSeq(todo)
      /\ Len(todo) = n + 1
      /\ \A i \in 1..n : todo[i] = [key |-> keys[i], data |-> None]
      /\ todo[n + 1] = [key |-> TableKey(t), data |-> None]
  <2>1. DropWritten(keys, n, q, [key |-> TableKey(t), data |-> None])
    BY <1>6, PutWrites
  <2>. HIDE DEF q
  <2>. QED BY <2>1, Zenon DEF DropWritten
<1>. HIDE DEF q, todo
<1>8. ASSUME NEW i \in 1..n
      PROVE  todo[i].data = None /\ todo[i].key.kind = "Row"
  <2>1. keys[i].kind = "Row"
    BY <1>3 DEF RowKeys
  <2>2. todo[i] = [key |-> keys[i], data |-> None]
    BY <1>7, Zenon
  <2>. QED BY <2>1, <2>2
<1>9. todo[n + 1].data = None /\ todo[n + 1].key = TableKey(t)
  BY <1>7
<1>10. \A i \in 1..Len(todo) : todo[i].data = None
  BY <1>7, <1>8, <1>9
<1>11. ASSUME NEW i \in 1..Len(todo) PROVE RowWrite(view, kind, todo[i]) /\ TableWrite(view, todo, i)
  <2>1. RowWrite(view, kind, todo[i])
    BY <1>10 DEF RowWrite
  <2>2. CASE i \in 1..n
    BY <1>8, <2>1, <2>2 DEF TableWrite
  <2>3. CASE i = n + 1
    <3>1. ASSUME NEW id \in Ids, view[RowKey(t, id)] # None
          PROVE  \E j \in 1..(i - 1) : todo[j] = [key |-> RowKey(t, id), data |-> None]
      <4>1. RowKey(t, id) \in RowKeys(view, t)
        <5>1. RowKey(t, id) \in DOMAIN view
          BY DEF Typed, StoreKey, Ids
        <5>2. Len(t) \in Nat
          BY DataAssumption, LenProperties
        <5>3. IsPrefix(t, t)
          BY <5>2 DEF IsPrefix
        <5>. QED BY <3>1, <5>1, <5>3 DEF RowKeys, RowKey
      <4>2. PICK j \in 1..n : keys[j] = RowKey(t, id)
        BY <1>3, <4>1
      <4>3. todo[j] = [key |-> RowKey(t, id), data |-> None]
        BY <1>7, <4>2
      <4>. QED BY <2>3, <4>3
    <3>. QED BY <1>7, <1>9, <2>1, <2>3, <3>1, Zenon DEF TableWrite
  <2>. QED BY <1>7, <2>2, <2>3
<1>12. ToDo(view, kind, todo)
  BY <1>7, <1>10, <1>11, Zenon DEF ToDo
<1>. QED BY <1>2, <1>12 DEF todo, o

(* What a statement has to write when it was planned and executed.         *)
LEMMA ExecuteToDo ==
  ASSUME NEW view, Typed(view), NEW stmt \in Statement
  PROVE  ToDo(view, stmt.kind, Execute(view, stmt).writes)
<1>1. CASE stmt \in [kind : {"CreateTable"}, table : TableName, columns : Seq(Column)]
  <2>1. stmt.kind = "CreateTable" /\ stmt.table \in TableName /\ stmt.columns \in Seq(Column)
    BY <1>1
  <2>2. Execute(view, stmt) = CreateTable(Start(view), stmt.table, stmt.columns)
    BY <2>1 DEF Execute
  <2>. QED BY <2>1, <2>2, CreateTableToDo
<1>2. CASE stmt \in [kind : {"DropTable"}, table : TableName]
  <2>1. stmt.kind = "DropTable" /\ stmt.table \in TableName
    BY <1>2
  <2>2. Execute(view, stmt) = DropTable(Start(view), stmt.table)
    BY <2>1 DEF Execute
  <2>. QED BY <2>1, <2>2, DropTableToDo
<1>3. CASE stmt \in [kind : {"Insert"}, table : TableName, names : Seq(ColumnName),
                     rows : Seq(Seq(Datum))]
  <2>1. stmt.kind = "Insert" /\ stmt.table \in TableName /\ stmt.names \in Seq(ColumnName)
        /\ stmt.rows \in Seq(Seq(Datum))
    BY <1>3
  <2>2. Execute(view, stmt) = Insert(Start(view), stmt.table, stmt.names, stmt.rows)
    BY <2>1 DEF Execute
  <2>. QED BY <2>1, <2>2, InsertKeeps, OutcomeToDo
<1>4. CASE stmt \in [kind : {"Update"}, table : TableName, where : Condition,
                     set : UNION {[C -> Datum] : C \in SUBSET ColumnName}]
  <2>1. stmt.kind = "Update" /\ stmt.table \in TableName
        /\ stmt.set \in UNION {[C -> Datum] : C \in SUBSET ColumnName}
    BY <1>4
  <2>2. PICK C \in SUBSET ColumnName : stmt.set \in [C -> Datum]
    BY <2>1
  <2>3. Execute(view, stmt) = Update(Start(view), stmt.table, stmt.where, stmt.set)
    BY <2>1 DEF Execute
  <2>4. Outcome(view, "Update", Update(Start(view), stmt.table, stmt.where, stmt.set))
    BY <2>1, <2>2, UpdateKeeps
  <2>. QED BY <2>1, <2>3, <2>4, OutcomeToDo
<1>5. CASE stmt \in [kind : {"Delete"}, table : TableName, where : Condition]
  <2>1. stmt.kind = "Delete" /\ stmt.table \in TableName
    BY <1>5
  <2>2. Execute(view, stmt) = Delete(Start(view), stmt.table, stmt.where)
    BY <2>1 DEF Execute
  <2>. QED BY <2>1, <2>2, DeleteKeepsAll, OutcomeToDo
<1>. QED BY <1>1, <1>2, <1>3, <1>4, <1>5 DEF Statement

-----------------------------------------------------------------------------
(* Sound views                                                             *)

LEMMA SoundGrows ==
  ASSUME NEW view, NEW A, NEW B, NEW U, NEW W, Sound(view, A, U), A \subseteq B, U \subseteq W
  PROVE  Sound(view, B, W)
BY DEF Sound, Belong, Fit

LEMMA KeysOfStore ==
  ASSUME NEW t \in TableName
  PROVE  TableKey(t) \in StoreKey /\ \A id \in Ids : RowKey(t, id) \in StoreKey
BY DEF StoreKey, Ids

(* A view that is mixed from two sound ones is sound where a table and its *)
(* rows are of the same one.                                               *)
LEMMA MixIsSound ==
  ASSUME NEW view, NEW v, NEW w, NEW A, NEW U, Sound(v, A, U), Sound(w, A, U),
         view = [k \in StoreKey |-> view[k]],
         \A k \in StoreKey : view[k] = v[k] \/ view[k] = w[k],
         NEW B, A \subseteq B,
         \A t \in TableName \ B, id \in Ids :
            \/ view[TableKey(t)] = v[TableKey(t)] /\ view[RowKey(t, id)] = v[RowKey(t, id)]
            \/ view[TableKey(t)] = w[TableKey(t)] /\ view[RowKey(t, id)] = w[RowKey(t, id)]
  PROVE  Sound(view, B, U)
<1>1. Typed(view)
  <2>1. ASSUME NEW t \in TableName PROVE view[TableKey(t)] \in Seq(Column) \cup {None}
    <3>1. view[TableKey(t)] = v[TableKey(t)] \/ view[TableKey(t)] = w[TableKey(t)]
      BY KeysOfStore
    <3>. QED BY <3>1 DEF Sound, Typed
  <2>2. ASSUME NEW t \in TableName, NEW id \in Ids
        PROVE  view[RowKey(t, id)] \in Seq(Datum) \cup {None}
    <3>1. view[RowKey(t, id)] = v[RowKey(t, id)] \/ view[RowKey(t, id)] = w[RowKey(t, id)]
      BY KeysOfStore
    <3>. QED BY <3>1 DEF Sound, Typed
  <2>. QED BY <2>1, <2>2 DEF Typed
<1>2. ASSUME NEW t \in TableName \ B, NEW id \in Ids, view[RowKey(t, id)] # None
      PROVE  /\ view[TableKey(t)] # None
             /\ IsRowOf(view[TableKey(t)], view[RowKey(t, id)]) \/ RowKey(t, id) \in U
  <2>1. t \in TableName \ A
    OBVIOUS
  <2>2. CASE view[TableKey(t)] = v[TableKey(t)] /\ view[RowKey(t, id)] = v[RowKey(t, id)]
    BY <1>2, <2>1, <2>2 DEF Sound, Belong, Fit
  <2>3. CASE view[TableKey(t)] = w[TableKey(t)] /\ view[RowKey(t, id)] = w[RowKey(t, id)]
    BY <1>2, <2>1, <2>3 DEF Sound, Belong, Fit
  <2>. QED BY <2>2, <2>3
<1>. QED BY <1>1, <1>2, Zenon DEF Sound, Belong, Fit

\* A key of a row or a table after one write.
WrittenTo(view, new, key, x) ==
    /\ new = [k \in StoreKey |-> new[k]]
    /\ \A k \in StoreKey : k # key => new[k] = view[k]
    /\ key \in StoreKey /\ key.kind \in {"Row", "Table"} => new[key] = x

LEMMA KindsOfKeys ==
  ASSUME NEW k \in StoreKey
  PROVE  /\ k.kind = "Row" => \E t \in TableName, id \in Ids : k = RowKey(t, id)
         /\ k.kind = "Table" => \E t \in TableName : k = TableKey(t)
         /\ k.kind \in {"Row", "Table", "Index"}
BY DEF StoreKey, Ids, RowKey, TableKey, IndexKey

LEMMA KeysApart ==
  /\ \A t, u, i : TableKey(t) # RowKey(u, i)
  /\ \A t, u, i, j : RowKey(t, i) = RowKey(u, j) <=> t = u /\ i = j
  /\ \A t, u : TableKey(t) = TableKey(u) <=> t = u
  /\ \A t : TableKey(t).kind = "Table" /\ TableKey(t).name = t
  /\ \A t, i : RowKey(t, i).kind = "Row" /\ RowKey(t, i).name = t
BY DEF TableKey, RowKey

(* A write is sound where the ones before it were.                         *)
LEMMA WriteIsSound ==
  ASSUME NEW view, NEW A, NEW U, Sound(view, A, U), NEW kind, NEW todo, ToDo(view, kind, todo),
         NEW n \in Nat, Len(todo) = n, n # 0,
         NEW key, NEW x, key = todo[1].key, x = todo[1].data,
         NEW new, WrittenTo(view, new, key, x),
         NEW W, U \subseteq W,
         key.kind = "Row" /\ x # None /\ Unchecked(kind, view[TableKey(key.name)], x) => key \in W
  PROVE  Sound(new, A, W)
<1>1. Sound(view, A, W)
  BY SoundGrows
<1>2. RowWrite(view, kind, todo[1]) /\ TableWrite(view, todo, 1)
  BY DEF ToDo
<1>. DEFINE row == key.kind = "Row"
            table == key.kind = "Table"
<1>3. CASE key \notin StoreKey \/ ~(row \/ table)
  <2>1. \A t \in TableName : new[TableKey(t)] = view[TableKey(t)]
    BY <1>3, KeysOfStore, KeysApart DEF WrittenTo
  <2>2. \A t \in TableName, id \in Ids : new[RowKey(t, id)] = view[RowKey(t, id)]
    BY <1>3, KeysOfStore, KeysApart DEF WrittenTo
  <2>. QED BY <1>1, <2>1, <2>2, Zenon DEF Sound, Typed, Belong, Fit, WrittenTo
<1>4. CASE key \in StoreKey /\ row
  <2>1. PICK t \in TableName, id \in Ids : key = RowKey(t, id)
    BY <1>4, KindsOfKeys
  <2>2. new[key] = x /\ \A u \in TableName : new[TableKey(u)] = view[TableKey(u)]
    BY <1>4, <2>1, KeysOfStore, KeysApart DEF WrittenTo
  <2>3. \A u \in TableName, i \in Ids : RowKey(u, i) # key => new[RowKey(u, i)] = view[RowKey(u, i)]
    BY KeysOfStore DEF WrittenTo
  <2>4. x # None => /\ view[TableKey(t)] # None
                    /\ x \in Seq(Datum)
                    /\ IsRowOf(view[TableKey(t)], x) \/ key \in W
    <3>. SUFFICES ASSUME x # None
                  PROVE  /\ view[TableKey(t)] # None
                         /\ x \in Seq(Datum)
                         /\ IsRowOf(view[TableKey(t)], x) \/ key \in W
      OBVIOUS
    <3>1. key.name = t
      BY <2>1, KeysApart
    <3>2. PICK u \in TableName : /\ key.name = u
                                 /\ view[TableKey(u)] # None
                                 /\ x \in Seq(Datum)
                                 /\ Allowed(kind, view[TableKey(u)], x)
      BY <1>2, <1>4 DEF RowWrite
    <3>. QED BY <1>4, <3>1, <3>2 DEF Allowed
  <2>5. Typed(new)
    <3>1. new = [k \in StoreKey |-> new[k]]
      BY DEF WrittenTo
    <3>2. \A u \in TableName : new[TableKey(u)] \in Seq(Column) \cup {None}
      BY <2>2 DEF Sound, Typed
    <3>3. \A u \in TableName, i \in Ids : new[RowKey(u, i)] \in Seq(Datum) \cup {None}
      BY <2>2, <2>3, <2>4 DEF Sound, Typed
    <3>. QED BY <3>1, <3>2, <3>3 DEF Typed
  <2>6. ASSUME NEW u \in TableName \ A, NEW i \in Ids, new[RowKey(u, i)] # None
        PROVE  /\ new[TableKey(u)] # None
               /\ IsRowOf(new[TableKey(u)], new[RowKey(u, i)]) \/ RowKey(u, i) \in W
    <3>1. CASE RowKey(u, i) = key
      <4>1. u = t
        BY <2>1, <3>1, KeysApart
      <4>. QED BY <2>2, <2>4, <2>6, <3>1, <4>1
    <3>2. CASE RowKey(u, i) # key
      BY <1>1, <2>2, <2>3, <2>6, <3>2 DEF Sound, Belong, Fit
    <3>. QED BY <3>1, <3>2
  <2>. QED BY <2>5, <2>6, Zenon DEF Sound, Belong, Fit
<1>5. CASE key \in StoreKey /\ table
  <2>1. PICK t \in TableName :
            /\ key = TableKey(t)
            /\ \/ x \in Seq(Column) /\ view[TableKey(t)] = None
               \/ /\ x = None
                  /\ \A id \in Ids : view[RowKey(t, id)] # None =>
                        \E j \in 1..(1 - 1) : todo[j] = [key |-> RowKey(t, id), data |-> None]
    BY <1>2, <1>5 DEF TableWrite
  <2>2. \A u \in TableName, i \in Ids : new[RowKey(u, i)] = view[RowKey(u, i)]
    BY <2>1, KeysOfStore, KeysApart DEF WrittenTo
  <2>3. new[TableKey(t)] = x
        /\ \A u \in TableName : u # t => new[TableKey(u)] = view[TableKey(u)]
    BY <1>5, <2>1, KeysOfStore, KeysApart DEF WrittenTo
  <2>4. t \notin A => \A id \in Ids : view[RowKey(t, id)] = None
    <3>1. 1..(1 - 1) = {}
      OBVIOUS
    <3>. QED BY <2>1, <3>1 DEF Sound, Belong
  <2>5. Typed(new)
    BY <2>1, <2>2, <2>3 DEF Sound, Typed, WrittenTo
  <2>6. ASSUME NEW u \in TableName \ A, NEW i \in Ids, new[RowKey(u, i)] # None
        PROVE  /\ new[TableKey(u)] # None
               /\ IsRowOf(new[TableKey(u)], new[RowKey(u, i)]) \/ RowKey(u, i) \in W
    <3>1. u # t
      BY <2>2, <2>4, <2>6
    <3>2. new[TableKey(u)] = view[TableKey(u)] /\ new[RowKey(u, i)] = view[RowKey(u, i)]
      BY <2>2, <2>3, <3>1
    <3>. QED BY <1>1, <2>6, <3>2 DEF Sound, Belong, Fit
  <2>. QED BY <2>5, <2>6, Zenon DEF Sound, Belong, Fit
<1>. QED BY <1>3, <1>4, <1>5

(* What is left to write stays right after the first write.                *)
LEMMA WriteLeavesToDo ==
  ASSUME NEW view, NEW A, NEW U, Sound(view, A, U), NEW kind, NEW todo, ToDo(view, kind, todo),
         todo # << >>,
         NEW key, NEW x, key = todo[1].key, x = todo[1].data,
         NEW new, WrittenTo(view, new, key, x)
  PROVE  ToDo(new, kind, Tail(todo))
<1>. DEFINE rest == Tail(todo)
            n == Len(todo)
<1>1. /\ IsSeq(rest) /\ n \in Nat \ {0} /\ Len(rest) = n - 1
      /\ \A i \in 1..Len(rest) : rest[i] = todo[i + 1]
  BY TailIsSeq DEF ToDo
<1>. HIDE DEF rest
<1>2. \A i \in 1..n : RowWrite(view, kind, todo[i]) /\ TableWrite(view, todo, i)
  BY DEF ToDo
<1>3. \A i \in 1..Len(rest) : i + 1 \in 1..n
  BY <1>1
<1>4. 1 \in 1..n
  BY <1>1
<1>5. key.kind = "Table" => Len(rest) = 0
  <2>1. key.kind = "Table" => 1 = n
    BY <1>2, <1>4 DEF TableWrite
  <2>. HIDE DEF n
  <2>. QED BY <1>1, <2>1
<1>6. key.kind # "Table" => \A t \in TableName : new[TableKey(t)] = view[TableKey(t)]
  BY KeysOfStore, KeysApart DEF WrittenTo
<1>7. ASSUME NEW i \in 1..Len(rest) PROVE RowWrite(new, kind, rest[i]) /\ TableWrite(new, rest, i)
  <2>. DEFINE w == todo[i + 1]
  <2>1. key.kind # "Table"
    BY <1>1, <1>5
  <2>2. rest[i] = w /\ RowWrite(view, kind, w) /\ TableWrite(view, todo, i + 1)
    BY <1>1, <1>2, <1>3
  <2>. HIDE DEF w
  <2>3. \A t \in TableName : new[TableKey(t)] = view[TableKey(t)]
    BY <1>6, <2>1
  <2>4. RowWrite(new, kind, w)
    BY <2>2, <2>3, Zenon DEF RowWrite
  <2>5. TableWrite(new, rest, i)
    <3>. SUFFICES ASSUME w.key.kind = "Table" PROVE TableWrite(new, rest, i)
      BY <2>2 DEF TableWrite
    <3>1. PICK t \in TableName :
             /\ w.key = TableKey(t)
             /\ i + 1 = n
             /\ \/ w.data \in Seq(Column) /\ view[TableKey(t)] = None
                \/ /\ w.data = None
                   /\ \A id \in Ids : view[RowKey(t, id)] # None =>
                         \E j \in 1..((i + 1) - 1) :
                            todo[j] = [key |-> RowKey(t, id), data |-> None]
      BY <2>2 DEF TableWrite, w
    <3>2. i = Len(rest)
      BY <1>1, <3>1
    <3>3. CASE w.data \in Seq(Column) /\ view[TableKey(t)] = None
      BY <2>2, <2>3, <3>1, <3>2, <3>3, Zenon DEF TableWrite
    <3>4. CASE w.data = None /\ \A id \in Ids : view[RowKey(t, id)] # None =>
                   \E j \in 1..((i + 1) - 1) : todo[j] = [key |-> RowKey(t, id), data |-> None]
      <4>1. key.kind = "Row" => x = None
        <5>1. \E j \in 1..n : todo[j].key.kind = "Table"
          BY <1>3 DEF w
        <5>. QED BY <1>4, <5>1 DEF ToDo
      <4>2. ASSUME NEW id \in Ids, new[RowKey(t, id)] # None
            PROVE  \E j \in 1..(i - 1) : rest[j] = [key |-> RowKey(t, id), data |-> None]
        <5>1. key # RowKey(t, id)
          BY <4>1, <4>2, KeysOfStore, KeysApart DEF WrittenTo
        <5>2. view[RowKey(t, id)] # None
          BY <4>2, <5>1, KeysOfStore DEF WrittenTo
        <5>3. PICK j \in 1..((i + 1) - 1) : todo[j] = [key |-> RowKey(t, id), data |-> None]
          BY <3>4, <5>2
        <5>4. j # 1
          BY <5>1, <5>3
        <5>5. j - 1 \in 1..(i - 1) /\ j - 1 \in 1..Len(rest) /\ (j - 1) + 1 = j
          BY <1>1, <3>2, <5>4
        <5>6. rest[j - 1] = todo[j]
          BY <1>1, <5>5
        <5>. QED BY <5>3, <5>5, <5>6
      <4>. QED BY <2>2, <3>1, <3>2, <3>4, <4>2, Zenon DEF TableWrite
    <3>. QED BY <3>1, <3>3, <3>4
  <2>. QED BY <2>2, <2>4, <2>5
<1>8. (\E i \in 1..Len(rest) : rest[i].key.kind = "Table") =>
          \A i \in 1..Len(rest) : rest[i].key.kind = "Row" => rest[i].data = None
  <2>. SUFFICES ASSUME NEW j \in 1..Len(rest), rest[j].key.kind = "Table",
                       NEW i \in 1..Len(rest), rest[i].key.kind = "Row"
                PROVE  rest[i].data = None
    BY Zenon
  <2>1. rest[i] = todo[i + 1] /\ i + 1 \in 1..n /\ rest[j] = todo[j + 1] /\ j + 1 \in 1..n
    BY <1>1, <1>3
  <2>. QED BY <2>1 DEF ToDo
<1>9. ToDo(new, kind, rest)
  BY <1>1, <1>7, <1>8, Zenon DEF ToDo
<1>. QED BY <1>9 DEF rest

-----------------------------------------------------------------------------
(* Steps of the store                                                      *)

LEMMA ReadOfView ==
  ASSUME NEW s, NEW k \in StoreKey
  PROVE  View(s)[k] = IF own[s][k] # Unwritten THEN own[s][k] ELSE snapshot[s][k]
BY DEF View, Store!Read

(* The view of a session of which nothing changes.                         *)
LEMMA ViewStays ==
  ASSUME NEW s, own'[s] = own[s], snapshot'[s] = snapshot[s]
  PROVE  View(s)' = View(s)
BY DEF View, Store!Read

LEMMA BeginKeeps ==
  ASSUME SqlInv, NEW s \in Session, Store!Begin(s), UNCHANGED << misfits, skewed >>
  PROVE  /\ StoreTyped' /\ SnapshotsKnown'
         /\ Sound(db, skewed, misfits)'
         /\ \A r \in live' : Sound(View(r), skewed, misfits)'
         /\ View(s)' = db
         /\ s \notin live /\ live' = live \cup {s}
         /\ \A r \in live : View(r)' = View(r)
<1>1. /\ s \notin live /\ live' = live \cup {s} /\ own' = own /\ db' = db /\ missed' = missed
      /\ snapshot' = [snapshot EXCEPT ![s] = db]
  BY DEF Store!Begin
<1>2. db = [k \in StoreKey |-> db[k]]
  BY DEF SqlInv, Sound, Typed
<1>3. snapshot = [r \in Session |-> snapshot[r]]
  BY DEF SqlInv, StoreTyped
<1>4. snapshot'[s] = db /\ \A r \in Session \ {s} : snapshot'[r] = snapshot[r]
  BY <1>1, <1>3
<1>5. View(s)' = db
  <2>1. own'[s] = [k \in StoreKey |-> Unwritten]
    BY <1>1 DEF SqlInv, StoreTyped, Store!NoWrites
  <2>2. \A k \in StoreKey : Store!Read(s, k)' = db[k]
    BY <1>4, <2>1 DEF Store!Read
  <2>3. View(s)' = [k \in StoreKey |-> Store!Read(s, k)']
    BY DEF View
  <2>. QED BY <1>2, <2>2, <2>3, Zenon
<1>6. \A r \in live : r \in Session \ {s}
  BY <1>1 DEF SqlInv, StoreTyped
<1>7. \A r \in live : View(r)' = View(r)
  BY <1>1, <1>4, <1>6, ViewStays
<1>8. StoreTyped'
  <2>1. live' \subseteq Session /\ own' = [r \in Session |-> [k \in StoreKey |-> own'[r][k]]]
        /\ missed' \in [Session -> SUBSET StoreKey]
        /\ \A r \in Session : r \notin live' => own'[r] = Store!NoWrites
    BY <1>1 DEF SqlInv, StoreTyped
  <2>2. \A r \in Session : snapshot'[r] = [k \in StoreKey |-> snapshot'[r][k]]
    <3>1. \A r \in Session : snapshot[r] = [k \in StoreKey |-> snapshot[r][k]]
      BY DEF SqlInv, StoreTyped
    <3>. QED BY <1>2, <1>4, <3>1
  <2>3. snapshot' = [r \in Session |-> snapshot'[r]]
    BY <1>1, <1>3
  <2>4. snapshot' = [r \in Session |-> [k \in StoreKey |-> snapshot'[r][k]]]
    BY <2>2, <2>3, Zenon
  <2>. QED BY <2>1, <2>4 DEF StoreTyped, Store!NoWrites
<1>9. SnapshotsKnown'
  BY <1>1, <1>4, <1>6 DEF SqlInv, SnapshotsKnown
<1>10. \A r \in live' : Sound(View(r), skewed, misfits)'
  BY <1>1, <1>5, <1>7 DEF SqlInv
<1>11. Sound(db, skewed, misfits)'
  BY <1>1 DEF SqlInv
<1>. QED BY <1>1, <1>5, <1>7, <1>8, <1>9, <1>10, <1>11

LEMMA OverKeeps ==
  ASSUME SqlInv, NEW s \in Session, Store!Forget(s), missed' \in [Session -> SUBSET StoreKey],
         running' = [running EXCEPT ![s] = Idle], misfits' = misfits, skewed \subseteq skewed'
  PROVE  /\ StoreTyped'
         /\ \A r \in live' : Sound(View(r), skewed, misfits)'
         /\ UnderWay'
         /\ \A r \in live' : r \in live /\ r # s /\ snapshot'[r] = snapshot[r]
<1>1. /\ live' = live \ {s} /\ own' = [own EXCEPT ![s] = [k \in StoreKey |-> Unwritten]]
      /\ snapshot' = [snapshot EXCEPT ![s] = [k \in StoreKey |-> None]]
  BY DEF Store!Forget, Store!NoData, Store!NoWrites
<1>2. /\ own = [r \in Session |-> own[r]] /\ snapshot = [r \in Session |-> snapshot[r]]
      /\ \A r \in Session : own[r] = [k \in StoreKey |-> own[r][k]]
      /\ \A r \in Session : snapshot[r] = [k \in StoreKey |-> snapshot[r][k]]
      /\ live \subseteq Session
      /\ \A r \in Session : r \notin live => own[r] = [k \in StoreKey |-> Unwritten]
  BY DEF SqlInv, StoreTyped, Store!NoWrites
<1>3. /\ own' = [r \in Session |-> own'[r]] /\ snapshot' = [r \in Session |-> snapshot'[r]]
      /\ own'[s] = [k \in StoreKey |-> Unwritten] /\ snapshot'[s] = [k \in StoreKey |-> None]
      /\ \A r \in Session \ {s} : own'[r] = own[r] /\ snapshot'[r] = snapshot[r]
  BY <1>1, <1>2
<1>4. StoreTyped'
  <2>1. \A r \in Session : own'[r] = [k \in StoreKey |-> own'[r][k]]
    BY <1>2, <1>3
  <2>2. \A r \in Session : snapshot'[r] = [k \in StoreKey |-> snapshot'[r][k]]
    BY <1>2, <1>3
  <2>3. own' = [r \in Session |-> [k \in StoreKey |-> own'[r][k]]]
    BY <1>3, <2>1, Zenon
  <2>4. snapshot' = [r \in Session |-> [k \in StoreKey |-> snapshot'[r][k]]]
    BY <1>3, <2>2, Zenon
  <2>5. live' \subseteq Session
        /\ \A r \in Session : r \notin live' => own'[r] = [k \in StoreKey |-> Unwritten]
    BY <1>1, <1>2, <1>3
  <2>. QED BY <2>3, <2>4, <2>5 DEF StoreTyped, Store!NoWrites
<1>5. \A r \in live' : r \in live /\ r \in Session \ {s}
  BY <1>1, <1>2
<1>6. \A r \in live' : View(r)' = View(r)
  BY <1>3, <1>5, ViewStays
<1>7. ASSUME NEW r \in live' PROVE Sound(View(r), skewed, misfits)'
  <2>1. Sound(View(r), skewed, misfits)
    BY <1>5 DEF SqlInv
  <2>2. Sound(View(r), skewed', misfits)
    <3>. DEFINE v == View(r)
    <3>. HIDE DEF v
    <3>. QED BY <2>1, SoundGrows DEF v
  <2>. QED BY <1>6, <2>2
<1>8. UnderWay'
  <2>1. running = [r \in Session |-> running[r]]
    BY DEF SqlInv, UnderWay
  <2>2. running' = [r \in Session |-> running'[r]]
        /\ running'[s] = Idle /\ \A r \in Session \ {s} : running'[r] = running[r]
    BY <2>1
  <2>3. ASSUME NEW r \in Session, running'[r] # Idle
        PROVE  /\ running'[r] = [kind |-> running'[r].kind, todo |-> running'[r].todo,
                                 ok |-> running'[r].ok, gain |-> running'[r].gain,
                                 rows |-> running'[r].rows, before |-> running'[r].before]
               /\ r \in live' => ToDo(View(r)', running'[r].kind, running'[r].todo)
    <3>1. running'[r] = running[r]
      BY <2>2, <2>3
    <3>2. running[r] = [kind |-> running[r].kind, todo |-> running[r].todo,
                        ok |-> running[r].ok, gain |-> running[r].gain,
                        rows |-> running[r].rows, before |-> running[r].before]
          /\ (r \in live => ToDo(View(r), running[r].kind, running[r].todo))
      BY <2>3, <3>1 DEF SqlInv, UnderWay
    <3>. QED BY <1>5, <1>6, <3>1, <3>2
  <2>. QED BY <2>2, <2>3 DEF UnderWay
<1>. QED BY <1>3, <1>4, <1>5, <1>7, <1>8

-----------------------------------------------------------------------------
(* The ends of a transaction                                               *)

(* It leaves nothing, but locks perhaps.                                   *)
LEMMA NothingEnds ==
  ASSUME SqlInv, NEW s \in Session, Store!Forget(s), missed' = [missed EXCEPT ![s] = {}],
         db' = db, UNCHANGED skewed, Over(s)
  PROVE  SqlInv'
<1>1. missed' \in [Session -> SUBSET StoreKey] /\ \A r \in Session \ {s} : missed'[r] = missed[r]
  BY DEF SqlInv, StoreTyped
<1>2. /\ StoreTyped'
      /\ \A r \in live' : Sound(View(r), skewed, misfits)'
      /\ UnderWay'
      /\ \A r \in live' : r \in live /\ r # s /\ snapshot'[r] = snapshot[r]
  BY <1>1, OverKeeps DEF Over
<1>3. Sound(db, skewed, misfits)'
  BY DEF SqlInv, Over
<1>4. SnapshotsKnown'
  <2>1. \A r \in live' : missed'[r] = missed[r] /\ snapshot'[r] = snapshot[r] /\ r \in live
    BY <1>1, <1>2 DEF StoreTyped
  <2>. QED BY <2>1 DEF SqlInv, SnapshotsKnown
<1>. QED BY <1>2, <1>3, <1>4 DEF SqlInv

(* It is published: where somebody else committed a table or rows of it    *)
(* meanwhile, the table is known to be skewed.                             *)
LEMMA CommitEnds ==
  ASSUME SqlInv, NEW s \in Session, NEW gain, CommitStore(s, gain), Over(s)
  PROVE  SqlInv'
<1>. DEFINE wrote == Store!Written(s)
<1>1. /\ s \in live /\ Store!Forget(s)
      /\ db' = [k \in StoreKey |-> IF own[s][k] = Unwritten THEN db[k] ELSE own[s][k]]
      /\ missed' = [r \in Session |-> IF r \in live \ {s} THEN missed[r] \cup wrote ELSE {}]
      /\ skewed' = skewed \cup Skew(s)
  BY DEF CommitStore, Store!Commit
<1>2. wrote \in SUBSET StoreKey /\ \A k \in StoreKey : k \in wrote <=> own[s][k] # Unwritten
  BY DEF Store!Written
<1>. HIDE DEF wrote
<1>3. missed' \in [Session -> SUBSET StoreKey]
      /\ \A r \in live \ {s} : missed'[r] = missed[r] \cup wrote
  BY <1>1, <1>2 DEF SqlInv, StoreTyped
<1>4. /\ StoreTyped'
      /\ \A r \in live' : Sound(View(r), skewed, misfits)'
      /\ UnderWay'
      /\ \A r \in live' : r \in live /\ r # s /\ snapshot'[r] = snapshot[r]
  BY <1>1, <1>3, OverKeeps DEF Over
<1>5. SnapshotsKnown'
  <2>. SUFFICES ASSUME NEW r \in live', NEW k \in StoreKey \ missed'[r]
                PROVE  snapshot'[r][k] = db'[k]
    BY Zenon DEF SnapshotsKnown
  <2>1. r \in live \ {s} /\ snapshot'[r] = snapshot[r]
    BY <1>4
  <2>2. k \in StoreKey \ missed[r] /\ k \notin wrote
    BY <1>3, <2>1
  <2>3. db'[k] = db[k]
    BY <1>1, <1>2, <2>2
  <2>. QED BY <2>1, <2>2, <2>3 DEF SqlInv, SnapshotsKnown
<1>6. ASSUME NEW k \in StoreKey
      PROVE  /\ k \in wrote => db'[k] = View(s)[k]
             /\ k \notin wrote => db'[k] = db[k]
             /\ k \notin wrote /\ k \notin missed[s] => db'[k] = View(s)[k]
  <2>1. k \notin missed[s] => snapshot[s][k] = db[k]
    BY <1>1 DEF SqlInv, SnapshotsKnown
  <2>. QED BY <1>1, <1>2, <2>1, ReadOfView
<1>7. ASSUME NEW t \in TableName \ skewed', NEW id \in Ids
      PROVE  \/ db'[TableKey(t)] = View(s)[TableKey(t)] /\ db'[RowKey(t, id)] = View(s)[RowKey(t, id)]
             \/ db'[TableKey(t)] = db[TableKey(t)] /\ db'[RowKey(t, id)] = db[RowKey(t, id)]
  <2>. DEFINE K == TableKey(t)
              R == RowKey(t, id)
  <2>1. K \in StoreKey /\ R \in StoreKey /\ R.kind = "Row" /\ R.name = t
    BY KeysOfStore, KeysApart
  <2>2. ~(K \in missed[s] /\ R \in wrote) /\ ~(K \in wrote /\ R \in missed[s])
    <3>1. t \notin Skew(s)
      BY <1>1
    <3>. QED BY <2>1, <3>1, Zenon DEF Skew, wrote
  <2>. HIDE DEF K, R
  <2>3. \/ db'[K] = View(s)[K] /\ db'[R] = View(s)[R]
        \/ db'[K] = db[K] /\ db'[R] = db[R]
    BY <1>6, <2>1, <2>2
  <2>. QED BY <2>3 DEF K, R
<1>8. Sound(db, skewed, misfits)'
  <2>. DEFINE v == View(s)
              new == db'
  <2>1. Sound(v, skewed, misfits) /\ Sound(db, skewed, misfits)
    BY <1>1 DEF SqlInv
  <2>2. \A k \in StoreKey : new[k] = v[k] \/ new[k] = db[k]
    BY <1>6
  <2>3. new = [k \in StoreKey |-> new[k]]
    BY <1>1
  <2>4. \A t \in TableName \ skewed', id \in Ids :
            \/ new[TableKey(t)] = v[TableKey(t)] /\ new[RowKey(t, id)] = v[RowKey(t, id)]
            \/ new[TableKey(t)] = db[TableKey(t)] /\ new[RowKey(t, id)] = db[RowKey(t, id)]
    BY <1>7
  <2>5. skewed \subseteq skewed'
    BY <1>1
  <2>. HIDE DEF v, new
  <2>6. Sound(new, skewed', misfits)
    BY <2>1, <2>2, <2>3, <2>4, <2>5, MixIsSound
  <2>. QED BY <2>6 DEF new, Over
<1>. QED BY <1>4, <1>5, <1>8 DEF SqlInv

-----------------------------------------------------------------------------
(* The steps                                                               *)

(* Nothing changes that the invariant speaks of.                           *)
LEMMA StoreUnchanged ==
  ASSUME SqlInv, UNCHANGED << store, misfits, skewed >>
  PROVE  /\ StoreTyped' /\ SnapshotsKnown' /\ Sound(db, skewed, misfits)'
         /\ \A s \in live' : Sound(View(s), skewed, misfits)'
         /\ live' = live
         /\ \A s \in Session : View(s)' = View(s)
<1>1. \A s \in Session : View(s)' = View(s)
  BY ViewStays DEF store
<1>2. \A s \in live' : View(s)' = View(s) /\ s \in live
  BY <1>1 DEF store, SqlInv, StoreTyped
<1>3. \A s \in live' : Sound(View(s), skewed, misfits)'
  BY <1>2 DEF SqlInv
<1>4. StoreTyped' /\ SnapshotsKnown' /\ Sound(db, skewed, misfits)'
  BY DEF SqlInv, StoreTyped, SnapshotsKnown, store, Store!NoWrites
<1>. QED BY <1>1, <1>3, <1>4 DEF store

LEMMA BeginStep ==
  ASSUME SqlInv, NEW s \in Session, Begin(s)
  PROVE  SqlInv'
<1>1. /\ StoreTyped' /\ SnapshotsKnown'
      /\ Sound(db, skewed, misfits)'
      /\ \A r \in live' : Sound(View(r), skewed, misfits)'
      /\ live' = live \cup {s}
      /\ \A r \in live : View(r)' = View(r)
  BY BeginKeeps DEF Begin
<1>2. running' = running /\ running[s] = Idle
  BY DEF Begin
<1>3. UnderWay'
  BY <1>1, <1>2 DEF SqlInv, UnderWay
<1>. QED BY <1>1, <1>3 DEF SqlInv

\* What a session that runs a statement has to do.
RunIsRight(s, view) ==
    /\ running' = [r \in Session |-> running'[r]]
    /\ \A r \in Session \ {s} : running'[r] = running[r]
    /\ running'[s] = [kind |-> running'[s].kind, todo |-> running'[s].todo,
                      ok |-> running'[s].ok, gain |-> running'[s].gain,
                      rows |-> running'[s].rows, before |-> running'[s].before]
    /\ ToDo(view, running'[s].kind, running'[s].todo)

LEMMA RunToDo ==
  ASSUME SqlInv, NEW s \in Session, NEW stmt \in Statements, NEW view, Typed(view),
         Run(s, stmt, view)
  PROVE  RunIsRight(s, view)
<1>. DEFINE o == Execute(view, stmt)
            new == [kind |-> stmt.kind, todo |-> o.writes, ok |-> o.ok,
                    gain |-> IF o.ok THEN Gain(stmt, o.count) ELSE 0,
                    rows |-> {}, before |-> RowCount(view)]
<1>1. running' = [running EXCEPT ![s] = new]
  BY DEF Run
<1>2. ToDo(view, stmt.kind, o.writes)
  BY StatementsAssumption, ExecuteToDo
<1>3. new.kind = stmt.kind /\ new.todo = o.writes
      /\ new = [kind |-> new.kind, todo |-> new.todo, ok |-> new.ok, gain |-> new.gain,
                rows |-> new.rows, before |-> new.before]
  BY Zenon
<1>4. running = [r \in Session |-> running[r]]
  BY DEF SqlInv, UnderWay
<1>. HIDE DEF new, o
<1>. QED BY <1>1, <1>2, <1>3, <1>4 DEF RunIsRight

LEMMA ExecuteInTxnStep ==
  ASSUME SqlInv, NEW s \in Session, NEW stmt \in Statements, ExecuteInTxn(s, stmt)
  PROVE  SqlInv'
<1>1. /\ StoreTyped' /\ SnapshotsKnown' /\ Sound(db, skewed, misfits)'
      /\ \A r \in live' : Sound(View(r), skewed, misfits)'
      /\ live' = live
      /\ \A r \in Session : View(r)' = View(r)
  BY StoreUnchanged DEF ExecuteInTxn
<1>2. UnderWay'
  <2>1. CASE s \in live
    <3>1. Typed(View(s)) /\ Run(s, stmt, View(s))
      BY <2>1 DEF SqlInv, Sound, ExecuteInTxn
    <3>2. RunIsRight(s, View(s))
      BY <3>1, RunToDo
    <3>. QED BY <1>1, <3>2 DEF SqlInv, UnderWay, RunIsRight
  <2>2. CASE s \notin live
    <3>. DEFINE o == Execute(View(s), stmt)
                new == [kind |-> stmt.kind, todo |-> o.writes, ok |-> o.ok,
                        gain |-> IF o.ok THEN Gain(stmt, o.count) ELSE 0,
                        rows |-> {}, before |-> RowCount(View(s))]
    <3>1. running' = [running EXCEPT ![s] = new]
      BY DEF ExecuteInTxn, Run
    <3>2. new = [kind |-> new.kind, todo |-> new.todo, ok |-> new.ok, gain |-> new.gain,
                 rows |-> new.rows, before |-> new.before]
      BY Zenon
    <3>. HIDE DEF new
    <3>3. running = [r \in Session |-> running[r]]
      BY DEF SqlInv, UnderWay
    <3>. QED BY <1>1, <2>2, <3>1, <3>2, <3>3 DEF SqlInv, UnderWay
  <2>. QED BY <2>1, <2>2
<1>. QED BY <1>1, <1>2 DEF SqlInv

LEMMA AutocommitStep ==
  ASSUME SqlInv, NEW s \in Session, NEW stmt \in Statements, Autocommit(s, stmt)
  PROVE  SqlInv'
<1>1. CASE UNCHANGED << store, running >>
  <2>1. UNCHANGED << store, misfits, skewed >> /\ running' = running
    BY <1>1 DEF Autocommit
  <2>2. /\ StoreTyped' /\ SnapshotsKnown' /\ Sound(db, skewed, misfits)'
        /\ \A r \in live' : Sound(View(r), skewed, misfits)'
        /\ live' = live
        /\ \A r \in Session : View(r)' = View(r)
    BY <2>1, StoreUnchanged
  <2>3. UnderWay'
    BY <2>1, <2>2 DEF SqlInv, UnderWay
  <2>. QED BY <2>2, <2>3 DEF SqlInv
<1>2. CASE Store!Begin(s) /\ Run(s, stmt, db)
  <2>1. UNCHANGED << misfits, skewed >>
    BY DEF Autocommit
  <2>2. /\ StoreTyped' /\ SnapshotsKnown'
        /\ Sound(db, skewed, misfits)'
        /\ \A r \in live' : Sound(View(r), skewed, misfits)'
        /\ View(s)' = db
        /\ live' = live \cup {s}
        /\ \A r \in live : View(r)' = View(r)
    BY <1>2, <2>1, BeginKeeps
  <2>3. Typed(db)
    BY DEF SqlInv, Sound
  <2>4. RunIsRight(s, db)
    BY <1>2, <2>3, RunToDo
  <2>5. UnderWay'
    BY <2>2, <2>4 DEF SqlInv, UnderWay, RunIsRight
  <2>. QED BY <2>2, <2>5 DEF SqlInv
<1>. QED BY <1>1, <1>2 DEF Autocommit

LEMMA CommitStep ==
  ASSUME SqlInv, NEW s \in Session, Commit(s)
  PROVE  SqlInv'
BY CommitEnds DEF Commit

LEMMA RollbackStep ==
  ASSUME SqlInv, NEW s \in Session, Rollback(s)
  PROVE  SqlInv'
BY NothingEnds DEF Rollback, Store!Rollback

LEMMA DisconnectStep ==
  ASSUME SqlInv, NEW s \in Session, Disconnect(s)
  PROVE  SqlInv'
BY NothingEnds DEF Disconnect, Store!Abandon

LEMMA FinishStep ==
  ASSUME SqlInv, NEW s \in Session, Finish(s)
  PROVE  SqlInv'
<1>1. CASE /\ in_txn[s]
           /\ running' = [running EXCEPT ![s] = Idle]
           /\ UNCHANGED << store, misfits, skewed >>
  <2>1. /\ StoreTyped' /\ SnapshotsKnown' /\ Sound(db, skewed, misfits)'
        /\ \A r \in live' : Sound(View(r), skewed, misfits)'
        /\ live' = live
        /\ \A r \in Session : View(r)' = View(r)
    BY <1>1, StoreUnchanged
  <2>2. running = [r \in Session |-> running[r]]
    BY DEF SqlInv, UnderWay
  <2>3. running' = [r \in Session |-> running'[r]] /\ running'[s] = Idle
        /\ \A r \in Session \ {s} : running'[r] = running[r]
    BY <1>1, <2>2
  <2>4. UnderWay'
    BY <2>1, <2>3 DEF SqlInv, UnderWay
  <2>. QED BY <2>1, <2>4 DEF SqlInv
<1>2. CASE CommitStore(s, running[s].gain) /\ Over(s)
  BY <1>2, CommitEnds
<1>3. CASE Store!Rollback(s) /\ UNCHANGED skewed /\ Over(s)
  BY <1>3, NothingEnds DEF Store!Rollback
<1>. QED BY <1>1, <1>2, <1>3 DEF Finish

LEMMA RestartStep ==
  ASSUME SqlInv, Restart
  PROVE  SqlInv'
<1>1. /\ live' = {} /\ db' = db /\ running' = [s \in Session |-> Idle]
      /\ snapshot' = [s \in Session |-> [k \in StoreKey |-> None]]
      /\ own' = [s \in Session |-> [k \in StoreKey |-> Unwritten]]
      /\ missed' = [s \in Session |-> {}]
      /\ UNCHANGED << misfits, skewed >>
  BY DEF Restart, Store!Crash, Store!NoData, Store!NoWrites
<1>2. StoreTyped'
  BY <1>1 DEF StoreTyped, Store!NoWrites
<1>3. SnapshotsKnown' /\ UnderWay'
  BY <1>1 DEF SnapshotsKnown, UnderWay
<1>4. Sound(db, skewed, misfits)'
  BY SMTT(30), <1>1 DEF SqlInv
<1>. QED BY <1>1, <1>2, <1>3, <1>4 DEF SqlInv

(* A statement's next write, if it is not refused.                         *)
LEMMA WrittenStep ==
  ASSUME SqlInv, NEW s \in Session, running[s] # Idle, running[s].todo # << >>,
         NEW w, w = Head(running[s].todo),
         Store!Write(s, w.key, w.data),
         running' = [running EXCEPT ![s].todo = Tail(@),
                                    ![s].rows = @ \cup RowsWritten(running[s].todo)],
         misfits' = IF w.key.kind = "Row" /\ w.data # None
                       /\ Unchecked(running[s].kind, View(s)[TableKey(w.key.name)], w.data)
                    THEN misfits \cup {w.key} ELSE misfits,
         skewed' = skewed
  PROVE  SqlInv'
<1>. DEFINE todo == running[s].todo
            kind == running[s].kind
            key == w.key
            x == w.data
            view == View(s)
            new == View(s)'
<1>1. /\ s \in live /\ own' = [own EXCEPT ![s][key] = x]
      /\ UNCHANGED << db, live, snapshot, missed >>
  BY DEF Store!Write
<1>2. /\ own = [r \in Session |-> own[r]] /\ \A r \in Session : own[r] = [k \in StoreKey |-> own[r][k]]
      /\ live \subseteq Session
      /\ \A r \in Session : r \notin live => own[r] = Store!NoWrites
  BY DEF SqlInv, StoreTyped
<1>3. /\ own' = [r \in Session |-> own'[r]]
      /\ own'[s] = [own[s] EXCEPT ![key] = x]
      /\ \A r \in Session \ {s} : own'[r] = own[r]
  BY <1>1, <1>2
<1>4. /\ own'[s] = [k \in StoreKey |-> own'[s][k]]
      /\ \A k \in StoreKey : k # key => own'[s][k] = own[s][k]
      /\ key \in StoreKey => own'[s][key] = x
  BY <1>2, <1>3
<1>5. StoreTyped'
  <2>1. \A r \in Session : own'[r] = [k \in StoreKey |-> own'[r][k]]
    BY <1>2, <1>3, <1>4
  <2>2. own' = [r \in Session |-> [k \in StoreKey |-> own'[r][k]]]
    BY <1>3, <2>1, Zenon
  <2>3. \A r \in Session : r \notin live' => own'[r] = Store!NoWrites
    BY <1>1, <1>2, <1>3
  <2>4. /\ live' \subseteq Session
        /\ snapshot' = [r \in Session |-> [k \in StoreKey |-> snapshot'[r][k]]]
        /\ missed' \in [Session -> SUBSET StoreKey]
    <3>1. StoreTyped
      BY DEF SqlInv
    <3>2. /\ live \subseteq Session
          /\ snapshot = [r \in Session |-> [k \in StoreKey |-> snapshot[r][k]]]
          /\ missed \in [Session -> SUBSET StoreKey]
      BY <3>1, Zenon DEF StoreTyped
    <3>. QED BY <1>1, <3>2, Zenon
  <2>. QED BY <2>2, <2>3, <2>4, Zenon DEF StoreTyped
<1>6. SnapshotsKnown'
  BY SMTT(30), <1>1 DEF SqlInv, SnapshotsKnown
<1>7. \A r \in Session \ {s} : View(r)' = View(r)
  BY <1>1, <1>3, ViewStays
<1>8. /\ Sound(view, skewed, misfits) /\ ToDo(view, kind, todo)
      /\ running[s] = [kind |-> kind, todo |-> todo, ok |-> running[s].ok,
                       gain |-> running[s].gain,
                       rows |-> running[s].rows, before |-> running[s].before]
  BY <1>1 DEF SqlInv, UnderWay
<1>9. /\ Len(todo) \in Nat /\ Len(todo) # 0 /\ 1 \in 1..Len(todo)
      /\ key = todo[1].key /\ x = todo[1].data
  BY <1>8, TailIsSeq DEF ToDo
<1>10. key \in StoreKey /\ key.kind \in {"Row", "Table"} => x # Unwritten
  <2>1. RowWrite(view, kind, todo[1]) /\ TableWrite(view, todo, 1)
    BY <1>8, <1>9 DEF ToDo
  <2>2. x = None \/ x \in Seq(Datum) \/ x \in Seq(Column) \/ key.kind \notin {"Row", "Table"}
    BY <1>9, <2>1 DEF RowWrite, TableWrite
  <2>. QED BY <2>2, SqlMarkersAssumption
<1>11. WrittenTo(view, new, key, x)
  <2>1. new = [k \in StoreKey |-> new[k]]
    BY SMTT(30) DEF View
  <2>2. \A k \in StoreKey : new[k] = IF own'[s][k] # Unwritten THEN own'[s][k] ELSE snapshot'[s][k]
    BY SMTT(30) DEF View, Store!Read
  <2>3. \A k \in StoreKey : view[k] = IF own[s][k] # Unwritten THEN own[s][k] ELSE snapshot[s][k]
    BY DEF View, Store!Read
  <2>. HIDE DEF new, view, key, x
  <2>4. \A k \in StoreKey : k # key => new[k] = view[k]
    BY <1>1, <1>4, <2>2, <2>3
  <2>5. key \in StoreKey /\ key.kind \in {"Row", "Table"} => new[key] = x
    BY SMTT(30), <1>4, <1>10, <2>2
  <2>. QED BY <2>1, <2>4, <2>5 DEF WrittenTo
<1>12. /\ misfits \subseteq misfits'
       /\ key.kind = "Row" /\ x # None /\ Unchecked(kind, view[TableKey(key.name)], x) =>
             key \in misfits'
  BY SMTT(30)
<1>. HIDE DEF todo, kind, key, x, view, new
<1>13. Sound(new, skewed, misfits')
  BY <1>8, <1>9, <1>11, <1>12, WriteIsSound
<1>14. ToDo(new, kind, Tail(todo))
  <2>1. todo # << >>
    BY SMTT(30) DEF todo
  <2>. QED BY <1>8, <1>9, <1>11, <2>1, WriteLeavesToDo
<1>15. \A r \in live' : Sound(View(r), skewed, misfits)'
  <2>1. ASSUME NEW r \in live', r # s PROVE Sound(View(r)', skewed', misfits')
    <3>1. View(r)' = View(r) /\ Sound(View(r), skewed, misfits)
      BY <1>1, <1>2, <1>7, <2>1 DEF SqlInv
    <3>. DEFINE v == View(r)
    <3>2. Sound(v, skewed, misfits)
      BY SMTT(30), <3>1
    <3>. HIDE DEF v
    <3>3. Sound(v, skewed, misfits')
      BY SMTT(30), <1>12, <3>2, SoundGrows
    <3>. QED BY <3>1, <3>3 DEF v
  <2>2. Sound(View(s)', skewed', misfits')
    BY <1>13 DEF new
  <2>. QED BY <2>1, <2>2
<1>16. Sound(db, skewed, misfits)'
  <2>1. Sound(db, skewed, misfits)
    BY SMTT(30) DEF SqlInv
  <2>2. Sound(db, skewed, misfits')
    BY <1>12, <2>1, SoundGrows
  <2>. QED BY <1>1, <2>2
<1>17. UnderWay'
  <2>1. running = [r \in Session |-> running[r]]
    BY DEF SqlInv, UnderWay
  <2>2. /\ running' = [r \in Session |-> running'[r]]
        /\ \A r \in Session \ {s} : running'[r] = running[r]
        /\ running'[s] = [kind |-> kind, todo |-> Tail(todo), ok |-> running[s].ok,
                          gain |-> running[s].gain,
                          rows |-> running[s].rows \cup RowsWritten(todo),
                          before |-> running[s].before]
    <3>. DEFINE wrote == RowsWritten(todo)
    <3>1. running' = [running EXCEPT ![s].todo = Tail(todo), ![s].rows = @ \cup wrote]
      BY SMTT(30) DEF todo
    <3>. HIDE DEF wrote
    <3>2. /\ running' = [r \in Session |-> running'[r]]
          /\ \A r \in Session \ {s} : running'[r] = running[r]
      BY <2>1, <3>1
    <3>3. running'[s] = [kind |-> kind, todo |-> Tail(todo), ok |-> running[s].ok,
                         gain |-> running[s].gain,
                         rows |-> running[s].rows \cup wrote, before |-> running[s].before]
      BY <1>8, <2>1, <3>1 DEF todo, kind
    <3>. QED BY <3>2, <3>3 DEF wrote
  <2>3. /\ running'[s] = [kind |-> running'[s].kind, todo |-> running'[s].todo,
                          ok |-> running'[s].ok, gain |-> running'[s].gain,
                          rows |-> running'[s].rows, before |-> running'[s].before]
        /\ running'[s].kind = kind /\ running'[s].todo = Tail(todo)
    BY <2>2
  <2>4. ToDo(View(s)', running'[s].kind, running'[s].todo)
    BY <1>14, <2>3 DEF new
  <2>5. ASSUME NEW r \in Session, running'[r] # Idle, r # s
        PROVE  /\ running'[r] = [kind |-> running'[r].kind, todo |-> running'[r].todo,
                                 ok |-> running'[r].ok, gain |-> running'[r].gain,
                                 rows |-> running'[r].rows, before |-> running'[r].before]
               /\ r \in live' => ToDo(View(r)', running'[r].kind, running'[r].todo)
    <3>1. running'[r] = running[r] /\ View(r)' = View(r)
      BY <1>7, <2>2, <2>5
    <3>2. /\ running[r] = [kind |-> running[r].kind, todo |-> running[r].todo,
                           ok |-> running[r].ok, gain |-> running[r].gain,
                           rows |-> running[r].rows, before |-> running[r].before]
          /\ r \in live => ToDo(View(r), running[r].kind, running[r].todo)
      BY SMTT(30), <2>5, <3>1 DEF SqlInv, UnderWay
    <3>. QED BY <1>1, <3>1, <3>2
  <2>. QED BY <2>2, <2>3, <2>4, <2>5, Zenon DEF UnderWay
<1>. QED BY <1>5, <1>6, <1>15, <1>16, <1>17 DEF SqlInv

LEMMA WriteStep ==
  ASSUME SqlInv, NEW s \in Session, Write(s)
  PROVE  SqlInv'
<1>. DEFINE w == Head(running[s].todo)
<1>1. CASE /\ Store!Write(s, w.key, w.data)
           /\ running' = [running EXCEPT ![s].todo = Tail(@),
                                    ![s].rows = @ \cup RowsWritten(running[s].todo)]
           /\ misfits' = IF w.key.kind = "Row" /\ w.data # None
                            /\ Unchecked(running[s].kind, View(s)[TableKey(w.key.name)], w.data)
                         THEN misfits \cup {w.key} ELSE misfits
  <2>1. running[s] # Idle /\ running[s].todo # << >> /\ skewed' = skewed
    BY DEF Write
  <2>. QED BY <1>1, <2>1, WrittenStep
<1>2. CASE /\ running' = [running EXCEPT ![s].todo = << >>, ![s].rows = {},
                                         ![s].ok = FALSE, ![s].gain = 0]
           /\ UNCHANGED << store, misfits >>
  <2>1. running[s] # Idle /\ skewed' = skewed
    BY DEF Write
  <2>2. /\ StoreTyped' /\ SnapshotsKnown' /\ Sound(db, skewed, misfits)'
        /\ \A r \in live' : Sound(View(r), skewed, misfits)'
        /\ live' = live
        /\ \A r \in Session : View(r)' = View(r)
    BY <1>2, <2>1, StoreUnchanged
  <2>3. /\ running = [r \in Session |-> running[r]]
        /\ running[s] = [kind |-> running[s].kind, todo |-> running[s].todo,
                         ok |-> running[s].ok, gain |-> running[s].gain,
                         rows |-> running[s].rows, before |-> running[s].before]
    BY <2>1 DEF SqlInv, UnderWay
  <2>4. /\ running' = [r \in Session |-> running'[r]]
        /\ \A r \in Session \ {s} : running'[r] = running[r]
    BY <1>2, <2>3
  <2>5. running'[s] = [kind |-> running[s].kind, todo |-> << >>, ok |-> FALSE, gain |-> 0,
                     rows |-> {}, before |-> running[s].before]
    <3>. DEFINE no == FALSE
    <3>1. running' = [running EXCEPT ![s].todo = << >>, ![s].rows = {}, ![s].ok = no, ![s].gain = 0]
      BY <1>2
    <3>. HIDE DEF no
    <3>2. running'[s] = [kind |-> running[s].kind, todo |-> << >>, ok |-> no, gain |-> 0,
                       rows |-> {}, before |-> running[s].before]
      BY <2>3, <3>1
    <3>. QED BY <3>2, Zenon DEF no
  <2>6. \A view, kind : ToDo(view, kind, << >>)
    BY EmptyIsSeq DEF ToDo
  <2>7. /\ running'[s] = [kind |-> running'[s].kind, todo |-> running'[s].todo,
                          ok |-> running'[s].ok, gain |-> running'[s].gain,
                          rows |-> running'[s].rows, before |-> running'[s].before]
        /\ running'[s].todo = << >>
    BY <2>5
  <2>8. UnderWay'
    BY <2>2, <2>4, <2>6, <2>7 DEF SqlInv, UnderWay
  <2>. QED BY <2>2, <2>8 DEF SqlInv
<1>. QED BY <1>1, <1>2, ZenonT(30) DEF Write

-----------------------------------------------------------------------------
(* Theorems                                                                *)

LEMMA SqlInit == Init => SqlInv
<1>. SUFFICES ASSUME Init PROVE SqlInv
  OBVIOUS
<1>1. StoreTyped /\ SnapshotsKnown /\ UnderWay /\ live = {}
  BY DEF Init, StoreTyped, SnapshotsKnown, UnderWay, Store!NoWrites
<1>2. db = InitialDb /\ skewed = {}
  BY DEF Init
<1>. DEFINE v == InitialDb
<1>3. /\ v = [k \in StoreKey |-> v[k]]
      /\ \A t \in TableName : v[TableKey(t)] \in Seq(Column) \cup {None}
      /\ \A t \in TableName, id \in Ids :
            v[RowKey(t, id)] # None =>
                /\ v[TableKey(t)] # None
                /\ v[RowKey(t, id)] \in Seq(Datum)
                /\ IsRowOf(v[TableKey(t)], v[RowKey(t, id)])
  BY InitialDbAssumption, Zenon
<1>. HIDE DEF v
<1>4. Sound(v, {}, misfits)
  <2>1. \A t \in TableName, id \in Ids : v[RowKey(t, id)] \in Seq(Datum) \cup {None}
    BY <1>3
  <2>. QED BY <1>3, <2>1, Zenon DEF Sound, Typed, Belong, Fit
<1>. QED BY <1>1, <1>2, <1>4 DEF SqlInv, v

LEMMA SqlNext == SqlInv /\ [Next]_vars => SqlInv'
<1>. SUFFICES ASSUME SqlInv, [Next]_vars PROVE SqlInv'
  OBVIOUS
<1>1. ASSUME NEW s \in Session, Begin(s) \/ Commit(s) \/ Rollback(s) \/ Write(s) \/ Finish(s)
                                \/ Disconnect(s)
      PROVE  SqlInv'
  BY <1>1, BeginStep, CommitStep, RollbackStep, WriteStep, FinishStep, DisconnectStep
<1>2. ASSUME NEW s \in Session, NEW stmt \in Statements, ExecuteInTxn(s, stmt) \/ Autocommit(s, stmt)
      PROVE  SqlInv'
  BY <1>2, ExecuteInTxnStep, AutocommitStep
<1>3. CASE Restart
  BY <1>3, RestartStep
<1>4. CASE UNCHANGED vars
  <2>1. UNCHANGED << store, misfits, skewed >> /\ running' = running
    BY <1>4 DEF vars, session
  <2>2. /\ StoreTyped' /\ SnapshotsKnown' /\ Sound(db, skewed, misfits)'
        /\ \A r \in live' : Sound(View(r), skewed, misfits)'
        /\ live' = live
        /\ \A r \in Session : View(r)' = View(r)
    BY <2>1, StoreUnchanged
  <2>3. UnderWay'
    BY <2>1, <2>2 DEF SqlInv, UnderWay
  <2>. QED BY <2>2, <2>3 DEF SqlInv
<1>. QED BY <1>1, <1>2, <1>3, <1>4 DEF Next

(* The committed database and what every open transaction sees of it are   *)
(* sound, and what a running statement has still to write keeps them so.   *)
THEOREM SqlInvariant == Spec => []SqlInv
<1>. QED BY SqlInit, SqlNext, PTL DEF Spec

(* RowsBelongToTable: no row without its table, whatever statements of     *)
(* whatever sessions ran into each other, failed or were cut short; but    *)
(* where a table was dropped or created by one transaction while another,  *)
(* that did not see it, wrote rows of it.                                  *)
THEOREM RowsBelong == Spec => []RowsBelongToTable
<1>1. SqlInv => RowsBelongToTable
  BY DEF SqlInv, Sound, Belong, RowsBelongToTable, RowsIn, TablesIn, Ids
<1>. QED BY <1>1, SqlInvariant, PTL

(* RowsFitTable: every row has the width, the types and the NOT NULL       *)
(* columns of its table; but those of UPDATE, those of INSERT with too     *)
(* many values, and the skewed tables.                                     *)
THEOREM RowsFit == Spec => []RowsFitTable
<1>1. SqlInv => RowsFitTable
  BY DEF SqlInv, Sound, Fit, RowsFitTable, RowsIn, TablesIn, Ids
<1>. QED BY <1>1, SqlInvariant, PTL

=============================================================================
