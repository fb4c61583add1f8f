--------------------------- MODULE DiskEngineProofs ---------------------------
(***************************************************************************)
(* Proofs about the log-structured engine, for any sets of keys and values *)
(* and logs of any length.                                                 *)
(***************************************************************************)
EXTENDS DiskEngine, SequenceTheorems, WellFoundedInduction, TLAPS

(* Induction up to a bound, over a set.                                    *)
LEMMA Upwards ==
  ASSUME NEW S, NEW m \in Nat, 0 \in S, \A i \in 0..(m - 1) : i \in S => i + 1 \in S
  PROVE  \A i \in 0..m : i \in S
<1>. DEFINE R == OpToRel(<, Nat)
            T == {n \in 0..m : n \notin S}
<1>1. IsWellFoundedOn(R, Nat)
  BY NatLessThanWellFounded, Zenon
<1>2. \A j, n \in Nat : j < n => << j, n >> \in R
  BY Zenon DEF OpToRel
<1>. HIDE DEF R
<1>3. SUFFICES ASSUME T # {} PROVE FALSE
  OBVIOUS
<1>4. T \in SUBSET Nat
  OBVIOUS
<1>5. PICK n \in T : \A j \in T : ~(<< j, n >> \in R)
  <2>. HIDE DEF T
  <2>. QED BY <1>1, <1>3, <1>4, WFMin
<1>6. n # 0 /\ n - 1 \in 0..(m - 1) /\ n - 1 + 1 = n
  OBVIOUS
<1>7. n - 1 \in T
  BY <1>6
<1>. QED BY <1>2, <1>5, <1>6, <1>7, n - 1 < n, n - 1 \in Nat, n \in Nat

-----------------------------------------------------------------------------
(* Indexes                                                                 *)

\* An index of some of the keys in K.
IsIndex(ix, K) == ix \in [DOMAIN ix -> Position] /\ DOMAIN ix \subseteq K

LEMMA InsertIndex ==
  ASSUME NEW K, NEW ix, IsIndex(ix, K), NEW k \in K, NEW p \in Position
  PROVE  IsIndex(Insert(ix, k, p), K)
BY DEF IsIndex, Insert

LEMMA RemoveIndex ==
  ASSUME NEW K, NEW ix, IsIndex(ix, K), NEW k
  PROVE  IsIndex(Remove(ix, k), K)
BY DEF IsIndex, Remove, Restrict

LEMMA EmptyIndex == \A K : IsIndex(Empty, K) /\ DOMAIN Empty = {}
BY DEF IsIndex, Empty

LEMMA IndexNotFailed ==
  ASSUME NEW ix, IsIndex(ix, Key)
  PROVE  ix # Failed
BY MarkersAssumption DEF IsIndex

-----------------------------------------------------------------------------
(* Cells                                                                   *)

LEMMA BytesAreCells ==
  /\ Byte \subseteq Cell /\ Nat \subseteq Cell /\ -1 \in Cell
  /\ Key \subseteq Seq(Cell) /\ Value \subseteq Seq(Cell)
<1>1. Byte \subseteq Cell
  BY DEF Byte, Cell
<1>2. \A s \in Seq(Byte) : s \in Seq(Cell)
  BY <1>1, SeqMonotonic
<1>. QED BY <1>1, <1>2, BytesAssumption DEF Cell

LEMMA ConcatCells ==
  ASSUME NEW s \in Seq(Cell), NEW t \in Seq(Cell)
  PROVE  /\ s \o t \in Seq(Cell) /\ Len(s \o t) = Len(s) + Len(t)
         /\ \A i \in 1..Len(s) : (s \o t)[i] = s[i]
         /\ \A i \in 1..Len(t) : (s \o t)[Len(s) + i] = t[i]
<1>. DEFINE n == Len(s)
            m == Len(t)
            u == s \o t
<1>0. n \in Nat /\ m \in Nat
  BY LenProperties
<1>1. /\ u \in Seq(Cell) /\ Len(u) = n + m
      /\ \A i \in 1..(n + m) : u[i] = IF i <= n THEN s[i] ELSE t[i - n]
  BY ConcatProperties
<1>. HIDE DEF n, m, u
<1>2. \A i \in 1..n : u[i] = s[i]
  BY <1>0, <1>1
<1>3. ASSUME NEW i \in 1..m PROVE u[n + i] = t[i]
  <2>. DEFINE j == n + i
  <2>1. j \in 1..(n + m) /\ ~(j <= n) /\ j - n = i
    BY <1>0
  <2>. HIDE DEF j
  <2>2. u[j] = t[i]
    BY <1>1, <2>1
  <2>. QED BY <2>2 DEF j
<1>. QED BY <1>1, <1>2, <1>3 DEF n, m, u

\* How long the value of an entry is.
ValueLen(x) == IF x = None THEN 0 ELSE Len(x)
SizeCell(x) == IF x = None THEN -1 ELSE Len(x)

LEMMA EntryCells ==
  ASSUME NEW k \in Seq(Cell), NEW x, x = None \/ x \in Seq(Cell)
  PROVE  /\ Entry(k, x) \in Seq(Cell)
         /\ Len(Entry(k, x)) = 2 + Len(k) + ValueLen(x)
         /\ Entry(k, x)[1] = Len(k) /\ Entry(k, x)[2] = SizeCell(x)
         /\ \A i \in 1..Len(k) : Entry(k, x)[2 + i] = k[i]
         /\ x # None => \A i \in 1..Len(x) : Entry(k, x)[2 + Len(k) + i] = x[i]
         /\ Len(k) \in Nat /\ ValueLen(x) \in Nat
<1>. DEFINE n == Len(k)
            m == ValueLen(x)
            h == << n, SizeCell(x) >>
            v == IF x = None THEN << >> ELSE x
<1>1. n \in Nat /\ m \in Nat /\ v \in Seq(Cell) /\ Len(v) = m /\ SizeCell(x) \in Cell /\ n \in Cell
  BY LenProperties, EmptySeq DEF ValueLen, SizeCell, Cell
<1>2. Entry(k, x) = (h \o k) \o v
  BY DEF Entry, SizeCell
<1>3. h \in Seq(Cell) /\ Len(h) = 2 /\ h[1] = n /\ h[2] = SizeCell(x)
  <2>. HIDE DEF n
  <2>. QED BY <1>1
<1>4. x # None => v = x /\ Len(x) = m
  BY DEF ValueLen
<1>5. Len(k) = n
  OBVIOUS
<1>. HIDE DEF h, v, n, m
<1>. DEFINE g == h \o k
<1>6. /\ g \in Seq(Cell) /\ Len(g) = 2 + n
      /\ \A i \in 1..2 : g[i] = h[i]
      /\ \A i \in 1..n : g[2 + i] = k[i]
  <2>1. /\ h \o k \in Seq(Cell) /\ Len(h \o k) = Len(h) + Len(k)
        /\ \A i \in 1..Len(h) : (h \o k)[i] = h[i]
        /\ \A i \in 1..Len(k) : (h \o k)[Len(h) + i] = k[i]
    BY <1>3, ConcatCells
  <2>. QED BY <1>3, <1>5, <2>1
<1>. HIDE DEF g
<1>7. 2 + n \in Nat
  BY <1>1
<1>8. /\ g \o v \in Seq(Cell) /\ Len(g \o v) = 2 + n + m
      /\ \A i \in 1..(2 + n) : (g \o v)[i] = g[i]
      /\ \A i \in 1..m : (g \o v)[2 + n + i] = v[i]
  <2>1. /\ g \o v \in Seq(Cell) /\ Len(g \o v) = Len(g) + Len(v)
        /\ \A i \in 1..Len(g) : (g \o v)[i] = g[i]
        /\ \A i \in 1..Len(v) : (g \o v)[Len(g) + i] = v[i]
    BY <1>1, <1>6, ConcatCells
  <2>. QED BY <1>1, <1>6, <2>1
<1>9. 1 \in 1..2 /\ 2 \in 1..2 /\ 1 \in 1..(2 + n) /\ 2 \in 1..(2 + n)
      /\ \A i \in 1..n : 2 + i \in 1..(2 + n)
  BY <1>1
<1>10. (g \o v)[1] = n /\ (g \o v)[2] = SizeCell(x) /\ \A i \in 1..n : (g \o v)[2 + i] = k[i]
  BY <1>3, <1>6, <1>8, <1>9
<1>. QED BY <1>1, <1>2, <1>4, <1>5, <1>8, <1>10 DEF g, m

-----------------------------------------------------------------------------
(* Reading                                                                 *)

LEMMA ReadExactCells ==
  ASSUME NEW file \in Seq(Cell), NEW o \in Nat, NEW n \in Cell
  PROVE  LET r == ReadExact(file, o, n)
         IN  /\ (n >= 0 /\ o + n <= Len(file)) =>
                  r \in Seq(Cell) /\ r # Failed /\ Len(r) = n /\ \A i \in 1..n : r[i] = file[o + i]
             /\ ~(n >= 0 /\ o + n <= Len(file)) => r = Failed
<1>0. Len(file) \in Nat /\ n \in Int
  BY LenProperties DEF Cell
<1>1. SUFFICES ASSUME n >= 0, o + n <= Len(file)
               PROVE  LET r == SubSeq(file, o + 1, o + n)
                      IN  r \in Seq(Cell) /\ r # Failed /\ Len(r) = n /\ \A i \in 1..n : r[i] = file[o + i]
  BY DEF ReadExact
<1>. DEFINE a == o + 1
            b == o + n
            r == SubSeq(file, a, b)
<1>2. \A i \in a..b : i \in 1..Len(file)
  BY <1>0, <1>1
<1>3. \A i \in a..b : file[i] \in Cell
  BY <1>2, ElementOfSeq
<1>4. a \in Int /\ b \in Int /\ b - a + 1 = n /\ (IF a <= b THEN b - a + 1 ELSE 0) = n
      /\ \A i \in 1..n : a + i - 1 = o + i
  BY <1>0, <1>1
<1>. HIDE DEF a, b
<1>5. r \in Seq(Cell) /\ Len(r) = (IF a <= b THEN b - a + 1 ELSE 0)
      /\ \A i \in 1..(b - a + 1) : r[i] = file[a + i - 1]
  BY <1>3, <1>4, SubSeqProperties
<1>6. \A i \in 1..n : r[i] = file[a + i - 1]
  BY <1>4, <1>5
<1>7. \A i \in 1..n : r[i] = file[o + i]
  BY <1>4, <1>6
<1>. QED BY <1>4, <1>5, <1>7, MarkersAssumption DEF a, b

LEMMA ReadExactIs ==
  ASSUME NEW file \in Seq(Cell), NEW o \in Nat, NEW s \in Seq(Cell),
         o + Len(s) <= Len(file), \A i \in 1..Len(s) : file[o + i] = s[i]
  PROVE  ReadExact(file, o, Len(s)) = s
<1>1. Len(s) \in Nat /\ Len(s) \in Cell
  BY LenProperties DEF Cell
<1>. DEFINE r == ReadExact(file, o, Len(s))
<1>2. r \in Seq(Cell) /\ Len(r) = Len(s) /\ \A i \in 1..Len(s) : r[i] = file[o + i]
  BY <1>1, ReadExactCells
<1>. HIDE DEF r
<1>3. r = s
  BY <1>2, SeqEqual
<1>. QED BY <1>3 DEF r

LEMMA ReadEntryIs ==
  ASSUME NEW file \in Seq(Cell), NEW o \in Nat, NEW k \in Seq(Cell), NEW c \in Cell,
         o + 2 + Len(k) <= Len(file), file[o + 1] = Len(k), file[o + 2] = c,
         \A i \in 1..Len(k) : file[o + 2 + i] = k[i]
  PROVE  ReadEntry(file, o) = [key |-> k, val_size |-> c, val_offset |-> o + 2 + Len(k)]
<1>1. Len(k) \in Nat /\ Len(file) \in Nat /\ Len(k) \in Cell /\ 2 \in Cell /\ o + 2 \in Nat
  BY LenProperties DEF Cell
<1>. DEFINE h == ReadExact(file, o, 2)
<1>2. h # Failed /\ h[1] = Len(k) /\ h[2] = c
  <2>1. 1 \in 1..2 /\ 2 \in 1..2 /\ 2 >= 0 /\ o + 2 <= Len(file)
    BY <1>1
  <2>2. h # Failed /\ \A i \in 1..2 : h[i] = file[o + i]
    BY <1>1, <2>1, ReadExactCells
  <2>. HIDE DEF h
  <2>. QED BY <2>1, <2>2
<1>3. ReadExact(file, o + 2, h[1]) = k
  <2>1. ReadExact(file, o + 2, Len(k)) = k
    BY <1>1, ReadExactIs
  <2>. QED BY <1>2, <2>1
<1>4. k # Failed
  BY MarkersAssumption
<1>. QED BY <1>2, <1>3, <1>4 DEF ReadEntry, LOG_HEADER_SIZE

LEMMA ReadEntryCells ==
  ASSUME NEW file \in Seq(Cell), NEW o \in Nat, ReadEntry(file, o) # Failed
  PROVE  LET e == ReadEntry(file, o)
         IN  /\ e.key \in Seq(Cell) /\ e.val_size \in Cell /\ Len(e.key) \in Nat
             /\ e = [key |-> e.key, val_size |-> e.val_size, val_offset |-> o + 2 + Len(e.key)]
             /\ o + 2 + Len(e.key) <= Len(file)
             /\ file[o + 1] = Len(e.key) /\ file[o + 2] = e.val_size
             /\ \A i \in 1..Len(e.key) : file[o + 2 + i] = e.key[i]
<1>. DEFINE h == ReadExact(file, o, 2)
            k == ReadExact(file, o + 2, h[1])
            e == ReadEntry(file, o)
<1>0. Len(file) \in Nat /\ 2 \in Cell /\ 2 >= 0 /\ o + 2 \in Nat /\ 1 \in 1..2 /\ 2 \in 1..2
  BY LenProperties DEF Cell
<1>1. h # Failed /\ k # Failed
  BY DEF ReadEntry, LOG_HEADER_SIZE
<1>2. e = [key |-> k, val_size |-> h[2], val_offset |-> o + 2 + Len(k)]
  BY <1>1 DEF ReadEntry, LOG_HEADER_SIZE
<1>3. h \in Seq(Cell) /\ Len(h) = 2 /\ h[1] = file[o + 1] /\ h[2] = file[o + 2]
  BY <1>0, <1>1, ReadExactCells
<1>4. h[1] \in Cell /\ h[2] \in Cell
  BY <1>0, <1>3, ElementOfSeq
<1>. HIDE DEF h
<1>5. /\ k \in Seq(Cell) /\ Len(k) = h[1] /\ o + 2 + h[1] <= Len(file)
      /\ \A i \in 1..h[1] : k[i] = file[o + 2 + i]
  BY <1>0, <1>1, <1>4, ReadExactCells
<1>6. Len(k) \in Nat
  BY <1>5, LenProperties
<1>. HIDE DEF k, e
<1>7. e.key = k /\ e.val_size = h[2]
  BY <1>2
<1>8. /\ e.key \in Seq(Cell) /\ e.val_size \in Cell /\ Len(e.key) \in Nat
      /\ e = [key |-> e.key, val_size |-> e.val_size, val_offset |-> o + 2 + Len(e.key)]
      /\ o + 2 + Len(e.key) <= Len(file)
      /\ file[o + 1] = Len(e.key) /\ file[o + 2] = e.val_size
      /\ \A i \in 1..Len(e.key) : file[o + 2 + i] = e.key[i]
  BY <1>2, <1>3, <1>4, <1>5, <1>6, <1>7
<1>. QED BY <1>8 DEF e

\* What is appended changes no entry that could be read.
LEMMA ReadEntryKept ==
  ASSUME NEW file \in Seq(Cell), NEW t \in Seq(Cell), NEW o \in Nat, ReadEntry(file, o) # Failed
  PROVE  ReadEntry(file \o t, o) = ReadEntry(file, o)
<1>. DEFINE e == ReadEntry(file, o)
            k == e.key
            f == file \o t
<1>1. /\ k \in Seq(Cell) /\ e.val_size \in Cell /\ Len(k) \in Nat
      /\ e = [key |-> k, val_size |-> e.val_size, val_offset |-> o + 2 + Len(k)]
      /\ o + 2 + Len(k) <= Len(file)
      /\ file[o + 1] = Len(k) /\ file[o + 2] = e.val_size
      /\ \A i \in 1..Len(k) : file[o + 2 + i] = k[i]
  BY ReadEntryCells
<1>2. Len(file) \in Nat /\ Len(t) \in Nat
  BY LenProperties
<1>3. f \in Seq(Cell) /\ Len(f) = Len(file) + Len(t) /\ \A i \in 1..Len(file) : f[i] = file[i]
  BY ConcatCells
<1>. HIDE DEF e, f
<1>. DEFINE n == Len(k)
<1>. HIDE DEF k
<1>4. o + 1 \in 1..Len(file) /\ o + 2 \in 1..Len(file) /\ \A i \in 1..n : o + 2 + i \in 1..Len(file)
  BY SMTT(30), <1>1, <1>2
<1>5. f[o + 1] = n /\ f[o + 2] = e.val_size /\ \A i \in 1..n : f[o + 2 + i] = k[i]
  BY <1>1, <1>3, <1>4
<1>6. o + 2 + n <= Len(f)
  BY <1>1, <1>2, <1>3
<1>7. ReadEntry(f, o) = [key |-> k, val_size |-> e.val_size, val_offset |-> o + 2 + n]
  BY <1>1, <1>3, <1>5, <1>6, ReadEntryIs
<1>. QED BY <1>1, <1>7 DEF e, f


-----------------------------------------------------------------------------
(* The loop of build_keydir                                                *)

Start == [offset |-> 0, index |-> Empty]

(* The loop is what its turns say, one after the other.                    *)
LEMMA LoopTurns ==
  ASSUME NEW file, Len(file) \in Nat
  PROVE  \E a : /\ a[0] = Start
                /\ \A i \in 1..Len(file) : a[i] = Turn(file, a[i - 1])
                /\ Loop(file) = a[Len(file)]
<1>. DEFINE L == Len(file)
            Sole(at) == CHOOSE next \in {Turn(file, b) : b \in {at}} : TRUE
            Turns(a) == a = [i \in 0..L |-> IF i = 0 THEN Start ELSE Sole(a[i - 1])]
            S == {n \in 0..L : \E a : a = [i \in 0..n |-> IF i = 0 THEN Start ELSE Turn(file, a[i - 1])]}
<1>1. \A at : Sole(at) = Turn(file, at)
  OBVIOUS
<1>2. Loop(file) = (CHOOSE a : Turns(a))[L]
  BY Zenon DEF Loop, Start
<1>. HIDE DEF Sole
<1>3. \A i \in 0..L : i \in S
  <2>1. 0 \in S
    <3>. DEFINE a == [i \in 0..0 |-> Start]
    <3>1. a = [i \in 0..0 |-> IF i = 0 THEN Start ELSE Turn(file, a[i - 1])]
      OBVIOUS
    <3>. HIDE DEF a
    <3>. QED BY <3>1
  <2>2. ASSUME NEW n \in 0..(L - 1), n \in S PROVE n + 1 \in S
    <3>1. PICK a : a = [i \in 0..n |-> IF i = 0 THEN Start ELSE Turn(file, a[i - 1])]
      BY <2>2
    <3>. DEFINE b == [i \in 0..(n + 1) |-> IF i = n + 1 THEN Turn(file, a[n]) ELSE a[i]]
    <3>2. ASSUME NEW i \in 0..(n + 1)
          PROVE  b[i] = IF i = 0 THEN Start ELSE Turn(file, b[i - 1])
      <4>1. CASE i = n + 1
        <5>1. i # 0 /\ i - 1 = n /\ n \in 0..(n + 1) /\ n # n + 1
          BY <4>1
        <5>. QED BY <4>1, <5>1
      <4>2. CASE i # n + 1
        <5>1. i \in 0..n /\ (i # 0 => i - 1 \in 0..(n + 1) /\ i - 1 # n + 1)
          BY <4>2
        <5>2. b[i] = a[i] /\ (i # 0 => b[i - 1] = a[i - 1])
          BY <4>2, <5>1
        <5>. HIDE DEF b
        <5>. QED BY <3>1, <5>1, <5>2
      <4>. QED BY <4>1, <4>2
    <3>3. b = [i \in 0..(n + 1) |-> b[i]]
      OBVIOUS
    <3>. HIDE DEF b
    <3>4. b = [i \in 0..(n + 1) |-> IF i = 0 THEN Start ELSE Turn(file, b[i - 1])]
      BY <3>2, <3>3
    <3>. QED BY <3>4, n + 1 \in 0..L
  <2>. HIDE DEF S
  <2>. QED BY <2>1, <2>2, Upwards
<1>4. \E a : Turns(a)
  <2>1. PICK a : a = [i \in 0..L |-> IF i = 0 THEN Start ELSE Turn(file, a[i - 1])]
    BY <1>3, L \in 0..L
  <2>. QED BY <1>1, <2>1
<1>. DEFINE a == CHOOSE b : Turns(b)
<1>5. Turns(a)
  BY <1>4, Zenon
<1>. HIDE DEF a
<1>6. a[0] = Start /\ \A i \in 1..L : a[i] = Turn(file, a[i - 1])
  BY <1>1, <1>5
<1>. QED BY <1>2, <1>6 DEF a

\* A run of the loop: n turns, and where they lead.
Run(file, n, f) == f[0] = Start /\ \A i \in 0..(n - 1) : f[i + 1] = Turn(file, f[i])

\* Every turn of it reads an entry.
Reads(file, n, f) ==
    \A i \in 0..(n - 1) :
        /\ f[i].offset \in Nat /\ f[i].offset < Len(file) /\ f[i].index # Failed
        /\ f[i + 1].offset \in Nat /\ f[i].offset < f[i + 1].offset

LEMMA RunLength ==
  ASSUME NEW file, NEW n \in Nat, NEW f, Run(file, n, f), Reads(file, n, f)
  PROVE  f[n].offset \in Nat /\ n <= f[n].offset
<1>. DEFINE S == {i \in 0..n : f[i].offset \in Nat /\ i <= f[i].offset}
<1>1. 0 \in S
  BY DEF Run, Start
<1>2. ASSUME NEW i \in 0..(n - 1), i \in S PROVE i + 1 \in S
  BY <1>2 DEF Reads
<1>. HIDE DEF S
<1>3. n \in S
  BY <1>1, <1>2, Upwards, n \in 0..n
<1>. QED BY <1>3 DEF S

(* The loop ends where a run has nothing more to read.                     *)
LEMMA RunEnds ==
  ASSUME NEW file, Len(file) \in Nat, NEW n \in Nat, n <= Len(file), NEW f, Run(file, n, f),
         Turn(file, f[n]) = f[n]
  PROVE  Loop(file) = f[n]
<1>1. PICK a : /\ a[0] = Start
               /\ \A i \in 1..Len(file) : a[i] = Turn(file, a[i - 1])
               /\ Loop(file) = a[Len(file)]
  BY LoopTurns
<1>. DEFINE L == Len(file)
            S == {i \in 0..L : a[i] = IF i <= n THEN f[i] ELSE f[n]}
<1>2. 0 \in S
  BY <1>1 DEF Run
<1>3. ASSUME NEW i \in 0..(L - 1), i \in S PROVE i + 1 \in S
  <2>1. a[i + 1] = Turn(file, a[i])
    <3>1. i + 1 \in 1..L /\ i + 1 - 1 = i
      OBVIOUS
    <3>. QED BY <1>1, <3>1
  <2>2. CASE i + 1 <= n
    <3>1. i \in 0..(n - 1) /\ i <= n
      BY <2>2
    <3>2. a[i] = f[i] /\ f[i + 1] = Turn(file, f[i])
      BY <1>3, <3>1 DEF Run
    <3>. QED BY <2>1, <2>2, <3>2
  <2>3. CASE ~(i + 1 <= n)
    <3>1. a[i] = f[n]
      BY <1>3, <2>3
    <3>. QED BY <2>1, <2>3, <3>1
  <2>. QED BY <2>2, <2>3
<1>4. L \in S
  <2>. HIDE DEF S
  <2>. QED BY <1>2, <1>3, Upwards, L \in 0..L
<1>. QED BY <1>1, <1>4


(* What is appended to a file changes none of the turns that read it.      *)
LEMMA RunKept ==
  ASSUME NEW file \in Seq(Cell), NEW t \in Seq(Cell), NEW n \in Nat, NEW f,
         Run(file, n, f), Reads(file, n, f), f[n].index # Failed
  PROVE  Run(file \o t, n, f) /\ Reads(file \o t, n, f)
<1>0. Len(file \o t) = Len(file) + Len(t) /\ Len(file) \in Nat /\ Len(t) \in Nat
  BY ConcatCells, LenProperties
<1>1. ASSUME NEW i \in 0..(n - 1)
      PROVE  /\ f[i + 1] = Turn(file \o t, f[i]) /\ f[i].offset < Len(file \o t)
  <2>1. /\ f[i].offset \in Nat /\ f[i].offset < Len(file) /\ f[i].index # Failed
        /\ f[i + 1] = Turn(file, f[i])
    BY DEF Run, Reads
  <2>2. f[i + 1].index # Failed
    <3>1. CASE i + 1 = n
      BY <3>1
    <3>2. CASE i + 1 # n
      <4>1. i + 1 \in 0..(n - 1)
        BY <3>2
      <4>. QED BY <4>1 DEF Reads
    <3>. QED BY <3>1, <3>2
  <2>. DEFINE o == f[i].offset
  <2>3. ReadEntry(file, o) # Failed
    BY <1>0, <2>1, <2>2 DEF Turn
  <2>4. ReadEntry(file \o t, o) = ReadEntry(file, o)
    BY <2>1, <2>3, ReadEntryKept
  <2>5. f[i].offset < Len(file \o t)
    BY <1>0, <2>1
  <2>6. Turn(file \o t, f[i]) = Turn(file, f[i])
    <3>1. ~(f[i].offset >= Len(file \o t)) /\ ~(f[i].offset >= Len(file))
      BY <1>0, <2>1, <2>5
    <3>. QED BY <3>1, <2>4 DEF Turn
  <2>. QED BY <2>1, <2>5, <2>6
<1>. QED BY <1>1 DEF Run, Reads

LEMMA ReplayIndex ==
  ASSUME NEW K, NEW ix, IsIndex(ix, K), NEW k \in K, NEW c \in Cell, NEW o \in Nat
  PROVE  /\ IsIndex(Replay(ix, [key |-> k, val_size |-> c, val_offset |-> o]), K)
         /\ Replay(ix, [key |-> k, val_size |-> c, val_offset |-> o]) =
              IF c = -1 THEN Remove(ix, k) ELSE Insert(ix, k, [offset |-> o, size |-> c])
<1>1. Replay(ix, [key |-> k, val_size |-> c, val_offset |-> o]) =
        IF c = -1 THEN Remove(ix, k) ELSE Insert(ix, k, [offset |-> o, size |-> c])
  BY DEF Replay
<1>2. CASE c = -1
  BY <1>1, <1>2, RemoveIndex
<1>3. CASE c # -1
  <2>1. [offset |-> o, size |-> c] \in Position
    BY <1>3 DEF Position, Cell
  <2>. QED BY <1>1, <1>3, <2>1, InsertIndex
<1>. QED BY <1>1, <1>2, <1>3

\* Where the loop stands, in any file.
Stands(at) ==
    /\ at = [offset |-> at.offset, index |-> at.index]
    /\ at.offset \in Nat
    /\ at.index = Failed \/ IsIndex(at.index, Seq(Cell))

LEMMA TurnStands ==
  ASSUME NEW file \in Seq(Cell), NEW at, Stands(at)
  PROVE  Stands(Turn(file, at))
<1>1. CASE at.offset >= Len(file) \/ at.index = Failed
  BY <1>1 DEF Turn
<1>. DEFINE o == at.offset
            e == ReadEntry(file, o)
<1>2. CASE ~(at.offset >= Len(file) \/ at.index = Failed) /\ e = Failed
  <2>1. Turn(file, at) = [at EXCEPT !.index = Failed]
    BY <1>2 DEF Turn
  <2>2. [at EXCEPT !.index = Failed] = [offset |-> at.offset, index |-> Failed]
    BY DEF Stands
  <2>. QED BY <2>1, <2>2 DEF Stands
<1>3. CASE ~(at.offset >= Len(file) \/ at.index = Failed) /\ e # Failed
  <2>. DEFINE skip == IF e.val_size = -1 THEN 0 ELSE e.val_size
  <2>1. /\ e.key \in Seq(Cell) /\ e.val_size \in Cell /\ Len(e.key) \in Nat
        /\ e = [key |-> e.key, val_size |-> e.val_size, val_offset |-> o + 2 + Len(e.key)]
    BY <1>3, ReadEntryCells DEF Stands
  <2>2. Turn(file, at) = [offset |-> e.val_offset + skip, index |-> Replay(at.index, e)]
    BY <1>3 DEF Turn
  <2>. HIDE DEF e
  <2>3. e.val_offset = o + 2 + Len(e.key)
    BY <2>1
  <2>4. e.val_offset \in Nat /\ skip \in Nat
    BY <2>1, <2>3 DEF Stands, Cell
  <2>5. e = [key |-> e.key, val_size |-> e.val_size, val_offset |-> e.val_offset]
    BY <2>1
  <2>6. IsIndex(Replay(at.index, e), Seq(Cell))
    BY <1>3, <2>1, <2>4, <2>5, ReplayIndex DEF Stands
  <2>. HIDE DEF skip
  <2>7. e.val_offset + skip \in Nat
    BY <2>4
  <2>. QED BY <2>2, <2>6, <2>7 DEF Stands
<1>. QED BY <1>1, <1>2, <1>3

(* What build_keydir makes of any file.                                    *)
LEMMA BuildTyped ==
  ASSUME NEW file \in Seq(Cell), BuildKeydir(file) # Failed
  PROVE  IsIndex(BuildKeydir(file), Seq(Cell))
<1>. DEFINE L == Len(file)
<1>0. L \in Nat
  BY LenProperties
<1>1. PICK a : /\ a[0] = Start
               /\ \A i \in 1..L : a[i] = Turn(file, a[i - 1])
               /\ Loop(file) = a[L]
  BY <1>0, LoopTurns
<1>. DEFINE S == {i \in 0..L : Stands(a[i])}
<1>. HIDE DEF L
<1>2. 0 \in S
  BY <1>0, <1>1, EmptyIndex DEF Start, Stands
<1>3. ASSUME NEW i \in 0..(L - 1), i \in S PROVE i + 1 \in S
  <2>1. i + 1 \in 1..L /\ i + 1 - 1 = i
    BY <1>0
  <2>2. a[i + 1] = Turn(file, a[i])
    BY <1>1, <2>1
  <2>. QED BY <1>3, <2>1, <2>2, TurnStands
<1>4. L \in S
  <2>. HIDE DEF S
  <2>. QED BY <1>0, <1>2, <1>3, Upwards, L \in 0..L
<1>. QED BY <1>1, <1>4 DEF Stands, BuildKeydir


-----------------------------------------------------------------------------
(* Values in a file                                                        *)

\* What is appended changes no value that could be read.
LEMMA ReadValueKept ==
  ASSUME NEW file \in Seq(Cell), NEW t \in Seq(Cell), NEW p \in Position,
         ReadValue(file, p) # Failed
  PROVE  ReadValue(file \o t, p) = ReadValue(file, p)
<1>. DEFINE o == p.offset
            n == p.size
            r == ReadExact(file, o, n)
            f == file \o t
            q == ReadExact(f, o, n)
<1>0. o \in Nat /\ n \in Nat /\ n \in Cell /\ Len(file) \in Nat /\ Len(t) \in Nat
  BY LenProperties DEF Position, Cell
<1>1. f \in Seq(Cell) /\ Len(f) = Len(file) + Len(t) /\ \A i \in 1..Len(file) : f[i] = file[i]
  BY ConcatCells
<1>2. r # Failed
  BY DEF ReadValue
<1>3. o + n <= Len(file) /\ r \in Seq(Cell) /\ Len(r) = n /\ \A i \in 1..n : r[i] = file[o + i]
  BY <1>0, <1>2, ReadExactCells
<1>4. n >= 0 /\ o + n <= Len(f) /\ \A i \in 1..n : o + i \in 1..Len(file)
  BY <1>0, <1>1, <1>3
<1>5. q \in Seq(Cell) /\ Len(q) = n /\ \A i \in 1..n : q[i] = f[o + i]
  BY <1>0, <1>1, <1>4, ReadExactCells
<1>. HIDE DEF r, q, f, n, o
<1>6. \A i \in 1..n : q[i] = r[i]
  BY <1>1, <1>3, <1>4, <1>5
<1>7. q = r
  BY <1>3, <1>5, <1>6, SeqEqual
<1>. QED BY <1>7 DEF r, q, f, n, o, ReadValue

\* The value of an entry that was appended is read back.
LEMMA ReadBack ==
  ASSUME NEW file \in Seq(Cell), NEW k \in Seq(Cell), NEW x \in Seq(Cell)
  PROVE  LET p == ValueAt(EntryAt(file, k, x), x)
         IN  /\ p = [offset |-> Len(file) + 2 + Len(k), size |-> Len(x)]
             /\ p \in Position
             /\ ReadValue(file \o Entry(k, x), p) = x
<1>. DEFINE L == Len(file)
            n == Len(k)
            m == Len(x)
            t == Entry(k, x)
            f == file \o t
            o == L + 2 + n
<1>0. L \in Nat /\ m \in Nat /\ x # None
  BY LenProperties, MarkersAssumption
<1>1. /\ t \in Seq(Cell) /\ Len(t) = 2 + n + m /\ n \in Nat
      /\ \A i \in 1..m : t[2 + n + i] = x[i]
  <2>1. ValueLen(x) = m
    BY <1>0 DEF ValueLen
  <2>2. /\ t \in Seq(Cell) /\ Len(t) = 2 + n + ValueLen(x) /\ n \in Nat
        /\ x # None => \A i \in 1..Len(x) : t[2 + n + i] = x[i]
    BY EntryCells
  <2>. HIDE DEF t, n
  <2>. QED BY <1>0, <2>1, <2>2
<1>2. f \in Seq(Cell) /\ Len(f) = L + Len(t) /\ \A i \in 1..Len(t) : f[L + i] = t[i]
  BY <1>1, ConcatCells
<1>3. ValueAt(EntryAt(file, k, x), x) = [offset |-> L + Len(t) - m, size |-> m]
  BY DEF ValueAt, EntryAt
<1>4. Len(x) = m
  OBVIOUS
<1>. HIDE DEF L, n, m, t, f
<1>5. L + Len(t) - m = o /\ o \in Nat /\ o + m <= Len(f)
  BY <1>0, <1>1, <1>2
<1>6. ASSUME NEW i \in 1..m PROVE f[o + i] = x[i]
  <2>1. 2 + n + i \in 1..Len(t) /\ L + (2 + n + i) = o + i
    <3>1. Len(t) = 2 + n + m /\ n \in Nat
      BY <1>1
    <3>2. 2 + n + i >= 1 /\ 2 + n + i <= 2 + n + m /\ 2 + n + i \in Int
      BY <1>0, <3>1
    <3>. QED BY <1>0, <3>1, <3>2
  <2>2. f[L + (2 + n + i)] = t[2 + n + i]
    BY <1>2, <2>1
  <2>. HIDE DEF o
  <2>. QED BY <1>1, <2>1, <2>2
<1>. HIDE DEF o
<1>7. ReadExact(f, o, m) = x
  BY <1>2, <1>4, <1>5, <1>6, ReadExactIs
<1>. DEFINE p == [offset |-> o, size |-> m]
<1>8. p \in Position /\ ReadValue(f, p) = x
  BY <1>0, <1>5, <1>7 DEF Position, ReadValue
<1>. QED BY <1>3, <1>5, <1>8 DEF f, t, o, L, n, m

\* An entry that was appended is read back, when the header and the key are there.
LEMMA AppendedEntry ==
  ASSUME NEW file \in Seq(Cell), NEW k \in Seq(Cell), NEW x, x = None \/ x \in Seq(Cell),
         NEW c \in 1..Len(Entry(k, x))
  PROVE  LET f == file \o SubSeq(Entry(k, x), 1, c)
         IN  /\ f \in Seq(Cell) /\ Len(f) = Len(file) + c
             /\ SubSeq(f, 1, Len(f) - c) = file
             /\ c >= 2 + Len(k) =>
                  ReadEntry(f, Len(file)) = [key |-> k, val_size |-> SizeCell(x),
                                             val_offset |-> Len(file) + 2 + Len(k)]
             /\ c < 2 + Len(k) => ReadEntry(f, Len(file)) = Failed
<1>. DEFINE L == Len(file)
            n == Len(k)
            e == Entry(k, x)
            t == SubSeq(e, 1, c)
            f == file \o t
<1>0. L \in Nat
  BY LenProperties
<1>1. /\ e \in Seq(Cell) /\ Len(e) = 2 + n + ValueLen(x) /\ n \in Nat /\ ValueLen(x) \in Nat
      /\ e[1] = n /\ e[2] = SizeCell(x) /\ \A i \in 1..n : e[2 + i] = k[i]
  BY ZenonT(30), EntryCells
<1>2. SizeCell(x) \in Cell
  BY LenProperties DEF SizeCell, Cell
<1>3. c \in Nat /\ 1 <= c /\ c <= Len(e)
  BY <1>1
<1>. HIDE DEF e
<1>4. t \in Seq(Cell) /\ Len(t) = c /\ \A i \in 1..c : t[i] = e[i]
  <2>1. \A i \in 1..c : e[i] \in Cell
    <3>1. \A i \in 1..c : i \in 1..Len(e)
      BY <1>1, <1>3
    <3>. QED BY <1>1, <3>1, ElementOfSeq
  <2>2. 1 \in Int /\ c \in Int /\ c - 1 + 1 = c /\ 1 <= c /\ \A i \in 1..c : 1 + i - 1 = i
    BY <1>3
  <2>3. t \in Seq(Cell) /\ Len(t) = (IF 1 <= c THEN c - 1 + 1 ELSE 0)
        /\ \A i \in 1..(c - 1 + 1) : t[i] = e[1 + i - 1]
    BY <2>1, <2>2, SubSeqProperties
  <2>4. \A i \in 1..c : t[i] = e[1 + i - 1]
    BY <2>2, <2>3
  <2>. QED BY <2>2, <2>3, <2>4
<1>. HIDE DEF t
<1>5. /\ f \in Seq(Cell) /\ Len(f) = L + c
      /\ \A i \in 1..L : f[i] = file[i]
      /\ \A i \in 1..c : f[L + i] = e[i]
  <2>1. /\ f \in Seq(Cell) /\ Len(f) = L + Len(t)
        /\ \A i \in 1..L : f[i] = file[i]
        /\ \A i \in 1..Len(t) : f[L + i] = t[i]
    BY <1>4, ConcatCells
  <2>. HIDE DEF f, L
  <2>. QED BY <1>4, <2>1
<1>6. Len(file) = L /\ Len(k) = n
  OBVIOUS
<1>. HIDE DEF f, L, n
<1>7. SubSeq(f, 1, Len(f) - c) = file
  <2>1. Len(f) - c = L /\ L - 1 + 1 = L /\ 1 \in Int /\ L \in Int /\ \A i \in 1..L : 1 + i - 1 = i
    BY <1>0, <1>3, <1>5
  <2>2. \A i \in 1..L : i \in 1..Len(f)
    BY <1>0, <1>3, <1>5
  <2>3. \A i \in 1..L : f[i] \in Cell
    BY <1>5, <2>2, ElementOfSeq
  <2>. DEFINE g == SubSeq(f, 1, L)
  <2>4. g \in Seq(Cell) /\ Len(g) = (IF 1 <= L THEN L - 1 + 1 ELSE 0)
        /\ \A i \in 1..(L - 1 + 1) : g[i] = f[1 + i - 1]
    BY <2>1, <2>3, SubSeqProperties
  <2>5. Len(g) = L /\ \A i \in 1..L : g[i] = f[1 + i - 1]
    BY <1>0, <2>1, <2>4
  <2>6. \A i \in 1..L : g[i] = file[i]
    BY <1>5, <2>1, <2>5
  <2>. HIDE DEF g
  <2>7. g = file
    BY <1>6, <2>4, <2>5, <2>6, SeqEqual
  <2>. QED BY <2>1, <2>7 DEF g
<1>8. ASSUME c >= 2 + n
      PROVE  ReadEntry(f, L) = [key |-> k, val_size |-> SizeCell(x), val_offset |-> L + 2 + n]
  <2>1. 1 \in 1..c /\ 2 \in 1..c /\ L + 2 + n <= Len(f)
        /\ \A i \in 1..n : 2 + i \in 1..c /\ L + (2 + i) = L + 2 + i
    BY <1>0, <1>1, <1>3, <1>5, <1>8
  <2>2. f[L + 1] = n /\ f[L + 2] = SizeCell(x)
    BY <1>1, <1>5, <2>1
  <2>3. ASSUME NEW i \in 1..n PROVE f[L + 2 + i] = k[i]
    <3>1. f[L + (2 + i)] = e[2 + i]
      BY <1>5, <2>1
    <3>. QED BY <1>1, <2>1, <3>1
  <2>4. /\ L + 2 + Len(k) <= Len(f) /\ f[L + 1] = Len(k)
        /\ \A i \in 1..Len(k) : f[L + 2 + i] = k[i]
    BY <1>6, <2>1, <2>2, <2>3
  <2>5. ReadEntry(f, L) = [key |-> k, val_size |-> SizeCell(x), val_offset |-> L + 2 + Len(k)]
    BY <1>0, <1>2, <1>5, <2>2, <2>4, ReadEntryIs
  <2>. QED BY <1>6, <2>5
<1>9. ASSUME c < 2 + n, ReadEntry(f, L) # Failed PROVE FALSE
  <2>. DEFINE r == ReadEntry(f, L)
  <2>1. Len(r.key) \in Nat /\ L + 2 + Len(r.key) <= Len(f) /\ f[L + 1] = Len(r.key)
    BY <1>0, <1>5, <1>9, ReadEntryCells
  <2>2. f[L + 1] = n
    <3>1. 1 \in 1..c
      BY <1>3
    <3>. QED BY <1>1, <1>5, <3>1
  <2>3. L + 2 + n <= L + c
    BY <1>5, <2>1, <2>2
  <2>. QED BY <1>0, <1>1, <1>3, <1>9, <2>3
<1>. QED BY <1>5, <1>6, <1>7, <1>8, <1>9 DEF f, t, e


-----------------------------------------------------------------------------
(* Whole files                                                             *)

\* A file that the loop reads entry by entry to its end, what index it makes
\* of it, and that every position of the index is one of a value.
Whole(file, ix) ==
    /\ file \in Seq(Cell)
    /\ IsIndex(ix, Key)
    /\ \E n \in Nat : \E f :
          Run(file, n, f) /\ Reads(file, n, f) /\ f[n] = [offset |-> Len(file), index |-> ix]
    /\ \A k \in DOMAIN ix : ReadValue(file, ix[k]) \in Value

LEMMA WholeIndex ==
  ASSUME NEW file, NEW ix, Whole(file, ix)
  PROVE  BuildKeydir(file) = ix /\ ix # Failed
<1>n. PICK n \in Nat : \E f :
        Run(file, n, f) /\ Reads(file, n, f) /\ f[n] = [offset |-> Len(file), index |-> ix]
  BY DEF Whole
<1>1. PICK f : Run(file, n, f) /\ Reads(file, n, f) /\ f[n] = [offset |-> Len(file), index |-> ix]
  BY <1>n
<1>2. Len(file) \in Nat
  BY LenProperties DEF Whole
<1>3. n <= Len(file)
  BY <1>1, RunLength
<1>4. Turn(file, f[n]) = f[n]
  BY <1>1, <1>2 DEF Turn
<1>5. Loop(file) = f[n]
  BY <1>1, <1>2, <1>3, <1>4, RunEnds
<1>. QED BY <1>1, <1>5, IndexNotFailed DEF BuildKeydir, Whole

LEMMA WholeEmpty == Whole(<< >>, Empty)
<1>. DEFINE f == [i \in {0} |-> Start]
<1>1. f[0] = Start /\ 0 \in Nat /\ \A i \in 0..(0 - 1) : FALSE
  OBVIOUS
<1>. HIDE DEF f
<1>2. Run(<< >>, 0, f) /\ Reads(<< >>, 0, f)
  BY <1>1 DEF Run, Reads
<1>3. << >> \in Seq(Cell) /\ Len(<< >>) = 0
  BY EmptySeq
<1>4. f[0] = [offset |-> Len(<< >>), index |-> Empty]
  BY <1>1, <1>3 DEF Start
<1>. QED BY <1>1, <1>2, <1>3, <1>4, EmptyIndex DEF Whole

LEMMA AllOf ==
  ASSUME NEW s \in Seq(Cell)
  PROVE  SubSeq(s, 1, Len(s)) = s
<1>. DEFINE n == Len(s)
            r == SubSeq(s, 1, n)
<1>1. n \in Nat /\ 1 \in Int /\ n \in Int /\ n - 1 + 1 = n /\ \A i \in 1..n : 1 + i - 1 = i
  BY LenProperties
<1>2. \A i \in 1..n : s[i] \in Cell
  BY ElementOfSeq
<1>3. r \in Seq(Cell) /\ Len(r) = (IF 1 <= n THEN n - 1 + 1 ELSE 0)
      /\ \A i \in 1..(n - 1 + 1) : r[i] = s[1 + i - 1]
  BY <1>1, <1>2, SubSeqProperties
<1>. HIDE DEF r
<1>4. Len(r) = n /\ \A i \in 1..n : r[i] = s[1 + i - 1]
  BY <1>1, <1>3
<1>5. \A i \in 1..n : r[i] = s[i]
  BY <1>1, <1>4
<1>6. r = s
  BY <1>3, <1>4, <1>5, SeqEqual
<1>. QED BY <1>6 DEF r

\* What an entry makes of an index.
Entered(ix, file, k, x) ==
    IF x = None THEN Remove(ix, k)
    ELSE Insert(ix, k, [offset |-> Len(file) + 2 + Len(k), size |-> Len(x)])

LEMMA EnteredIndex ==
  ASSUME NEW K, NEW ix, IsIndex(ix, K), NEW file \in Seq(Cell),
         NEW k \in Seq(Cell), k \in K, NEW x, x = None \/ x \in Seq(Cell)
  PROVE  IsIndex(Entered(ix, file, k, x), K)
<1>1. CASE x = None
  BY <1>1, RemoveIndex DEF Entered
<1>2. CASE x # None
  <2>1. Len(file) \in Nat /\ Len(k) \in Nat /\ Len(x) \in Nat
    BY <1>2, LenProperties
  <2>2. [offset |-> Len(file) + 2 + Len(k), size |-> Len(x)] \in Position
    BY <2>1 DEF Position
  <2>. QED BY <1>2, <2>2, InsertIndex DEF Entered
<1>. QED BY <1>1, <1>2

\* The loop over f comes to the end of a whole file f begins with, and goes on.
Arrives(f, file, ix) ==
    \E n \in Nat : \E g :
        /\ n <= Len(file) /\ g[n] = [offset |-> Len(file), index |-> ix]
        /\ Reads(f, n, g)
        /\ Run(f, n + 1, g) /\ g[n + 1] = Turn(f, g[n])

(* The loop comes to the end of a whole file, whatever is appended to it.  *)
LEMMA ComesThere ==
  ASSUME NEW file, NEW ix, Whole(file, ix), NEW t \in Seq(Cell)
  PROVE  Arrives(file \o t, file, ix)
<1>. DEFINE f == file \o t
<1>1. file \in Seq(Cell) /\ ix # Failed
  BY WholeIndex DEF Whole
<1>n. PICK n \in Nat : \E h :
        Run(file, n, h) /\ Reads(file, n, h) /\ h[n] = [offset |-> Len(file), index |-> ix]
  BY DEF Whole
<1>2. PICK h : Run(file, n, h) /\ Reads(file, n, h) /\ h[n] = [offset |-> Len(file), index |-> ix]
  BY <1>n
<1>3. n <= Len(file)
  BY <1>2, RunLength
<1>4. Run(f, n, h) /\ Reads(f, n, h)
  <2>1. h[n].index # Failed
    BY <1>1, <1>2
  <2>. QED BY <1>1, <1>2, <2>1, RunKept
<1>. HIDE DEF f
<1>. DEFINE g == [i \in 0..(n + 1) |-> IF i = n + 1 THEN Turn(f, h[n]) ELSE h[i]]
<1>5. g[n + 1] = Turn(f, h[n]) /\ \A i \in 0..n : g[i] = h[i]
  OBVIOUS
<1>. HIDE DEF g
<1>6. g[n] = h[n]
  BY <1>5
<1>7. ASSUME NEW i \in 0..n PROVE g[i + 1] = Turn(f, g[i])
  <2>1. CASE i = n
    BY <1>5, <1>6, <2>1
  <2>2. CASE i # n
    <3>1. i \in 0..(n - 1) /\ i + 1 \in 0..n
      BY <2>2
    <3>. QED BY <1>4, <1>5, <3>1 DEF Run
  <2>. QED BY <2>1, <2>2
<1>8. Run(f, n + 1, g)
  BY <1>4, <1>5, <1>7, n + 1 - 1 = n DEF Run
<1>9. Reads(f, n, g)
  <2>1. \A i \in 0..(n - 1) : g[i] = h[i] /\ g[i + 1] = h[i + 1]
    BY <1>5
  <2>. QED BY <1>4, <2>1 DEF Reads
<1>. QED BY <1>2, <1>3, <1>5, <1>6, <1>8, <1>9 DEF f, Arrives

\* What build_keydir makes of a whole file and the first c cells of an entry:
\* the entry is read if the header and the key are there, and else it fails.
Continued(file, ix, k, x, c) ==
    LET f == file \o SubSeq(Entry(k, x), 1, c)
    IN  /\ f \in Seq(Cell) /\ Len(f) = Len(file) + c /\ SubSeq(f, 1, Len(f) - c) = file
        /\ c < 2 + Len(k) => BuildKeydir(f) = Failed
        /\ c >= 2 + Len(k) =>
             \E n \in Nat : \E g :
               /\ Run(f, n, g) /\ Reads(f, n, g) /\ n <= Len(f)
               /\ g[n] = [offset |-> Len(file) + Len(Entry(k, x)),
                          index |-> Entered(ix, file, k, x)]

(* The loop reads on past a whole file.                                    *)
LEMMA ReadsOn ==
  ASSUME NEW file, NEW ix, Whole(file, ix), NEW k \in Key, NEW x \in Value \cup {None},
         NEW c \in 1..Len(Entry(k, x))
  PROVE  Continued(file, ix, k, x, c)
<1>. DEFINE L == Len(file)
            m == Len(k)
            v == ValueLen(x)
            t == SubSeq(Entry(k, x), 1, c)
            at == [offset |-> L, index |-> ix]
<1>12. PICK f : f = file \o t
  OBVIOUS
<1>0. /\ file \in Seq(Cell) /\ k \in Seq(Cell) /\ (x = None \/ x \in Seq(Cell))
      /\ L \in Nat /\ ix # Failed
  BY BytesAreCells, LenProperties, WholeIndex DEF Whole
<1>1. Len(Entry(k, x)) = 2 + m + v /\ m \in Nat /\ v \in Nat /\ Entry(k, x) \in Seq(Cell)
  BY <1>0, EntryCells
<1>2. /\ f \in Seq(Cell) /\ Len(f) = L + c /\ SubSeq(f, 1, Len(f) - c) = file
      /\ c >= 2 + m => ReadEntry(f, L) = [key |-> k, val_size |-> SizeCell(x), val_offset |-> L + 2 + m]
      /\ c < 2 + m => ReadEntry(f, L) = Failed
  BY <1>0, AppendedEntry, <1>12
<1>3. c \in Nat /\ 1 <= c
  BY <1>1
<1>4. t \in Seq(Cell)
  <2>1. \A i \in 1..c : i \in 1..Len(Entry(k, x))
    BY <1>1, <1>3
  <2>2. \A i \in 1..c : Entry(k, x)[i] \in Cell
    BY <1>1, <2>1, ElementOfSeq
  <2>. QED BY <1>3, <2>2, SubSeqProperties, 1 \in Int, c \in Int
<1>n. PICK n \in Nat : \E g :
        /\ n <= L /\ g[n] = at
        /\ Reads(f, n, g)
        /\ Run(f, n + 1, g) /\ g[n + 1] = Turn(f, g[n])
  <2>. HIDE DEF t
  <2>1. Arrives(f, file, ix)
    BY <1>4, <1>12, ComesThere
  <2>. QED BY <2>1 DEF Arrives
<1>5. PICK g :
        /\ n <= L /\ g[n] = at
        /\ Reads(f, n, g)
        /\ Run(f, n + 1, g) /\ g[n + 1] = Turn(f, g[n])
  BY <1>n
<1>9. L < Len(f) /\ n + 1 <= Len(f) /\ n + 1 \in Nat /\ Len(f) \in Nat
  BY <1>0, <1>2, <1>3, <1>5
<1>10. ASSUME c < 2 + m PROVE BuildKeydir(f) = Failed
  <2>1. Turn(f, at) = [at EXCEPT !.index = Failed]
    BY <1>0, <1>2, <1>9, <1>10 DEF Turn
  <2>2. g[n + 1] = [offset |-> L, index |-> Failed]
    BY <1>5, <2>1
  <2>3. Turn(f, g[n + 1]) = g[n + 1]
    BY <2>2 DEF Turn
  <2>4. Loop(f) = g[n + 1]
    BY <1>5, <1>9, <2>3, RunEnds
  <2>. QED BY <2>2, <2>4 DEF BuildKeydir
<1>11. ASSUME c >= 2 + m
       PROVE  /\ Run(f, n + 1, g) /\ Reads(f, n + 1, g)
              /\ g[n + 1] = [offset |-> L + Len(Entry(k, x)), index |-> Entered(ix, file, k, x)]
  <2>. DEFINE e == [key |-> k, val_size |-> SizeCell(x), val_offset |-> L + 2 + m]
              skip == IF SizeCell(x) = -1 THEN 0 ELSE SizeCell(x)
  <2>1. ReadEntry(f, L) = e
    BY <1>2, <1>11
  <2>2. e # Failed
    <3>1. SizeCell(x) \in Cell /\ L + 2 + m \in Nat
      BY <1>0, <1>1, LenProperties DEF SizeCell, Cell
    <3>. QED BY <1>0, <3>1, MarkersAssumption
  <2>3. Turn(f, at) = [offset |-> L + 2 + m + skip, index |-> Replay(ix, e)]
    BY <1>0, <1>9, <2>1, <2>2 DEF Turn
  <2>4. skip = v /\ Replay(ix, e) = Entered(ix, file, k, x)
    <3>1. CASE x = None
      <4>1. SizeCell(x) = -1 /\ v = 0
        BY <3>1 DEF SizeCell, ValueLen
      <4>. QED BY <3>1, <4>1 DEF Replay, Entered
    <3>2. CASE x # None
      <4>1. SizeCell(x) = Len(x) /\ v = Len(x) /\ Len(x) # -1
        BY <1>0, <3>2, LenProperties DEF SizeCell, ValueLen
      <4>. QED BY <3>2, <4>1 DEF Replay, Entered
    <3>. QED BY <3>1, <3>2
  <2>5. L + 2 + m + v = L + Len(Entry(k, x)) /\ L + Len(Entry(k, x)) \in Nat /\ L < L + Len(Entry(k, x))
    BY <1>0, <1>1
  <2>6. g[n + 1] = [offset |-> L + Len(Entry(k, x)), index |-> Entered(ix, file, k, x)]
    BY <1>5, <2>3, <2>4, <2>5
  <2>7. ASSUME NEW i \in 0..n
        PROVE  /\ g[i].offset \in Nat /\ g[i].offset < Len(f) /\ g[i].index # Failed
               /\ g[i + 1].offset \in Nat /\ g[i].offset < g[i + 1].offset
    <3>1. CASE i = n
      <4>1. g[i] = at /\ g[i + 1] = [offset |-> L + Len(Entry(k, x)), index |-> Entered(ix, file, k, x)]
        BY <1>5, <2>6, <3>1
      <4>. QED BY <1>0, <1>9, <2>5, <4>1
    <3>2. CASE i # n
      <4>1. i \in 0..(n - 1)
        BY <3>2
      <4>. QED BY <1>5, <4>1 DEF Reads
    <3>. QED BY <3>1, <3>2
  <2>8. n + 1 - 1 = n
    OBVIOUS
  <2>. QED BY <1>5, <2>6, <2>7, <2>8 DEF Reads
<1>. QED BY <1>2, <1>9, <1>10, <1>11, <1>12 DEF t, m, L, Continued


(* What set and delete make of a whole file.                               *)
LEMMA Appended ==
  ASSUME NEW file, NEW ix, Whole(file, ix), NEW k \in Key, NEW x \in Value \cup {None}
  PROVE  LET f == file \o Entry(k, x)
             after == Entered(ix, file, k, x)
         IN  /\ Whole(f, after)
             /\ \A j \in DOMAIN ix : ReadValue(f, ix[j]) = ReadValue(file, ix[j])
             /\ x # None => ReadValue(f, after[k]) = x
<1>. DEFINE e == Entry(k, x)
            f == file \o e
            after == Entered(ix, file, k, x)
            L == Len(file)
<1>0. /\ file \in Seq(Cell) /\ k \in Seq(Cell) /\ (x = None \/ x \in Seq(Cell)) /\ L \in Nat
      /\ IsIndex(ix, Key)
  BY BytesAreCells, LenProperties DEF Whole
<1>1. /\ e \in Seq(Cell) /\ Len(e) = 2 + Len(k) + ValueLen(x)
      /\ Len(k) \in Nat /\ ValueLen(x) \in Nat
  BY <1>0, EntryCells
<1>2. Len(e) \in 1..Len(e) /\ Len(e) >= 2 + Len(k)
  BY <1>1
<1>3. SubSeq(e, 1, Len(e)) = e
  BY <1>1, AllOf
<1>4. f \in Seq(Cell) /\ Len(f) = L + Len(e)
  BY <1>0, <1>1, ConcatCells
<1>5. \E n \in Nat : \E g :
          /\ Run(f, n, g) /\ Reads(f, n, g) /\ n <= Len(f)
          /\ g[n] = [offset |-> L + Len(e), index |-> after]
  <2>. DEFINE c == Len(e)
  <2>1. LET h == file \o SubSeq(Entry(k, x), 1, c)
        IN  c >= 2 + Len(k) =>
              \E n \in Nat : \E g :
                /\ Run(h, n, g) /\ Reads(h, n, g) /\ n <= Len(h)
                /\ g[n] = [offset |-> Len(file) + Len(Entry(k, x)),
                           index |-> Entered(ix, file, k, x)]
    BY <1>2, ReadsOn DEF Continued
  <2>. QED BY <1>2, <1>3, <2>1
<1>6. IsIndex(after, Key)
  BY <1>0, EnteredIndex
<1>7. ASSUME NEW j \in DOMAIN ix
      PROVE  ReadValue(f, ix[j]) = ReadValue(file, ix[j]) /\ ReadValue(file, ix[j]) \in Value
  <2>1. ReadValue(file, ix[j]) \in Value /\ ReadValue(file, ix[j]) # Failed
    BY BytesAreCells, MarkersAssumption DEF Whole
  <2>2. ix[j] \in Position
    BY <1>0 DEF IsIndex
  <2>. QED BY <1>0, <1>1, <2>1, <2>2, ReadValueKept
<1>8. x # None => k \in DOMAIN after /\ ReadValue(f, after[k]) = x
  <2>1. SUFFICES ASSUME x # None PROVE k \in DOMAIN after /\ ReadValue(f, after[k]) = x
    OBVIOUS
  <2>2. after[k] = [offset |-> L + 2 + Len(k), size |-> Len(x)] /\ k \in DOMAIN after
    BY <2>1 DEF Entered, Insert
  <2>3. file \in Seq(Cell) /\ k \in Seq(Cell) /\ x \in Seq(Cell)
    BY <1>0, <2>1
  <2>4. LET p == ValueAt(EntryAt(file, k, x), x)
        IN  /\ p = [offset |-> L + 2 + Len(k), size |-> Len(x)]
            /\ ReadValue(file \o Entry(k, x), p) = x
    BY <2>3, ReadBack
  <2>5. ReadValue(f, [offset |-> L + 2 + Len(k), size |-> Len(x)]) = x
    BY <2>4, Zenon
  <2>. QED BY <2>2, <2>5
<1>9. ASSUME NEW j \in DOMAIN after PROVE ReadValue(f, after[j]) \in Value
  <2>1. CASE x # None /\ j = k
    BY <1>8, <2>1
  <2>2. CASE ~(x # None /\ j = k)
    <3>1. j \in DOMAIN ix /\ after[j] = ix[j]
      BY <2>2 DEF Entered, Insert, Remove, Restrict
    <3>. HIDE DEF after, f
    <3>. QED BY <1>7, <3>1
  <2>. QED BY <2>1, <2>2
<1>. HIDE DEF f, after, e
<1>10. Whole(f, after)
  <2>1. \E n \in Nat : \E g :
          Run(f, n, g) /\ Reads(f, n, g) /\ g[n] = [offset |-> Len(f), index |-> after]
    BY <1>4, <1>5
  <2>. QED BY <1>4, <1>6, <1>9, <2>1 DEF Whole
<1>. QED BY <1>7, <1>8, <1>10 DEF f, after, e

(* What an append that is cut short makes of a whole file.                 *)
LEMMA CutShort ==
  ASSUME NEW file, NEW ix, Whole(file, ix), NEW k \in Key, NEW x \in Value \cup {None},
         NEW c \in 1..(Len(Entry(k, x)) - 1)
  PROVE  LET f == file \o SubSeq(Entry(k, x), 1, c)
         IN  /\ f \in Seq(Cell) /\ SubSeq(f, 1, Len(f) - c) = file
             /\ c < 2 + Len(k) => BuildKeydir(f) = Failed
             /\ c >= 2 + Len(k) => BuildKeydir(f) = Entered(ix, file, k, x)
<1>0. /\ file \in Seq(Cell) /\ k \in Seq(Cell) /\ (x = None \/ x \in Seq(Cell)) /\ Len(file) \in Nat
  BY BytesAreCells, LenProperties DEF Whole
<1>1. Len(Entry(k, x)) \in Nat
  <2>1. /\ Len(Entry(k, x)) = 2 + Len(k) + ValueLen(x)
        /\ Len(k) \in Nat /\ ValueLen(x) \in Nat
    BY <1>0, EntryCells
  <2>. QED BY <2>1
<1>2. c \in 1..Len(Entry(k, x)) /\ c \in Nat /\ c < Len(Entry(k, x))
  BY <1>1
<1>. DEFINE f == file \o SubSeq(Entry(k, x), 1, c)
<1>6. Continued(file, ix, k, x, c)
  BY <1>2, ReadsOn
<1>3. f \in Seq(Cell) /\ Len(f) = Len(file) + c /\ SubSeq(f, 1, Len(f) - c) = file
  BY <1>6 DEF Continued
<1>4. c < 2 + Len(k) => BuildKeydir(f) = Failed
  BY <1>6 DEF Continued
<1>5. ASSUME c >= 2 + Len(k) PROVE BuildKeydir(f) = Entered(ix, file, k, x)
  <2>1. \E n \in Nat : \E g :
          /\ Run(f, n, g) /\ Reads(f, n, g) /\ n <= Len(f)
          /\ g[n] = [offset |-> Len(file) + Len(Entry(k, x)), index |-> Entered(ix, file, k, x)]
    BY <1>5, <1>6 DEF Continued
  <2>. HIDE DEF f
  <2>n. PICK n \in Nat : \E g :
          /\ Run(f, n, g) /\ Reads(f, n, g) /\ n <= Len(f)
          /\ g[n] = [offset |-> Len(file) + Len(Entry(k, x)), index |-> Entered(ix, file, k, x)]
    BY <2>1
  <2>2. PICK g :
          /\ Run(f, n, g) /\ Reads(f, n, g) /\ n <= Len(f)
          /\ g[n] = [offset |-> Len(file) + Len(Entry(k, x)), index |-> Entered(ix, file, k, x)]
    BY <2>n
  <2>3. g[n].offset >= Len(f) /\ Len(f) \in Nat
    BY <1>0, <1>1, <1>2, <1>3, <2>2
  <2>4. Turn(f, g[n]) = g[n]
    BY <2>3 DEF Turn
  <2>5. Loop(f) = g[n]
    BY <2>2, <2>3, <2>4, RunEnds
  <2>. QED BY <2>2, <2>5 DEF BuildKeydir
<1>. QED BY <1>3, <1>4, <1>5


-----------------------------------------------------------------------------
(* The inductive invariant                                                 *)

\* Types, and what is empty while the engine is closed or not compacting.
Typed ==
    /\ log \in Seq(Cell) /\ compact_log \in Seq(Cell)
    /\ engine \in {"closed", "open", "compacting"}
    /\ IsIndex(keydir, Seq(Cell))
    /\ compaction = [todo |-> compaction.todo, new_keydir |-> compaction.new_keydir]
    /\ IsIndex(compaction.new_keydir, Seq(Cell))
    /\ compaction.todo \subseteq DOMAIN keydir
    /\ acked \in [Key -> Value \cup {None}]
    /\ fresh \subseteq Key
    /\ engine = "closed" => keydir = Empty
    /\ engine # "compacting" => compaction = NoCompaction

\* An index says of each of its keys what build_keydir would.
Agrees(ix, file) ==
    /\ DOMAIN ix \subseteq DOMAIN BuildKeydir(file)
    /\ \A k \in DOMAIN ix : ix[k] = BuildKeydir(file)[k]

\* The acknowledged values are in the log, and in the index of an open engine.
Acknowledged ==
    \A k \in Key : acked[k] # None =>
        /\ k \in DOMAIN BuildKeydir(log)
        /\ ReadValue(log, BuildKeydir(log)[k]) = acked[k]
        /\ engine # "closed" => k \in DOMAIN keydir

\* A compaction has copied the value of every key that is not still to copy.
Copied ==
    engine = "compacting" =>
        /\ keydir = BuildKeydir(log)
        /\ DOMAIN compaction.new_keydir = DOMAIN keydir \ compaction.todo
        /\ Agrees(compaction.new_keydir, compact_log)
        /\ \A k \in DOMAIN compaction.new_keydir :
              ReadValue(compact_log, compaction.new_keydir[k]) = ReadValue(log, keydir[k])

\* Unless a compaction can be cut short it starts with an empty file, and the
\* indexes lack nothing.
Uncut ==
    ~CrashInCompact =>
        /\ engine = "open" => keydir = BuildKeydir(log)
        /\ engine = "compacting" => compaction.new_keydir = BuildKeydir(compact_log)
        /\ engine # "compacting" => compact_log = << >>

Sound ==
    /\ Whole(log, BuildKeydir(log)) /\ Whole(compact_log, BuildKeydir(compact_log))
    /\ Agrees(keydir, log)
    /\ Acknowledged
    /\ Copied
    /\ Uncut

\* What a cut append left: a whole file and the first cells of an entry.
Cut ==
    \E before, ix : Whole(before, ix) /\
        \E k \in Key, x \in Value \cup {None} : \E n \in 1..(Len(Entry(k, x)) - 1) :
            torn = [key |-> k, cut |-> n, log |-> before \o SubSeq(Entry(k, x), 1, n)]

\* The index finds what was written since the engine was opened.
Fresh ==
    /\ engine = "compacting" => fresh = {}
    /\ engine = "open" => \A k \in fresh :
          IF acked[k] = None THEN k \notin DOMAIN keydir
          ELSE k \in DOMAIN keydir /\ ReadValue(log, keydir[k]) = acked[k]

DInv ==
    /\ Typed
    /\ torn = None => Sound
    /\ torn # None => Cut /\ TornWrites
    /\ Fresh

-----------------------------------------------------------------------------
(* The steps                                                               *)

LEMMA EmptyTyped == IsIndex(Empty, Seq(Cell)) /\ IsIndex(NoCompaction.new_keydir, Seq(Cell))
                    /\ NoCompaction = [todo |-> {}, new_keydir |-> Empty]
                    /\ Whole(<< >>, BuildKeydir(<< >>)) /\ BuildKeydir(<< >>) = Empty
BY EmptyIndex, WholeEmpty, WholeIndex DEF NoCompaction

LEMMA InitInv == Init => DInv
<1>. SUFFICES ASSUME Init PROVE DInv
  OBVIOUS
<1>1. Typed
  BY EmptyTyped, EmptySeq DEF Init, Typed, NoCompaction
<1>2. Sound
  BY EmptyTyped, EmptyIndex DEF Init, Sound, Agrees, Acknowledged, Copied, Uncut
<1>. QED BY <1>1, <1>2 DEF Init, DInv, Fresh

LEMMA NewStep ==
  ASSUME DInv, New
  PROVE  DInv'
<1>1. Typed'
  <2>1. IsIndex(BuildKeydir(log), Seq(Cell))
    BY BuildTyped DEF DInv, Typed, New
  <2>. QED BY <2>1, EmptyTyped DEF DInv, Typed, New
<1>2. (torn = None => Sound)'
  <2>. SUFFICES ASSUME torn = None PROVE Sound'
    BY DEF New
  <2>1. Sound
    BY DEF DInv
  <2>2. (Whole(log, BuildKeydir(log)) /\ Whole(compact_log, BuildKeydir(compact_log)))'
    BY <2>1 DEF Sound, New
  <2>3. Agrees(keydir, log)'
    BY DEF Agrees, New
  <2>4. Acknowledged'
    BY <2>1 DEF Sound, Acknowledged, New
  <2>5. Copied' /\ Uncut'
    BY <2>1 DEF Sound, Copied, Uncut, New
  <2>. QED BY <2>2, <2>3, <2>4, <2>5 DEF Sound
<1>3. (torn # None => Cut /\ TornWrites)'
  BY DEF DInv, Cut, New
<1>4. Fresh'
  BY DEF Fresh, New
<1>. QED BY <1>1, <1>2, <1>3, <1>4 DEF DInv

LEMMA NewCompactStep ==
  ASSUME DInv, NewCompact
  PROVE  DInv'
<1>0. compaction' = [todo |-> DOMAIN keydir', new_keydir |-> Empty] /\ keydir' = BuildKeydir(log)
      /\ engine' = "compacting"
  BY DEF NewCompact
<1>1. Typed'
  <2>1. IsIndex(BuildKeydir(log), Seq(Cell))
    BY BuildTyped DEF DInv, Typed, NewCompact
  <2>. QED BY <1>0, <2>1, EmptyTyped DEF DInv, Typed, NewCompact
<1>2. (torn = None => Sound)'
  <2>. SUFFICES ASSUME torn = None PROVE Sound'
    BY DEF NewCompact
  <2>1. Sound
    BY DEF DInv
  <2>2. (Whole(log, BuildKeydir(log)) /\ Whole(compact_log, BuildKeydir(compact_log)))'
    BY <2>1 DEF Sound, NewCompact
  <2>3. Agrees(keydir, log)'
    BY DEF Agrees, NewCompact
  <2>4. Acknowledged'
    BY <2>1 DEF Sound, Acknowledged, NewCompact
  <2>5. Copied'
    <3>1. DOMAIN Empty = {}
      BY EmptyIndex
    <3>2. compaction'.new_keydir = Empty /\ compaction'.todo = DOMAIN keydir' /\ log' = log
      BY <1>0 DEF NewCompact
    <3>3. Agrees(compaction.new_keydir, compact_log)'
      BY <3>1, <3>2 DEF Agrees
    <3>4. (DOMAIN compaction.new_keydir = DOMAIN keydir \ compaction.todo)'
      BY <3>1, <3>2
    <3>. QED BY <1>0, <3>1, <3>2, <3>3, <3>4 DEF Copied
  <2>6. Uncut'
    <3>1. ~CrashInCompact => compact_log = << >>
      BY <2>1 DEF Sound, Uncut, NewCompact
    <3>2. ~CrashInCompact => BuildKeydir(compact_log') = Empty
      BY <3>1, EmptyTyped DEF NewCompact
    <3>. QED BY <1>0, <3>2 DEF Uncut
  <2>. QED BY <2>2, <2>3, <2>4, <2>5, <2>6 DEF Sound
<1>3. (torn # None => Cut /\ TornWrites)'
  BY DEF DInv, Cut, NewCompact
<1>4. Fresh'
  BY <1>0 DEF Fresh, NewCompact
<1>. QED BY <1>1, <1>2, <1>3, <1>4 DEF DInv

LEMMA EnteredAt ==
  ASSUME NEW ix, NEW file, NEW k, NEW x
  PROVE  LET after == Entered(ix, file, k, x)
         IN  /\ \A j : j # k => /\ j \in DOMAIN after <=> j \in DOMAIN ix
                                /\ j \in DOMAIN ix => after[j] = ix[j]
             /\ k \in DOMAIN after <=> x # None
             /\ x # None => after[k] = [offset |-> Len(file) + 2 + Len(k), size |-> Len(x)]
<1>1. CASE x = None
  BY <1>1 DEF Entered, Remove, Restrict
<1>2. CASE x # None
  BY <1>2 DEF Entered, Insert
<1>. QED BY <1>1, <1>2

\* Set and delete, as one: the entry is appended and entered in the index.
Wrote(k, x) ==
    /\ Open
    /\ log' = log \o Entry(k, x)
    /\ keydir' = Entered(keydir, log, k, x)
    /\ acked' = [acked EXCEPT ![k] = x]
    /\ fresh' = fresh \cup {k}
    /\ UNCHANGED <<compact_log, engine, compaction, torn>>

LEMMA PositionEntered ==
  ASSUME NEW file \in Seq(Cell), NEW k \in Seq(Cell), NEW x \in Seq(Cell), NEW ix
  PROVE  Insert(ix, k, ValueAt(EntryAt(file, k, x), x)) = Entered(ix, file, k, x)
<1>1. x # None
  BY MarkersAssumption
<1>2. ValueAt(EntryAt(file, k, x), x) = [offset |-> Len(file) + 2 + Len(k), size |-> Len(x)]
  BY ReadBack
<1>. QED BY <1>1, <1>2 DEF Entered

LEMMA Writing ==
  ASSUME log \in Seq(Cell), NEW k \in Key
  PROVE  /\ \A x \in Value : Set(k, x) => Wrote(k, x)
         /\ Delete(k) => Wrote(k, None)
<1>0. k \in Seq(Cell)
  BY BytesAreCells
<1>1. ASSUME NEW x \in Value, Set(k, x) PROVE Wrote(k, x)
  <2>1. x \in Seq(Cell)
    BY BytesAreCells
  <2>2. Insert(keydir, k, ValueAt(EntryAt(log, k, x), x)) = Entered(keydir, log, k, x)
    BY <1>0, <2>1, PositionEntered
  <2>. QED BY <1>1, <2>2 DEF Set, Wrote
<1>2. ASSUME Delete(k) PROVE Wrote(k, None)
  BY <1>2 DEF Delete, Wrote, Entered
<1>. QED BY <1>1, <1>2

LEMMA WriteStep ==
  ASSUME DInv, NEW k \in Key, NEW x \in Value \cup {None}, Wrote(k, x)
  PROVE  DInv'
<1>. DEFINE after == Entered(keydir, log, k, x)
<1>0. /\ k \in Seq(Cell) /\ (x = None \/ x \in Seq(Cell)) /\ log \in Seq(Cell)
      /\ Entry(k, x) \in Seq(Cell) /\ engine = "open" /\ IsIndex(keydir, Seq(Cell))
      /\ acked \in [Key -> Value \cup {None}] /\ fresh \subseteq Key
      /\ compaction = NoCompaction
  BY BytesAreCells, EntryCells DEF DInv, Typed, Wrote, Open
<1>1. Typed'
  <2>1. log' \in Seq(Cell)
    BY <1>0, ConcatCells DEF Wrote
  <2>2. IsIndex(keydir', Seq(Cell))
    BY <1>0, EnteredIndex DEF Wrote
  <2>3. compaction' = NoCompaction /\ compaction'.todo \subseteq DOMAIN keydir'
    BY <1>0 DEF Wrote, NoCompaction
  <2>4. acked' \in [Key -> Value \cup {None}] /\ fresh' \subseteq Key
    BY <1>0 DEF Wrote
  <2>. QED BY <1>0, <2>1, <2>2, <2>3, <2>4 DEF DInv, Typed, Wrote
<1>2. (torn = None => Sound)'
  <2>. SUFFICES ASSUME torn = None PROVE Sound'
    BY DEF Wrote
  <2>. DEFINE B == BuildKeydir(log)
              A == Entered(B, log, k, x)
  <2>1. Sound
    BY DEF DInv
  <2>2. /\ Whole(log', A)
        /\ \A j \in DOMAIN B : ReadValue(log', B[j]) = ReadValue(log, B[j])
        /\ x # None => ReadValue(log', A[k]) = x
    BY <2>1, Appended DEF Sound, Wrote
  <2>3. BuildKeydir(log') = A
    BY <2>2, WholeIndex
  <2>4. /\ keydir' = after
        /\ \A j : j # k => /\ j \in DOMAIN after <=> j \in DOMAIN keydir
                           /\ j \in DOMAIN keydir => after[j] = keydir[j]
        /\ k \in DOMAIN after <=> x # None
        /\ x # None => after[k] = [offset |-> Len(log) + 2 + Len(k), size |-> Len(x)]
    BY EnteredAt DEF Wrote
  <2>5. /\ \A j : j # k => /\ j \in DOMAIN A <=> j \in DOMAIN B
                           /\ j \in DOMAIN B => A[j] = B[j]
        /\ k \in DOMAIN A <=> x # None
        /\ x # None => A[k] = [offset |-> Len(log) + 2 + Len(k), size |-> Len(x)]
    BY EnteredAt
  <2>6. Agrees(keydir, log) /\ Acknowledged
    BY <2>1 DEF Sound
  <2>. HIDE DEF A, after
  <2>7. Agrees(keydir, log)'
    <3>1. ASSUME NEW j \in DOMAIN after PROVE j \in DOMAIN A /\ after[j] = A[j]
      BY <2>4, <2>5, <2>6 DEF Agrees
    <3>2. \A j \in DOMAIN keydir' : j \in DOMAIN BuildKeydir(log') /\ keydir'[j] = BuildKeydir(log')[j]
      BY <2>3, <2>4, <3>1
    <3>. QED BY <3>2 DEF Agrees
  <2>8. Acknowledged'
    <3>1. ASSUME NEW j \in Key, acked'[j] # None
          PROVE  j \in DOMAIN A /\ ReadValue(log', A[j]) = acked'[j] /\ j \in DOMAIN after
      <4>1. CASE j = k
        <5>1. acked'[j] = x
          BY <1>0, <4>1 DEF Wrote
        <5>. QED BY <2>2, <2>4, <2>5, <3>1, <4>1, <5>1
      <4>2. CASE j # k
        <5>1. acked'[j] = acked[j]
          BY <1>0, <4>2 DEF Wrote
        <5>2. j \in DOMAIN B /\ ReadValue(log, B[j]) = acked[j] /\ j \in DOMAIN keydir
          BY <1>0, <2>6, <3>1, <5>1 DEF Acknowledged
        <5>. QED BY <2>2, <2>4, <2>5, <4>2, <5>1, <5>2
      <4>. QED BY <4>1, <4>2
    <3>. QED BY <2>3, <2>4, <3>1 DEF Acknowledged
  <2>9. Copied'
    BY <1>0 DEF Copied, Wrote
  <2>10. Uncut'
    <3>1. ~CrashInCompact => keydir = B /\ compact_log = << >>
      BY <1>0, <2>1 DEF Sound, Uncut
    <3>2. ~CrashInCompact => keydir' = BuildKeydir(log')
      BY <2>3, <2>4, <3>1 DEF A, after
    <3>. QED BY <1>0, <3>1, <3>2 DEF Uncut, Wrote
  <2>11. (Whole(log, BuildKeydir(log)) /\ Whole(compact_log, BuildKeydir(compact_log)))'
    <3>1. Whole(log', BuildKeydir(log'))
      BY <2>2, <2>3
    <3>. QED BY <2>1, <3>1 DEF Sound, Wrote
  <2>. QED BY <2>7, <2>8, <2>9, <2>10, <2>11 DEF Sound
<1>3. (torn # None => Cut /\ TornWrites)'
  BY DEF DInv, Cut, Wrote
<1>4. Fresh'
  <2>1. /\ keydir' = after
        /\ \A j : j # k => /\ j \in DOMAIN after <=> j \in DOMAIN keydir
                           /\ j \in DOMAIN keydir => after[j] = keydir[j]
        /\ k \in DOMAIN after <=> x # None
        /\ x # None => after[k] = [offset |-> Len(log) + 2 + Len(k), size |-> Len(x)]
    BY EnteredAt DEF Wrote
  <2>. HIDE DEF after
  <2>2. ASSUME NEW j \in fresh'
        PROVE  IF acked'[j] = None THEN j \notin DOMAIN after
               ELSE j \in DOMAIN after /\ ReadValue(log', after[j]) = acked'[j]
    <3>1. CASE j = k
      <4>1. acked'[j] = x
        BY <1>0, <3>1 DEF Wrote
      <4>2. x # None => ReadValue(log', after[k]) = x
        <5>1. SUFFICES ASSUME x # None PROVE ReadValue(log', after[k]) = x
          OBVIOUS
        <5>2. LET p == ValueAt(EntryAt(log, k, x), x)
              IN  /\ p = [offset |-> Len(log) + 2 + Len(k), size |-> Len(x)]
                  /\ ReadValue(log \o Entry(k, x), p) = x
          BY <1>0, <5>1, ReadBack
        <5>. QED BY <2>1, <5>1, <5>2 DEF Wrote
      <4>. QED BY <2>1, <3>1, <4>1, <4>2
    <3>2. CASE j # k
      <4>1. j \in fresh /\ j \in Key /\ acked'[j] = acked[j]
        BY <1>0, <3>2 DEF Wrote
      <4>2. IF acked[j] = None THEN j \notin DOMAIN keydir
            ELSE j \in DOMAIN keydir /\ ReadValue(log, keydir[j]) = acked[j]
        BY <1>0, <4>1 DEF DInv, Fresh
      <4>3. CASE acked[j] = None
        BY <2>1, <3>2, <4>1, <4>2, <4>3
      <4>4. CASE acked[j] # None
        <5>1. acked[j] # Failed /\ keydir[j] \in Position
          BY <1>0, <4>1, <4>2, <4>4, BytesAreCells, MarkersAssumption DEF IsIndex
        <5>2. ReadValue(log', keydir[j]) = ReadValue(log, keydir[j])
          BY <1>0, <4>2, <4>4, <5>1, ReadValueKept DEF Wrote
        <5>. QED BY <2>1, <3>2, <4>1, <4>2, <4>4, <5>2
      <4>. QED BY <4>3, <4>4
    <3>. QED BY <3>1, <3>2
  <2>. QED BY <1>0, <2>1, <2>2 DEF Fresh, Wrote
<1>. QED BY <1>1, <1>2, <1>3, <1>4 DEF DInv


LEMMA CutStep ==
  ASSUME DInv, NEW k \in Key, NEW x \in Value \cup {None},
         NEW n \in 1..(Len(Entry(k, x)) - 1), CrashInWrite(k, x, n)
  PROVE  DInv'
<1>0. k \in Seq(Cell) /\ (x = None \/ x \in Seq(Cell)) /\ log \in Seq(Cell)
  BY BytesAreCells DEF DInv, Typed
<1>1. log' \in Seq(Cell) /\ n \in Nat
  <2>1. Whole(log, BuildKeydir(log))
    BY DEF DInv, Sound, CrashInWrite
  <2>2. log \o SubSeq(Entry(k, x), 1, n) \in Seq(Cell)
    BY <2>1, CutShort
  <2>. QED BY <2>2 DEF CrashInWrite
<1>2. torn' # None
  <2>1. torn' = [key |-> k, cut |-> n, log |-> log']
    BY DEF CrashInWrite
  <2>2. torn' \in [key : Key, cut : Nat, log : Seq(Cell)]
    BY <1>1, <2>1
  <2>. QED BY <2>2, MarkersAssumption
<1>3. Typed'
  <2>1. compaction = NoCompaction
    BY DEF DInv, Typed, CrashInWrite, Open
  <2>. QED BY <1>1, <2>1, EmptyTyped DEF DInv, Typed, CrashInWrite, NoCompaction
<1>4. (Cut /\ TornWrites)'
  <2>1. Whole(log, BuildKeydir(log))
    BY DEF DInv, Sound, CrashInWrite
  <2>2. torn' = [key |-> k, cut |-> n, log |-> log \o SubSeq(Entry(k, x), 1, n)]
    BY DEF CrashInWrite
  <2>3. \E j \in Key, y \in Value \cup {None} : \E m \in 1..(Len(Entry(j, y)) - 1) :
            torn' = [key |-> j, cut |-> m, log |-> log \o SubSeq(Entry(j, y), 1, m)]
    BY <2>2
  <2>4. Cut'
    BY <2>1, <2>3 DEF Cut
  <2>. QED BY <2>4 DEF CrashInWrite
<1>5. Fresh'
  BY DEF Fresh, CrashInWrite
<1>. QED BY <1>2, <1>3, <1>4, <1>5 DEF DInv

\* A value of a whole file can be read.
LEMMA ValueRead ==
  ASSUME NEW file, NEW ix, Whole(file, ix), NEW k \in DOMAIN ix
  PROVE  k \in Key /\ ReadValue(file, ix[k]) \in Value /\ ReadValue(file, ix[k]) # Failed
BY BytesAreCells, MarkersAssumption DEF Whole, IsIndex

LEMMA CopyStep ==
  ASSUME DInv, NEW k \in compaction.todo, engine = "compacting",
         ReadValue(log, keydir[k]) # Failed,
         compact_log' = compact_log \o Entry(k, ReadValue(log, keydir[k])),
         compaction' = [todo |-> compaction.todo \ {k},
                        new_keydir |-> Insert(compaction.new_keydir, k,
                           ValueAt(EntryAt(compact_log, k, ReadValue(log, keydir[k])),
                                   ReadValue(log, keydir[k])))],
         UNCHANGED <<log, engine, keydir, acked, torn, fresh>>
  PROVE  DInv'
<1>. DEFINE x == ReadValue(log, keydir[k])
            new == compaction.new_keydir
            after == Entered(new, compact_log, k, x)
<1>0. /\ log \in Seq(Cell) /\ compact_log \in Seq(Cell) /\ IsIndex(keydir, Seq(Cell))
      /\ IsIndex(new, Seq(Cell)) /\ k \in DOMAIN keydir
  BY DEF DInv, Typed
<1>1. k \in Seq(Cell) /\ x \in Seq(Cell) /\ x # None
  <2>1. k \in Seq(Cell) /\ keydir[k].offset \in Nat /\ keydir[k].size \in Cell
    BY <1>0 DEF IsIndex, Position, Cell
  <2>. QED BY <1>0, <2>1, ReadExactCells, MarkersAssumption DEF ReadValue
<1>2. compaction' = [todo |-> compaction.todo \ {k}, new_keydir |-> after]
  <2>1. compaction' = [todo |-> compaction.todo \ {k},
                       new_keydir |-> Insert(new, k, ValueAt(EntryAt(compact_log, k, x), x))]
    OBVIOUS
  <2>. HIDE DEF x, new
  <2>2. Insert(new, k, ValueAt(EntryAt(compact_log, k, x), x)) = after
    BY <1>0, <1>1, PositionEntered
  <2>. QED BY <2>1, <2>2
<1>3. compaction'.todo = compaction.todo \ {k} /\ compaction'.new_keydir = after
  BY <1>2
<1>4. /\ \A j : j # k => /\ j \in DOMAIN after <=> j \in DOMAIN new
                         /\ j \in DOMAIN new => after[j] = new[j]
      /\ k \in DOMAIN after
  <2>. HIDE DEF x, new
  <2>. QED BY <1>1, EnteredAt
<1>5. Entry(k, x) \in Seq(Cell) /\ compact_log' = compact_log \o Entry(k, x)
  BY <1>1, EntryCells
<1>6. Typed'
  <2>1. compact_log' \in Seq(Cell)
    BY <1>0, <1>5, ConcatCells
  <2>2. IsIndex(after, Seq(Cell))
    BY <1>0, <1>1, EnteredIndex
  <2>. HIDE DEF after
  <2>. QED BY <1>2, <1>3, <2>1, <2>2 DEF DInv, Typed
<1>7. (torn = None => Sound)'
  <2>. SUFFICES ASSUME torn = None PROVE Sound'
    OBVIOUS
  <2>. DEFINE C == BuildKeydir(compact_log)
              A == Entered(C, compact_log, k, x)
  <2>1. Sound /\ keydir = BuildKeydir(log)
    BY DEF DInv, Sound, Copied
  <2>2. k \in Key /\ x \in Value
    BY <1>0, <2>1, ValueRead DEF Sound
  <2>3. /\ Whole(compact_log', A)
        /\ \A j \in DOMAIN C : ReadValue(compact_log', C[j]) = ReadValue(compact_log, C[j])
        /\ ReadValue(compact_log', A[k]) = x
    BY <1>1, <1>5, <2>1, <2>2, Appended DEF Sound
  <2>4. BuildKeydir(compact_log') = A
    BY <2>3, WholeIndex
  <2>5. /\ \A j : j # k => /\ j \in DOMAIN A <=> j \in DOMAIN C
                           /\ j \in DOMAIN C => A[j] = C[j]
        /\ k \in DOMAIN A
        /\ A[k] = [offset |-> Len(compact_log) + 2 + Len(k), size |-> Len(x)]
        /\ after[k] = [offset |-> Len(compact_log) + 2 + Len(k), size |-> Len(x)]
    BY <1>1, EnteredAt
  <2>6. /\ DOMAIN new = DOMAIN keydir \ compaction.todo
        /\ \A j \in DOMAIN new : j \in DOMAIN C /\ new[j] = C[j]
        /\ \A j \in DOMAIN new : ReadValue(compact_log, new[j]) = ReadValue(log, keydir[j])
    BY <2>1 DEF Sound, Copied, Agrees
  <2>. HIDE DEF A, after, new, x, C
  <2>7. Copied'
    <3>1. ASSUME NEW j \in DOMAIN after
          PROVE  /\ j \in DOMAIN A /\ after[j] = A[j]
                 /\ ReadValue(compact_log', after[j]) = ReadValue(log, keydir[j])
      <4>1. CASE j = k
        BY <2>3, <2>5, <4>1 DEF x
      <4>2. CASE j # k
        BY <1>4, <2>3, <2>5, <2>6, <4>2
      <4>. QED BY <4>1, <4>2
    <3>2. DOMAIN after = DOMAIN keydir \ (compaction.todo \ {k})
      <4>1. \A j : j \in DOMAIN after <=> j = k \/ j \in DOMAIN new
        BY <1>4
      <4>. QED BY <1>0, <2>6, <4>1
    <3>3. (DOMAIN compaction.new_keydir = DOMAIN keydir \ compaction.todo)'
      BY <1>3, <3>2
    <3>4. Agrees(compaction.new_keydir, compact_log)'
      BY <1>3, <2>4, <3>1 DEF Agrees
    <3>5. (\A j \in DOMAIN compaction.new_keydir :
             ReadValue(compact_log, compaction.new_keydir[j]) = ReadValue(log, keydir[j]))'
      BY <1>3, <3>1
    <3>6. (keydir = BuildKeydir(log))'
      BY <2>1
    <3>. QED BY <3>3, <3>4, <3>5, <3>6 DEF Copied
  <2>8. Uncut'
    <3>1. ~CrashInCompact => new = C
      BY <2>1 DEF Sound, Uncut, new, C
    <3>2. ~CrashInCompact => compaction'.new_keydir = BuildKeydir(compact_log')
      BY <1>3, <2>4, <3>1 DEF after, A
    <3>. QED BY <3>2 DEF Uncut
  <2>9. (Whole(log, BuildKeydir(log)) /\ Whole(compact_log, BuildKeydir(compact_log)))'
    <3>1. Whole(compact_log', BuildKeydir(compact_log'))
      BY <2>3, <2>4
    <3>. QED BY <2>1, <3>1 DEF Sound
  <2>10. Agrees(keydir, log)' /\ Acknowledged'
    BY <2>1 DEF Sound, Agrees, Acknowledged
  <2>. QED BY <2>7, <2>8, <2>9, <2>10 DEF Sound
<1>8. (torn # None => Cut /\ TornWrites)'
  BY DEF DInv, Cut
<1>9. Fresh'
  BY DEF DInv, Fresh
<1>. QED BY <1>6, <1>7, <1>8, <1>9 DEF DInv

LEMMA CompactEntryStep ==
  ASSUME DInv, CompactEntry
  PROVE  DInv'
<1>1. PICK k \in compaction.todo :
        LET x == ReadValue(log, keydir[k])
            e == EntryAt(compact_log, k, x)
        IN  \/ /\ x # Failed
               /\ compact_log' = compact_log \o Entry(k, x)
               /\ compaction' = [todo |-> compaction.todo \ {k},
                                 new_keydir |-> Insert(compaction.new_keydir, k, ValueAt(e, x))]
               /\ UNCHANGED <<engine, keydir>>
            \/ /\ x = Failed
               /\ engine' = "closed"
               /\ keydir' = Empty
               /\ compaction' = NoCompaction
               /\ UNCHANGED compact_log
  BY DEF CompactEntry
<1>2. engine = "compacting" /\ UNCHANGED <<log, acked, torn, fresh>>
  BY DEF CompactEntry
<1>3. CASE ReadValue(log, keydir[k]) # Failed
  BY <1>1, <1>2, <1>3, CopyStep
<1>4. CASE ReadValue(log, keydir[k]) = Failed
  <2>1. /\ engine' = "closed" /\ keydir' = Empty /\ compaction' = NoCompaction
        /\ compact_log' = compact_log
    BY <1>1, <1>4
  <2>2. torn # None
    <3>1. SUFFICES ASSUME torn = None PROVE FALSE
      OBVIOUS
    <3>2. Whole(log, keydir) /\ k \in DOMAIN keydir
      BY <1>2, <3>1 DEF DInv, Sound, Copied, Typed
    <3>. QED BY <1>4, <3>2, ValueRead
  <2>3. Typed'
    BY <1>2, <2>1, EmptyTyped DEF DInv, Typed, NoCompaction
  <2>. QED BY <1>2, <2>1, <2>2, <2>3 DEF DInv, Cut, Fresh
<1>. QED BY <1>3, <1>4

LEMMA CompactRenameStep ==
  ASSUME DInv, CompactRename
  PROVE  DInv'
<1>. DEFINE new == compaction.new_keydir
<1>1. Typed'
  BY EmptyTyped DEF DInv, Typed, CompactRename, NoCompaction
<1>2. (torn = None => Sound)'
  <2>. SUFFICES ASSUME torn = None PROVE Sound'
    BY DEF CompactRename
  <2>1. Sound
    BY DEF DInv
  <2>2. /\ keydir = BuildKeydir(log) /\ DOMAIN new = DOMAIN keydir
        /\ \A j \in DOMAIN new : j \in DOMAIN BuildKeydir(compact_log) /\ new[j] = BuildKeydir(compact_log)[j]
        /\ \A j \in DOMAIN new : ReadValue(compact_log, new[j]) = ReadValue(log, keydir[j])
    BY <2>1 DEF Sound, Copied, Agrees, CompactRename
  <2>3. (Whole(log, BuildKeydir(log)) /\ Whole(compact_log, BuildKeydir(compact_log)))'
    BY <2>1, EmptyTyped DEF Sound, CompactRename
  <2>4. Agrees(keydir, log)'
    BY <2>2 DEF Agrees, CompactRename
  <2>5. Acknowledged'
    <3>1. ASSUME NEW j \in Key, acked[j] # None
          PROVE  /\ j \in DOMAIN new /\ j \in DOMAIN BuildKeydir(compact_log)
                 /\ ReadValue(compact_log, BuildKeydir(compact_log)[j]) = acked[j]
      <4>1. j \in DOMAIN BuildKeydir(log) /\ ReadValue(log, BuildKeydir(log)[j]) = acked[j]
        BY <2>1, <3>1 DEF Sound, Acknowledged
      <4>. HIDE DEF new
      <4>. QED BY <2>2, <4>1
    <3>. QED BY <3>1 DEF Acknowledged, CompactRename
  <2>6. Copied' /\ Uncut'
    BY <2>1 DEF Sound, Copied, Uncut, CompactRename
  <2>. QED BY <2>3, <2>4, <2>5, <2>6 DEF Sound
<1>3. (torn # None => Cut /\ TornWrites)'
  BY DEF DInv, Cut, CompactRename
<1>4. Fresh'
  BY DEF DInv, Fresh, CompactRename
<1>. QED BY <1>1, <1>2, <1>3, <1>4 DEF DInv

LEMMA CrashStep ==
  ASSUME DInv, Crash
  PROVE  DInv'
<1>1. Typed'
  BY EmptyTyped DEF DInv, Typed, Crash, NoCompaction
<1>2. (torn = None => Sound)'
  <2>. SUFFICES ASSUME torn = None PROVE Sound'
    BY DEF Crash
  <2>1. Sound
    BY DEF DInv
  <2>2. Agrees(keydir, log)'
    BY EmptyIndex DEF Agrees, Crash
  <2>3. Acknowledged' /\ Copied'
    BY <2>1 DEF Sound, Acknowledged, Copied, Crash
  <2>4. Uncut'
    BY <2>1 DEF Sound, Uncut, Crash
  <2>. QED BY <2>1, <2>2, <2>3, <2>4 DEF Sound, Crash
<1>3. (torn # None => Cut /\ TornWrites)'
  BY DEF DInv, Cut, Crash
<1>4. Fresh'
  BY DEF Fresh, Crash
<1>. QED BY <1>1, <1>2, <1>3, <1>4 DEF DInv

LEMMA NextInv == DInv /\ [Next]_vars => DInv'
<1>. SUFFICES ASSUME DInv, [Next]_vars PROVE DInv'
  OBVIOUS
<1>1. CASE New
  BY <1>1, NewStep
<1>2. CASE NewCompact
  BY <1>2, NewCompactStep
<1>3. ASSUME NEW k \in Key, NEW x \in Value, Set(k, x) PROVE DInv'
  <2>1. Wrote(k, x)
    BY <1>3, Writing DEF DInv, Typed
  <2>. QED BY <2>1, WriteStep
<1>4. ASSUME NEW k \in Key, Delete(k) PROVE DInv'
  <2>1. Wrote(k, None)
    BY <1>4, Writing DEF DInv, Typed
  <2>. QED BY <2>1, WriteStep
<1>5. ASSUME NEW k \in Key, NEW x \in Value \cup {None}, NEW n \in 1..(Len(Entry(k, x)) - 1),
             CrashInWrite(k, x, n)
      PROVE  DInv'
  BY <1>5, CutStep
<1>6. CASE CompactEntry
  BY <1>6, CompactEntryStep
<1>7. CASE CompactRename
  BY <1>7, CompactRenameStep
<1>8. CASE Crash
  BY <1>8, CrashStep
<1>9. CASE UNCHANGED vars
  <2>1. Typed' /\ (torn # None => Cut /\ TornWrites)' /\ Fresh'
    BY <1>9 DEF DInv, vars, Typed, Cut, Fresh
  <2>2. (torn = None => Sound)'
    BY <1>9 DEF DInv, vars, Sound, Agrees, Acknowledged, Copied, Uncut
  <2>. QED BY <2>1, <2>2 DEF DInv
<1>. QED BY <1>1, <1>2, <1>3, <1>4, <1>5, <1>6, <1>7, <1>8, <1>9 DEF Next

(* The inductive invariant holds in every reachable state.                 *)
THEOREM EngineInvariant == Spec => []DInv
BY InitInv, NextInv, PTL DEF Spec

-----------------------------------------------------------------------------
(* The properties                                                          *)

(* No acknowledged value is lost whenever the process dies, while compact  *)
(* copies entries or renames its file included: build_keydir finds it in   *)
(* whichever file is the log, and so does get while the engine is open.    *)
THEOREM AckedValuesStayKept == Spec => []AckedValuesKept
<1>1. DInv => AckedValuesKept
  <2>. SUFFICES ASSUME DInv, torn = None, NEW k \in Key, acked[k] # None
                PROVE  Content[k] = acked[k]
    BY DEF AckedValuesKept
  <2>1. /\ k \in DOMAIN BuildKeydir(log) /\ ReadValue(log, BuildKeydir(log)[k]) = acked[k]
        /\ engine # "closed" => k \in DOMAIN keydir
        /\ \A j \in DOMAIN keydir : keydir[j] = BuildKeydir(log)[j]
    BY DEF DInv, Sound, Acknowledged, Agrees
  <2>. QED BY <2>1 DEF Content, Index
<1>. QED BY <1>1, EngineInvariant, PTL

(* What was written since the engine was opened is read back, deletions    *)
(* too, whatever the file ended with when it was opened.                   *)
THEOREM FreshWritesStayRead == Spec => []FreshWritesRead
<1>1. DInv => FreshWritesRead
  BY DEF DInv, Typed, Fresh, FreshWritesRead, Get
<1>. QED BY <1>1, EngineInvariant, PTL

LEMMA OthersKept ==
  ASSUME NEW file, NEW ix, ix = [j \in DOMAIN ix |-> ix[j]], NEW k, NEW x
  PROVE  Remove(Entered(ix, file, k, x), k) = Remove(ix, k)
<1>. DEFINE after == Entered(ix, file, k, x)
<1>1. /\ \A j : j # k => /\ j \in DOMAIN after <=> j \in DOMAIN ix
                         /\ j \in DOMAIN ix => after[j] = ix[j]
  BY EnteredAt
<1>. HIDE DEF after
<1>2. DOMAIN after \ {k} = DOMAIN ix \ {k}
  BY <1>1
<1>3. \A j \in DOMAIN ix \ {k} : after[j] = ix[j]
  BY <1>1
<1>4. Remove(after, k) = Remove(ix, k)
  BY <1>2, <1>3 DEF Remove, Restrict
<1>. QED BY <1>4 DEF after

(* After an append that was cut short, and before the next one, either the *)
(* engine does not open, when the cut is in the header or in the key, or   *)
(* its index is the one of the file before, but for the key written.       *)
THEOREM TornTailsAreContained == Spec => []TornTailContained
<1>1. DInv => TornTailContained
  <2>. SUFFICES ASSUME DInv, torn # None, log = torn.log
                PROVE  LET before == BuildKeydir(SubSeq(log, 1, Len(log) - torn.cut))
                           after  == BuildKeydir(log)
                       IN  IF torn.cut < LOG_HEADER_SIZE + Len(torn.key)
                           THEN after = Failed
                           ELSE after # Failed /\ Remove(after, torn.key) = Remove(before, torn.key)
    BY Zenon DEF TornTailContained
  <2>1. PICK file, ix : Whole(file, ix) /\
          \E k \in Key, x \in Value \cup {None} : \E n \in 1..(Len(Entry(k, x)) - 1) :
            torn = [key |-> k, cut |-> n, log |-> file \o SubSeq(Entry(k, x), 1, n)]
    BY DEF DInv, Cut
  <2>2. PICK k \in Key, x \in Value \cup {None} : \E n \in 1..(Len(Entry(k, x)) - 1) :
            torn = [key |-> k, cut |-> n, log |-> file \o SubSeq(Entry(k, x), 1, n)]
    BY <2>1
  <2>3. PICK n \in 1..(Len(Entry(k, x)) - 1) :
            torn = [key |-> k, cut |-> n, log |-> file \o SubSeq(Entry(k, x), 1, n)]
    BY <2>2
  <2>4. torn.key = k /\ torn.cut = n /\ log = file \o SubSeq(Entry(k, x), 1, n)
    BY <2>3
  <2>5. /\ SubSeq(log, 1, Len(log) - n) = file
        /\ n < 2 + Len(k) => BuildKeydir(log) = Failed
        /\ n >= 2 + Len(k) => BuildKeydir(log) = Entered(ix, file, k, x)
    <3>1. Whole(file, ix)
      BY <2>1
    <3>2. LET f == file \o SubSeq(Entry(k, x), 1, n)
          IN  /\ f \in Seq(Cell) /\ SubSeq(f, 1, Len(f) - n) = file
              /\ n < 2 + Len(k) => BuildKeydir(f) = Failed
              /\ n >= 2 + Len(k) => BuildKeydir(f) = Entered(ix, file, k, x)
      BY <3>1, CutShort
    <3>. QED BY <2>4, <3>2, Zenon
  <2>6. BuildKeydir(file) = ix
    BY <2>1, WholeIndex
  <2>7. CASE n < 2 + Len(k)
    BY <2>4, <2>5, <2>7 DEF LOG_HEADER_SIZE
  <2>8. CASE ~(n < 2 + Len(k))
    <3>1. k \in Seq(Cell) /\ (x = None \/ x \in Seq(Cell)) /\ file \in Seq(Cell)
          /\ IsIndex(ix, Key) /\ Len(k) \in Nat
      BY <2>1, BytesAreCells, LenProperties DEF Whole
    <3>2. n \in Nat
      <4>1. /\ Len(Entry(k, x)) = 2 + Len(k) + ValueLen(x) /\ ValueLen(x) \in Nat
        BY <3>1, EntryCells
      <4>. QED BY <3>1, <4>1
    <3>3. n >= 2 + Len(k)
      BY <2>8, <3>1, <3>2
    <3>4. Entered(ix, file, k, x) # Failed
      <4>1. IsIndex(Entered(ix, file, k, x), Key)
        BY <3>1, EnteredIndex
      <4>. QED BY <4>1, IndexNotFailed
    <3>5. ix = [j \in DOMAIN ix |-> ix[j]]
      BY <3>1 DEF IsIndex
    <3>6. Remove(Entered(ix, file, k, x), k) = Remove(ix, k)
      BY <3>5, OthersKept
    <3>. QED BY <2>4, <2>5, <2>6, <2>8, <3>3, <3>4, <3>6 DEF LOG_HEADER_SIZE
  <2>. QED BY <2>7, <2>8
<1>. QED BY <1>1, EngineInvariant, PTL

(* When neither a compaction nor an append can be cut short, the index     *)
(* kept up to date by set, delete and compact is, to the offset, the one   *)
(* build_keydir would read back from the file.                             *)
THEOREM KeydirStaysExact ==
  ASSUME ~CrashInCompact, ~TornWrites
  PROVE  Spec => []KeydirMatchesLog
<1>1. DInv => KeydirMatchesLog
  BY DEF DInv, Typed, Sound, Copied, Uncut, KeydirMatchesLog
<1>. QED BY <1>1, EngineInvariant, PTL

-----------------------------------------------------------------------------
(* The refinement                                                          *)

\* What is in a file: the map it stands for.
Held(file) ==
    [k \in Key |-> IF k \in DOMAIN BuildKeydir(file) THEN ReadValue(file, BuildKeydir(file)[k])
                                                      ELSE None]

LEMMA HeldWritten ==
  ASSUME NEW file, Whole(file, BuildKeydir(file)), NEW k \in Key, NEW x \in Value \cup {None}
  PROVE  Held(file \o Entry(k, x)) = [Held(file) EXCEPT ![k] = x]
<1>. DEFINE f == file \o Entry(k, x)
            B == BuildKeydir(file)
            A == Entered(B, file, k, x)
<1>1. /\ Whole(f, A)
      /\ \A j \in DOMAIN B : ReadValue(f, B[j]) = ReadValue(file, B[j])
      /\ x # None => ReadValue(f, A[k]) = x
  BY Appended
<1>2. BuildKeydir(f) = A
  BY <1>1, WholeIndex
<1>3. /\ \A j : j # k => /\ j \in DOMAIN A <=> j \in DOMAIN B
                         /\ j \in DOMAIN B => A[j] = B[j]
      /\ k \in DOMAIN A <=> x # None
  BY EnteredAt
<1>. HIDE DEF A, B, f
<1>4. ASSUME NEW j \in Key
      PROVE  (IF j \in DOMAIN A THEN ReadValue(f, A[j]) ELSE None) =
             IF j = k THEN x ELSE IF j \in DOMAIN B THEN ReadValue(file, B[j]) ELSE None
  <2>1. CASE j = k
    BY <1>1, <1>3, <2>1
  <2>2. CASE j # k
    BY <1>1, <1>3, <2>2
  <2>. QED BY <2>1, <2>2
<1>5. Held(f) = [j \in Key |-> IF j \in DOMAIN A THEN ReadValue(f, A[j]) ELSE None]
  BY <1>2 DEF Held
<1>6. Held(file) = [j \in Key |-> IF j \in DOMAIN B THEN ReadValue(file, B[j]) ELSE None]
  BY DEF Held, B
<1>7. Held(f) = [Held(file) EXCEPT ![k] = x]
  BY <1>4, <1>5, <1>6
<1>. QED BY <1>7 DEF f

LEMMA ContentHeld ==
  ASSUME ~CrashInCompact, ~TornWrites, DInv
  PROVE  Content = Held(log)
<1>1. engine # "closed" => keydir = BuildKeydir(log)
  BY DEF DInv, Typed, Sound, Copied, Uncut
<1>2. Index = BuildKeydir(log)
  BY <1>1 DEF Index
<1>. QED BY <1>2 DEF Content, Held

LEMMA StepRefines ==
  ASSUME ~CrashInCompact, ~TornWrites, DInv, DInv'
  PROVE  /\ \A k \in Key : /\ \A x \in Value : Set(k, x) => Map!Set(k, x)
                           /\ Delete(k) => Map!Delete(k)
         /\ New \/ NewCompact \/ CompactEntry \/ CompactRename \/ Crash => Map!Internal
<1>0. Content = Held(log) /\ Content' = Held(log')
  <2>1. Content = Held(log)
    BY ContentHeld
  <2>2. ASSUME DInv PROVE (engine # "closed" => keydir = BuildKeydir(log))
    BY <2>2 DEF DInv, Typed, Sound, Copied, Uncut
  <2>3. (engine # "closed" => keydir = BuildKeydir(log))'
    BY DEF DInv, Typed, Sound, Copied, Uncut
  <2>4. Index' = BuildKeydir(log')
    BY <2>3 DEF Index
  <2>5. Content' = Held(log')
    BY <2>4 DEF Content, Held
  <2>. QED BY <2>1, <2>5
<1>1. torn = None /\ Sound /\ log \in Seq(Cell)
  BY DEF DInv, Typed
<1>2. ASSUME NEW k \in Key, NEW x \in Value \cup {None}, Wrote(k, x)
      PROVE  Content' = [Content EXCEPT ![k] = x]
  <2>1. Whole(log, BuildKeydir(log)) /\ log' = log \o Entry(k, x)
    BY <1>1, <1>2 DEF Sound, Wrote
  <2>. QED BY <1>0, <2>1, HeldWritten
<1>3. ASSUME log' = log PROVE Content' = Content
  BY <1>0, <1>3
<1>4. ASSUME New PROVE Map!Internal
  BY <1>3, <1>4 DEF New, Map!Internal
<1>5. ASSUME NewCompact PROVE Map!Internal
  BY <1>3, <1>5 DEF NewCompact, Map!Internal
<1>6. ASSUME NEW k \in Key, NEW x \in Value, Set(k, x) PROVE Map!Set(k, x)
  <2>1. Wrote(k, x)
    BY <1>1, <1>6, Writing
  <2>2. Content' = [Content EXCEPT ![k] = x]
    BY <1>2, <2>1
  <2>. QED BY <2>2 DEF Map!Set
<1>7. ASSUME NEW k \in Key, Delete(k) PROVE Map!Delete(k)
  <2>1. Wrote(k, None)
    BY <1>1, <1>7, Writing
  <2>2. Content' = [Content EXCEPT ![k] = None]
    BY <1>2, <2>1
  <2>. QED BY <2>2 DEF Map!Delete
<1>8. ASSUME CompactEntry PROVE Map!Internal
  BY <1>3, <1>8 DEF CompactEntry, Map!Internal
<1>9. ASSUME CompactRename PROVE Map!Internal
  <2>1. /\ keydir = BuildKeydir(log) /\ compaction.new_keydir = BuildKeydir(compact_log)
        /\ DOMAIN compaction.new_keydir = DOMAIN keydir
        /\ \A j \in DOMAIN compaction.new_keydir :
             ReadValue(compact_log, compaction.new_keydir[j]) = ReadValue(log, keydir[j])
    BY <1>1, <1>9 DEF Sound, Copied, Uncut, CompactRename
  <2>2. Held(compact_log) = Held(log)
    BY <2>1 DEF Held
  <2>. QED BY <1>0, <1>9, <2>2 DEF CompactRename, Map!Internal
<1>10. ASSUME Crash PROVE Map!Internal
  BY <1>3, <1>10 DEF Crash, Map!Internal
<1>. QED BY <1>4, <1>5, <1>6, <1>7, <1>8, <1>9, <1>10

(* When neither a compaction nor an append can be cut short, the log with  *)
(* its index is an ordered map: set and delete are the map's, and opening, *)
(* compacting and dying change nothing of what it holds.                   *)
THEOREM EngineIsAMap ==
  ASSUME ~CrashInCompact, ~TornWrites
  PROVE  Spec => ImplementsKvEngine
<1>1. Init => Map!Init
  <2>. SUFFICES ASSUME Init PROVE Map!Init
    OBVIOUS
  <2>1. Index = Empty
    BY EmptyTyped DEF Init, Index
  <2>. QED BY <2>1, EmptyIndex DEF Map!Init, Content
<1>2. DInv /\ DInv' =>
        /\ \A k \in Key : /\ \A x \in Value : Set(k, x) => Map!Set(k, x)
                          /\ Delete(k) => Map!Delete(k)
        /\ New \/ NewCompact \/ CompactEntry \/ CompactRename \/ Crash => Map!Internal
  BY StepRefines
<1>. QED BY <1>1, <1>2, EngineInvariant, PTL DEF Spec, ImplementsKvEngine

=============================================================================
