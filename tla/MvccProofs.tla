----------------------------- MODULE MvccProofs -----------------------------
(***************************************************************************)
(* Proofs about the transaction layer, for any sets of sessions, keys and  *)
(* values and any bound on versions: first with operations as one step     *)
(* (Mvcc), then one engine write at a time (MvccSteps), with crashes and   *)
(* failing writes of any kinds.                                            *)
(***************************************************************************)
EXTENDS MvccSteps, WellFoundedInduction, FiniteSetTheorems, SequenceTheorems, TLAPS

(* A non-empty set of naturals has a least element.                        *)
LEMMA LeastNatural ==
  ASSUME NEW T \in SUBSET Nat, T # {}
  PROVE  \E n \in T : \A m \in T : n <= m
<1>. DEFINE R == OpToRel(<, Nat)
<1>1. IsWellFoundedOn(R, Nat)
  BY NatLessThanWellFounded, Zenon
<1>2. \A m, n \in Nat : m < n => <<m, n>> \in R
  BY Zenon DEF OpToRel
<1>. HIDE DEF R
<1>3. PICK n \in T : \A m \in T : ~(<<m, n>> \in R)
  BY <1>1, WFMin
<1>4. \A m \in T : ~(m < n)
  BY <1>2, <1>3
<1>5. \A m \in T : n <= m
  BY <1>4
<1>. QED BY <1>5

(* The version arithmetic of scans: a non-empty set of versions has a last *)
(* and a first element, and Max and Min are these.                         *)
LEMMA LastVersion ==
  ASSUME NEW S \in SUBSET Version, S # {}
  PROVE  Max(S) \in S /\ \A v \in S : v <= Max(S)
<1>. DEFINE T == {n \in Nat : \E v \in S : n = MaxVersion - v}
<1>1. MaxVersion \in Nat /\ \A v \in S : v \in Nat /\ v <= MaxVersion
  BY MaxVersionAssumption DEF Version
<1>2. \A v \in S : MaxVersion - v \in T
  BY <1>1
<1>3. PICK n \in T : \A m \in T : n <= m
  <2>. HIDE DEF T
  <2>1. T # {}
    BY <1>2
  <2>2. T \in SUBSET Nat
    BY DEF T
  <2>. QED BY <2>1, <2>2, LeastNatural
<1>4. PICK x \in S : n = MaxVersion - x
  BY <1>3
<1>5. \A v \in S : x >= v
  <2>. SUFFICES ASSUME NEW v \in S PROVE x >= v
    OBVIOUS
  <2>1. MaxVersion - v \in T
    BY <1>2
  <2>2. MaxVersion - x <= MaxVersion - v
    BY <2>1, <1>3, <1>4
  <2>. QED BY <2>2, <1>1, <1>4
<1>6. Max(S) \in S /\ \A v \in S : Max(S) >= v
  BY <1>5 DEF Max
<1>. QED BY <1>6, <1>1

(* The same for the first element, where the conflict scan starts.         *)
LEMMA FirstVersion ==
  ASSUME NEW S \in SUBSET Version, S # {}
  PROVE  Min(S) \in S /\ \A v \in S : Min(S) <= v
<1>1. S \in SUBSET Nat
  BY MaxVersionAssumption DEF Version
<1>2. PICK n \in S : \A m \in S : n <= m
  BY <1>1, LeastNatural
<1>. QED BY <1>2 DEF Min

-----------------------------------------------------------------------------
(* What the invariant says about one handle.                               *)

(* A live handle is a well-formed TransactionState.                        *)
LEMMA HandleType ==
  ASSUME TypeOK, NEW s \in Session, txn[s] # NoTxn
  PROVE  /\ txn[s] \in TransactionState
         /\ txn[s].version \in Version
         /\ txn[s].active_versions \in SUBSET Version
         /\ s \in Live
BY DEF TypeOK, Live, TransactionState

(* A transaction sees no version of another transaction that is active:    *)
(* is_visible rejects it by its number or by the active list.              *)
LEMMA OtherActiveUnseen ==
  ASSUME Ordered, NEW s \in Session, txn[s] # NoTxn,
         NEW u \in txn_active, u # txn[s].version
  PROVE  ~IsVisible(txn[s], u)
<1>1. txn[s].version \in Version /\ s \in Live /\ txn_active \subseteq Version
  BY HandleType DEF Ordered, TypeOK
<1>2. u \in Nat /\ txn[s].version \in Nat
  BY <1>1, MaxVersionAssumption DEF Version
<1>3. CASE u < txn[s].version
  BY <1>3, <1>1 DEF Ordered, OlderActiveKnown, IsVisible
<1>4. CASE txn[s].version < u
  BY <1>4, <1>2 DEF IsVisible
<1>. QED BY <1>2, <1>3, <1>4

(* write_inner's check of one version decides about all of them.           *)
LEMMA OneVersionDecides ==
  ASSUME Ordered, NEW s \in Session, txn[s] # NoTxn, NEW k \in Key
  PROVE  WriteConflict(txn[s], k) <=> \E v \in Held(k) : ~IsVisible(txn[s], v)
<1>. DEFINE t == txn[s]
            range == Scan(k, ConflictFrom(t), MaxVersion)
<1>1. /\ t.version \in Nat
      /\ t.active_versions \in SUBSET Version
      /\ s \in Live
  BY HandleType, MaxVersionAssumption DEF Ordered, Version
<1>2. range \in SUBSET Held(k) /\ range \in SUBSET Version
  BY DEF Scan, Held
<1>3. \A v \in Version : v \in Nat /\ v <= MaxVersion
  BY MaxVersionAssumption DEF Version
<1>4. ASSUME WriteConflict(t, k)
      PROVE  \E v \in Held(k) : ~IsVisible(t, v)
  BY <1>4, <1>2, LastVersion DEF WriteConflict
<1>5. ASSUME NEW u \in Held(k), ~IsVisible(t, u)
      PROVE  WriteConflict(t, k)
  <2>1. u \in Version /\ u \in Nat
    BY <1>3 DEF Held
  <2>2. u \in t.active_versions \/ t.version < u
    BY <1>5, <1>1, <2>1 DEF IsVisible
  <2>3. ConflictFrom(t) <= u
    <3>1. CASE t.active_versions = {}
      <4>1. t.version + 1 <= u
        BY <3>1, <2>2, <1>1, <2>1
      <4>. QED BY <4>1, <3>1 DEF ConflictFrom
    <3>2. CASE t.active_versions # {}
      <4>1. /\ Min(t.active_versions) \in t.active_versions
            /\ \A v \in t.active_versions : Min(t.active_versions) <= v
        BY <3>2, <1>1, FirstVersion
      <4>2. \A v \in t.active_versions : v < t.version
        BY <1>1 DEF Ordered, HandlesActive
      <4>3. Min(t.active_versions) \in Nat /\ Min(t.active_versions) < t.version
        BY <4>1, <4>2, <1>1, <1>3
      <4>4. Min(t.active_versions) <= u
        BY <4>1, <4>3, <2>2, <2>1, <1>1
      <4>. QED BY <4>4, <3>2 DEF ConflictFrom
    <3>. QED BY <3>1, <3>2
  <2>4. u \in range
    BY <2>1, <2>3, <1>3 DEF Scan
  <2>5. PICK m \in range : m = Max(range) /\ u <= m
    BY <2>4, <1>2, LastVersion
  <2>6. m \in Held(k) /\ m \in Nat
    BY <1>2, <1>3
  <2>7. ~IsVisible(t, m)
    <3>1. CASE m = u
      BY <3>1, <1>5
    <3>2. CASE u < m /\ u \in t.active_versions
      BY <3>2, <2>6, <1>1 DEF Ordered, NothingSeenOverUnseen
    <3>3. CASE u < m /\ t.version < u
      BY <3>3, <2>6, <2>1, <1>1 DEF IsVisible
    <3>. QED BY <3>1, <3>2, <3>3, <2>2, <2>5, <2>6, <2>1
  <2>. QED BY <2>4, <2>5, <2>7 DEF WriteConflict
<1>. QED BY <1>4, <1>5

-----------------------------------------------------------------------------
(* Each write of the engine preserves the order of versions and handles.   *)

\* What the operations do to the handles, the active list and the versions.
Registers(s, n) ==
    /\ txn[s] = NoTxn
    /\ txn' = [txn EXCEPT ![s] = [version |-> n, active_versions |-> txn_active]]
    /\ txn_active' = txn_active \cup {n}
    /\ UNCHANGED versions

Puts(s, k, x) ==
    /\ txn[s] # NoTxn
    /\ ~WriteConflict(txn[s], k)
    /\ versions' = [versions EXCEPT ![k][txn[s].version] = x]
    /\ UNCHANGED <<txn_active, txn>>

Ends(s) ==
    /\ txn[s] # NoTxn
    /\ txn' = [txn EXCEPT ![s] = NoTxn]
    /\ txn_active' = txn_active \ {txn[s].version}

OnlyRemoves == \A k \in Key : \A v \in Version : versions'[k][v] \in {versions[k][v], Absent}

(* A new handle: its version is larger than every other, and the list it   *)
(* carries holds everything that is in progress.                           *)
LEMMA RegisterKeepsOrder ==
  ASSUME Ordered, TypeOK', NEW s \in Session, NEW n, Fresh(n), Registers(s, n),
         n < next_version'
  PROVE  Ordered'
<1>1. /\ n \in Version /\ n \in Nat
      /\ txn_active \in SUBSET Version
      /\ next_version' \in Nat
      /\ \A v \in Version : v \in Nat
  BY MaxVersionAssumption DEF Ordered, TypeOK, Fresh, Version
<1>2. /\ txn'[s] = [version |-> n, active_versions |-> txn_active]
      /\ txn'[s].version = n /\ txn'[s].active_versions = txn_active
      /\ \A r \in Session : r # s => txn'[r] = txn[r]
  BY DEF Ordered, TypeOK, Registers
<1>3. \A r \in Live' : r = s \/ (r \in Live /\ r # s /\ txn'[r] = txn[r])
  BY <1>2 DEF Live
<1>4. \A r \in Live : txn[r].version \in txn_active /\ txn[r].version < n
  BY DEF Ordered, HandlesActive, Fresh
<1>5. \A k \in Key : Held(k)' = Held(k)
  BY DEF Registers, Held
<1>6. \A v \in txn_active' : v = n \/ v \in txn_active
  BY DEF Registers
<1>7. \A k \in Key : \A v \in Held(k) : v \in Nat /\ v < n
  BY <1>1 DEF Fresh, Held
<1>8. \A v \in txn_active : v \in Nat /\ v < n
  BY <1>1 DEF Fresh
<1>9. VersionsAllocated'
  <2>1. \A v \in Nat : v < n => v < next_version'
    BY <1>1
  <2>2. \A k \in Key : \A v \in Held(k)' : v < next_version'
    BY <2>1, <1>5, <1>7
  <2>3. \A v \in txn_active' : v < next_version'
    BY <2>1, <1>6, <1>8
  <2>. QED BY <2>2, <2>3 DEF VersionsAllocated
<1>10. HandlesActive'
  <2>. SUFFICES ASSUME NEW r \in Live', NEW q \in Live'
                PROVE  /\ txn'[r].version \in txn_active'
                       /\ \A u \in txn'[r].active_versions : u < txn'[r].version
                       /\ txn'[q].version = txn'[r].version => q = r
    BY DEF HandlesActive
  <2>1. CASE r = s
    <3>1. q # s => txn'[q].version \in Nat /\ txn'[q].version < n
      BY <1>1, <1>3, <1>4
    <3>2. txn'[r].version = n /\ txn'[r].active_versions = txn_active /\ n \in txn_active'
      BY <2>1, <1>2 DEF Registers
    <3>3. txn'[q].version = n => q = s
      BY <3>1, <1>1
    <3>. QED BY <2>1, <3>2, <3>3, <1>8
  <2>2. CASE r # s /\ q # s
    BY <2>2, <1>3 DEF Ordered, HandlesActive, Registers
  <2>3. CASE r # s /\ q = s
    BY <2>3, <1>1, <1>2, <1>3, <1>4 DEF Ordered, HandlesActive, Registers
  <2>. QED BY <2>1, <2>2, <2>3
<1>11. OlderActiveKnown'
  <2>. SUFFICES ASSUME NEW r \in Live', NEW u \in txn_active', u < txn'[r].version
                PROVE  u \in txn'[r].active_versions
    BY DEF OlderActiveKnown
  <2>1. CASE r = s
    BY <2>1, <1>1, <1>2, <1>6
  <2>2. CASE r # s
    <3>1. r \in Live /\ txn'[r] = txn[r] /\ txn[r].version \in Nat
      BY <2>2, <1>1, <1>3, <1>4
    <3>2. u \in txn_active
      BY <3>1, <1>1, <1>4, <1>6
    <3>. QED BY <3>1, <3>2 DEF Ordered, OlderActiveKnown
  <2>. QED BY <2>1, <2>2
<1>12. OnlyNewestUncommitted'
  BY <1>1, <1>5, <1>6, <1>7 DEF Ordered, OnlyNewestUncommitted
<1>13. NothingSeenOverUnseen'
  <2>. SUFFICES ASSUME NEW r \in Live', NEW k \in Key, NEW u \in Held(k), NEW m \in Held(k),
                       u \in txn'[r].active_versions, u < m
                PROVE  ~IsVisible(txn'[r], m)
    BY <1>5 DEF NothingSeenOverUnseen, IsVisible
  <2>1. CASE r = s
    <3>1. u \in txn_active
      BY <2>1, <1>2
    <3>2. m <= u
      BY <3>1 DEF Ordered, OnlyNewestUncommitted
    <3>. QED BY <3>2, <1>7
  <2>2. CASE r # s
    BY <2>2, <1>3 DEF Ordered, NothingSeenOverUnseen
  <2>. QED BY <2>1, <2>2
<1>. QED BY <1>9, <1>10, <1>11, <1>12, <1>13 DEF Ordered

(* The write of a version: only where its transaction sees every other, so *)
(* its own becomes the newest, over nothing that is in progress.           *)
LEMMA PutKeepsOrder ==
  ASSUME Ordered, TypeOK', NEW s \in Session, NEW k \in Key, NEW x \in Opt,
         Puts(s, k, x), next_version' = next_version
  PROVE  Ordered'
<1>. DEFINE w == txn[s].version
<1>1. /\ s \in Live /\ w \in Version /\ w \in txn_active
      /\ \A v \in Version : v \in Nat
      /\ txn_active \in SUBSET Version
  BY HandleType, MaxVersionAssumption
  DEF Ordered, Puts, HandlesActive, TypeOK, Version
<1>2. /\ txn' = txn /\ txn_active' = txn_active
      /\ Live' = Live
  BY DEF Puts, Live
<1>3. x # Absent
  BY MarkersAssumption DEF Opt
<1>4. Held(k)' = Held(k) \cup {w}
  BY <1>1, <1>3 DEF Held, Puts, Ordered, TypeOK
<1>5. \A j \in Key : j # k => Held(j)' = Held(j)
  BY DEF Held, Puts, Ordered, TypeOK
<1>6. \A v \in Held(k) : IsVisible(txn[s], v)
  BY OneVersionDecides DEF Puts
<1>7. \A v \in Held(k) : v <= w
  BY <1>6 DEF IsVisible
<1>8. \A v \in Held(k) \cap txn_active : v = w
  BY <1>6, OtherActiveUnseen DEF Puts
<1>9. VersionsAllocated'
  <2>1. w < next_version
    BY <1>1 DEF Ordered, VersionsAllocated
  <2>. QED BY <2>1, <1>2, <1>4, <1>5 DEF Ordered, VersionsAllocated
<1>10. HandlesActive' /\ OlderActiveKnown'
  BY <1>2 DEF Ordered, HandlesActive, OlderActiveKnown
<1>11. OnlyNewestUncommitted'
  <2>. SUFFICES ASSUME NEW j \in Key, NEW v \in Held(j)', v \in txn_active, NEW u \in Held(j)'
                PROVE  u <= v
    BY <1>2 DEF OnlyNewestUncommitted
  <2>1. CASE j = k
    <3>1. v = w
      BY <2>1, <1>4, <1>8
    <3>. QED BY <3>1, <2>1, <1>1, <1>4, <1>7
  <2>2. CASE j # k
    BY <2>2, <1>5 DEF Ordered, OnlyNewestUncommitted
  <2>. QED BY <2>1, <2>2
<1>12. NothingSeenOverUnseen'
  <2>. SUFFICES ASSUME NEW r \in Live, NEW j \in Key, NEW u \in Held(j)', NEW m \in Held(j)',
                       u \in txn[r].active_versions, u < m
                PROVE  ~IsVisible(txn[r], m)
    BY <1>2 DEF NothingSeenOverUnseen, IsVisible
  <2>1. CASE j # k \/ (u # w /\ m # w)
    BY <2>1, <1>4, <1>5 DEF Ordered, NothingSeenOverUnseen
  <2>2. CASE j = k /\ u = w
    <3>1. w \in Nat /\ m \in Nat
      BY <1>1 DEF Held
    <3>2. m <= w
      BY <2>2, <3>1, <1>4, <1>7
    <3>. QED BY <2>2, <3>1, <3>2
  <2>3. CASE j = k /\ u # w /\ m = w /\ r = s
    BY <2>3, <1>4, <1>6 DEF IsVisible
  <2>4. CASE j = k /\ m = w /\ r # s
    <3>1. txn[r].version # w
      BY <2>4, <1>1 DEF Ordered, HandlesActive
    <3>. QED BY <3>1, <2>4, <1>1, OtherActiveUnseen DEF Live
  <2>. QED BY <2>1, <2>2, <2>3, <2>4
<1>. QED BY <1>9, <1>10, <1>11, <1>12 DEF Ordered

(* The end of a transaction: one fewer handle and one fewer active         *)
(* version; no version appears.                                            *)
LEMMA EndKeepsOrder ==
  ASSUME Ordered, TypeOK', NEW s \in Session, Ends(s), OnlyRemoves,
         next_version' = next_version
  PROVE  Ordered'
<1>. DEFINE w == txn[s].version
<1>1. /\ s \in Live /\ w \in txn_active
  BY HandleType DEF Ordered, Ends, HandlesActive
<1>2. \A r \in Live' : r \in Live /\ r # s /\ txn'[r] = txn[r] /\ txn[r].version # w
  BY <1>1 DEF Ends, Live, Ordered, TypeOK, HandlesActive
<1>3. \A k \in Key : \A v \in Held(k)' : v \in Held(k)
  BY DEF OnlyRemoves, Held
<1>4. VersionsAllocated'
  BY <1>3 DEF Ordered, VersionsAllocated, Ends
<1>5. HandlesActive'
  BY <1>2 DEF Ordered, HandlesActive, Ends
<1>6. OlderActiveKnown'
  BY <1>2 DEF Ordered, OlderActiveKnown, Ends
<1>7. OnlyNewestUncommitted'
  BY <1>3 DEF Ordered, OnlyNewestUncommitted, Ends
<1>8. NothingSeenOverUnseen'
  BY <1>2, <1>3 DEF Ordered, NothingSeenOverUnseen, IsVisible
<1>. QED BY <1>4, <1>5, <1>6, <1>7, <1>8 DEF Ordered

(* Everything else leaves the active list alone: versions and handles may  *)
(* get lost, numbers may be skipped.                                       *)
LEMMA LossKeepsOrder ==
  ASSUME Ordered, TypeOK', txn_active' = txn_active, OnlyRemoves,
         next_version <= next_version',
         \A r \in Session : txn'[r] \in {txn[r], NoTxn}
  PROVE  Ordered'
<1>1. \A r \in Live' : r \in Live /\ txn'[r] = txn[r]
  BY DEF Live
<1>2. \A k \in Key : \A v \in Held(k)' : v \in Held(k)
  BY DEF OnlyRemoves, Held
<1>3. /\ next_version \in Nat /\ next_version' \in Nat
      /\ txn_active \in SUBSET Version
      /\ \A v \in Version : v \in Nat
  BY MaxVersionAssumption DEF Ordered, TypeOK, Version
<1>4. VersionsAllocated'
  <2>1. \A k \in Key : \A v \in Held(k)' : v \in Nat /\ v < next_version
    BY <1>2, <1>3 DEF Ordered, VersionsAllocated, Held
  <2>2. \A v \in txn_active : v \in Nat /\ v < next_version
    BY <1>3 DEF Ordered, VersionsAllocated
  <2>. QED BY <2>1, <2>2, <1>3 DEF VersionsAllocated
<1>5. HandlesActive'
  BY <1>1 DEF Ordered, HandlesActive
<1>6. OlderActiveKnown'
  BY <1>1 DEF Ordered, OlderActiveKnown
<1>7. OnlyNewestUncommitted'
  BY <1>2 DEF Ordered, OnlyNewestUncommitted
<1>8. NothingSeenOverUnseen'
  BY <1>1, <1>2 DEF Ordered, NothingSeenOverUnseen, IsVisible
<1>. QED BY <1>4, <1>5, <1>6, <1>7, <1>8 DEF Ordered

-----------------------------------------------------------------------------
(* Each operation preserves the invariant.                                 *)

(* Every version there is was handed out before the next one.              *)
LEMMA NextIsFresh ==
  ASSUME Ordered
  PROVE  Fresh(next_version)
BY DEF Ordered, TypeOK, VersionsAllocated, Fresh

(* begin registers a new version, which has written nothing.               *)
LEMMA BeginKeepsInv ==
  ASSUME Inv, NEW s \in Session, Begin(s)
  PROVE  Inv'
<1>. DEFINE n == next_version
<1>1. /\ n \in Version /\ n \in Nat /\ n + 1 \in Version
      /\ \A v \in Version : v \in Nat
  BY MaxVersionAssumption DEF Inv, Ordered, TypeOK, Begin, Version
<1>2. Fresh(n) /\ Registers(s, n)
  BY NextIsFresh DEF Inv, Begin, Registers
<1>3. TypeOK'
  BY <1>1 DEF Inv, Ordered, TypeOK, Begin, TransactionState
<1>4. Ordered'
  BY <1>1, <1>2, <1>3, RegisterKeepsOrder DEF Inv, Begin
<1>5. \A k \in Key : Held(k)' = Held(k)
  BY DEF Begin, Held
<1>6. WriteLogExact'
  <2>. SUFFICES ASSUME NEW v \in Version
                PROVE  txn_write[v] = IF v \in txn_active' THEN {k \in Key : v \in Held(k)'} ELSE {}
    BY DEF WriteLogExact, Begin
  <2>1. CASE v = n
    <3>1. n \notin txn_active
      BY <1>1, <1>2 DEF Fresh
    <3>2. {k \in Key : v \in Held(k)'} = {}
      BY <2>1, <1>1, <1>2, <1>5 DEF Fresh
    <3>. QED BY <2>1, <3>1, <3>2 DEF Inv, WriteLogExact
  <2>2. CASE v # n
    <3>1. v \in txn_active' <=> v \in txn_active
      BY <2>2 DEF Begin
    <3>2. {k \in Key : v \in Held(k)'} = {k \in Key : v \in Held(k)}
      BY <1>5
    <3>. QED BY <3>1, <3>2 DEF Inv, WriteLogExact
  <2>. QED BY <2>1, <2>2
<1>. QED BY <1>4, <1>6 DEF Inv

(* write_inner puts a version and logs its key.                            *)
LEMMA WriteInnerKeepsInv ==
  ASSUME Inv, NEW s \in Session, NEW k \in Key, NEW x \in Opt, WriteInner(s, k, x)
  PROVE  Inv'
<1>. DEFINE w == txn[s].version
<1>1. /\ w \in Version /\ w \in txn_active
  BY HandleType DEF Inv, Ordered, WriteInner, HandlesActive
<1>2. Puts(s, k, x)
  BY DEF WriteInner, Puts
<1>3. TypeOK'
  <2>1. versions' \in [Key -> [Version -> Opt \cup {Absent}]]
    BY <1>1 DEF WriteInner, Inv, Ordered, TypeOK
  <2>2. txn_write' \in [Version -> SUBSET Key]
    BY <1>1 DEF WriteInner, Inv, Ordered, TypeOK
  <2>. QED BY <2>1, <2>2 DEF Inv, Ordered, TypeOK, WriteInner
<1>4. Ordered'
  BY <1>2, <1>3, PutKeepsOrder DEF Inv, WriteInner
<1>5. \A j \in Key : Held(j)' = IF j = k THEN Held(j) \cup {w} ELSE Held(j)
  BY <1>1, MarkersAssumption DEF Held, WriteInner, Inv, Ordered, TypeOK, Opt
<1>6. WriteLogExact'
  <2>. SUFFICES ASSUME NEW v \in Version
                PROVE  txn_write'[v] = IF v \in txn_active THEN {j \in Key : v \in Held(j)'} ELSE {}
    BY DEF WriteLogExact, WriteInner
  <2>1. txn_write[v] = IF v \in txn_active THEN {j \in Key : v \in Held(j)} ELSE {}
    BY DEF Inv, WriteLogExact
  <2>2. CASE v = w
    <3>1. txn_write'[v] = txn_write[v] \cup {k}
      BY <2>2, <1>1 DEF WriteInner, Inv, Ordered, TypeOK
    <3>2. {j \in Key : v \in Held(j)'} = {j \in Key : v \in Held(j)} \cup {k}
      BY <2>2, <1>5
    <3>. QED BY <2>1, <2>2, <3>1, <3>2, <1>1
  <2>3. CASE v # w
    <3>1. txn_write'[v] = txn_write[v]
      BY <2>3 DEF WriteInner, Inv, Ordered, TypeOK
    <3>2. {j \in Key : v \in Held(j)'} = {j \in Key : v \in Held(j)}
      BY <2>3, <1>5
    <3>. QED BY <2>1, <3>1, <3>2
  <2>. QED BY <2>2, <2>3
<1>. QED BY <1>4, <1>6 DEF Inv

(* commit and rollback: one transaction leaves the active list and the     *)
(* undo log; its versions all stay or all go.                              *)
LEMMA EndKeepsInv ==
  ASSUME Inv, NEW s \in Session, Commit(s) \/ Rollback(s)
  PROVE  Inv'
<1>. DEFINE w == txn[s].version
<1>1. /\ w \in Version /\ w \in txn_active
  BY HandleType DEF Inv, Ordered, Commit, Rollback, HandlesActive
<1>2. /\ Ends(s)
      /\ txn_write' = [txn_write EXCEPT ![w] = {}]
      /\ next_version' = next_version
  BY DEF Commit, Rollback, Ends
<1>3. /\ versions' \in [Key -> [Version -> Opt \cup {Absent}]]
      /\ \A k \in Key : \A v \in Version : v # w => versions'[k][v] = versions[k][v]
      /\ \A k \in Key : versions'[k][w] \in {versions[k][w], Absent}
  BY <1>1 DEF Commit, Rollback, Inv, Ordered, TypeOK
<1>4. TypeOK'
  BY <1>1, <1>2, <1>3 DEF Ends, Inv, Ordered, TypeOK
<1>5. OnlyRemoves
  BY <1>3 DEF OnlyRemoves
<1>6. Ordered'
  BY <1>2, <1>4, <1>5, EndKeepsOrder DEF Inv
<1>7. \A k \in Key : \A v \in Version : v # w => (v \in Held(k)' <=> v \in Held(k))
  BY <1>3 DEF Held
<1>8. WriteLogExact'
  <2>. SUFFICES ASSUME NEW v \in Version
                PROVE  txn_write'[v] = IF v \in txn_active' THEN {k \in Key : v \in Held(k)'} ELSE {}
    BY DEF WriteLogExact
  <2>1. CASE v = w
    BY <2>1, <1>2 DEF Ends, Inv, Ordered, TypeOK
  <2>2. CASE v # w
    <3>1. txn_write'[v] = txn_write[v] /\ (v \in txn_active' <=> v \in txn_active)
      BY <2>2, <1>2 DEF Ends, Inv, Ordered, TypeOK
    <3>2. {k \in Key : v \in Held(k)'} = {k \in Key : v \in Held(k)}
      BY <2>2, <1>7
    <3>. QED BY <3>1, <3>2 DEF Inv, WriteLogExact
  <2>. QED BY <2>1, <2>2
<1>. QED BY <1>6, <1>8 DEF Inv

(* A dropped handle or a restart touches nothing in the engine: there are  *)
(* only fewer handles to satisfy.                                          *)
LEMMA LossOfHandlesKeepsInv ==
  ASSUME Inv, UNCHANGED <<next_version, txn_active, txn_write, versions>>,
         txn' \in [Session -> TransactionState \cup {NoTxn}],
         \A r \in Session : txn'[r] \in {txn[r], NoTxn}
  PROVE  Inv'
<1>1. TypeOK'
  BY DEF Inv, Ordered, TypeOK
<1>2. next_version \in Nat
  BY MaxVersionAssumption DEF Inv, Ordered, TypeOK, Version
<1>3. Ordered'
  BY <1>1, <1>2, LossKeepsOrder DEF Inv, OnlyRemoves
<1>4. WriteLogExact'
  BY DEF Inv, WriteLogExact, Held
<1>. QED BY <1>3, <1>4 DEF Inv

(* The invariant holds before the first transaction.                       *)
LEMMA InitInv == Init => Inv
<1>. SUFFICES ASSUME Init PROVE Inv
  OBVIOUS
<1>1. 1 \in Version
  BY MaxVersionAssumption DEF Version
<1>2. Live = {} /\ txn_active = {} /\ \A k \in Key : Held(k) = {}
  BY DEF Init, Live, Held
<1>3. TypeOK
  BY <1>1 DEF Init, TypeOK
<1>4. VersionsAllocated /\ HandlesActive /\ OlderActiveKnown
  BY <1>2 DEF VersionsAllocated, HandlesActive, OlderActiveKnown
<1>5. OnlyNewestUncommitted /\ NothingSeenOverUnseen
  BY <1>2 DEF OnlyNewestUncommitted, NothingSeenOverUnseen
<1>6. WriteLogExact
  BY <1>2 DEF Init, WriteLogExact
<1>. QED BY <1>3, <1>4, <1>5, <1>6 DEF Inv, Ordered

(* Every step of the transaction layer preserves the invariant.            *)
LEMMA NextKeepsInv == Inv /\ [Next]_vars => Inv'
<1>. SUFFICES ASSUME Inv, [Next]_vars PROVE Inv'
  OBVIOUS
<1>1. ASSUME NEW s \in Session, Begin(s) PROVE Inv'
  BY <1>1, BeginKeepsInv
<1>2. ASSUME NEW s \in Session, NEW k \in Key, NEW x \in Value, Set(s, k, x) PROVE Inv'
  BY <1>2, WriteInnerKeepsInv DEF Set, Opt
<1>3. ASSUME NEW s \in Session, NEW k \in Key, Delete(s, k) PROVE Inv'
  BY <1>3, WriteInnerKeepsInv DEF Delete, Opt
<1>4. ASSUME NEW s \in Session, Commit(s) \/ Rollback(s) PROVE Inv'
  BY <1>4, EndKeepsInv
<1>5. ASSUME NEW s \in Session, Abandon(s) PROVE Inv'
  BY <1>5, LossOfHandlesKeepsInv DEF Abandon, Inv, Ordered, TypeOK
<1>6. ASSUME Restart PROVE Inv'
  BY <1>6, LossOfHandlesKeepsInv DEF Restart, Inv, Ordered, TypeOK
<1>7. ASSUME UNCHANGED vars PROVE Inv'
  BY <1>7, LossOfHandlesKeepsInv DEF vars, Inv, Ordered, TypeOK
<1>. QED BY <1>1, <1>2, <1>3, <1>4, <1>5, <1>6, <1>7 DEF Next

-----------------------------------------------------------------------------
(* The theorems.                                                           *)

(* The versions, the active list, the undo log and the handles agree with  *)
(* each other in every reachable state.                                    *)
THEOREM Invariant == Spec => []Inv
BY InitInv, NextKeepsInv, PTL DEF Spec

(* write_inner's look at a single version is a complete conflict check.    *)
THEOREM ConflictCheckCorrect == Spec => []ConflictCheckExact
<1>1. Inv => ConflictCheckExact
  BY OneVersionDecides DEF ConflictCheckExact, Live, Inv
<1>. QED BY <1>1, Invariant, PTL

(* First writer wins: no key ever has two uncommitted versions, nor an     *)
(* uncommitted one below another.                                          *)
THEOREM FirstWriterWins == Spec => []OnlyNewestUncommitted
<1>1. Inv => OnlyNewestUncommitted
  BY DEF Inv, Ordered
<1>. QED BY <1>1, Invariant, PTL

(* The undo log of an active transaction lists exactly what it wrote.      *)
THEOREM WriteLogCorrect == Spec => []WriteLogExact
<1>1. Inv => WriteLogExact
  BY DEF Inv, Ordered
<1>. QED BY <1>1, Invariant, PTL

-----------------------------------------------------------------------------
(* scan_prefix and get agree                                               *)

\* What a replay of the versions up to v leaves of key k for handle t.
SeenUpTo(t, k, v) == {u \in Held(k) : u <= v /\ IsVisible(t, u)}
Replayed(t, k, v) == Newest(k, SeenUpTo(t, k, v))

(* One more version: it replaces what the replay had for a key when it is  *)
(* there and visible, and changes nothing otherwise.                       *)
LEMMA ReplayOneMore ==
  ASSUME TypeOK, NEW t, NEW k \in Key, NEW v \in Version
  PROVE  Replayed(t, k, v) =
           IF versions[k][v] # Absent /\ IsVisible(t, v) THEN versions[k][v]
           ELSE Replayed(t, k, v - 1)
<1>1. \A u \in Version : u \in Nat /\ (u <= v <=> u <= v - 1 \/ u = v)
  BY MaxVersionAssumption DEF Version
<1>2. CASE versions[k][v] # Absent /\ IsVisible(t, v)
  <2>. DEFINE S == SeenUpTo(t, k, v)
  <2>1. S \in SUBSET Version /\ v \in S
    BY <1>1, <1>2 DEF SeenUpTo, Held
  <2>2. Max(S) \in S /\ v <= Max(S)
    BY <2>1, LastVersion
  <2>3. Max(S) <= v /\ Max(S) \in Nat
    BY <2>1, <2>2, <1>1 DEF SeenUpTo
  <2>4. Max(S) = v
    BY <2>2, <2>3, <1>1
  <2>. QED BY <2>1, <2>4, <1>2 DEF Replayed, Newest
<1>3. CASE ~(versions[k][v] # Absent /\ IsVisible(t, v))
  <2>1. SeenUpTo(t, k, v) = SeenUpTo(t, k, v - 1)
    BY <1>1, <1>3 DEF SeenUpTo, Held
  <2>. QED BY <2>1, <1>3 DEF Replayed
<1>. QED BY <1>2, <1>3

(* scan_prefix, which walks forwards through the versions of all keys,     *)
(* inserting and removing, ends with what get finds for each key, walking  *)
(* backwards.                                                              *)
LEMMA ScanPrefixIsGet ==
  ASSUME TypeOK, NEW t \in TransactionState, NEW P \in SUBSET Key
  PROVE  ScanPrefix(t, P) = [k \in {p \in P : Get(t, p) # None} |-> Get(t, k)]
<1>. DEFINE Empty == [k \in {} |-> None]
            seen(v) == {k \in P : versions[k][v] # Absent /\ IsVisible(t, v)}
            put(v) == {k \in seen(v) : versions[k][v] # None}
            Step(r, v) == [k \in (DOMAIN r \ seen(v)) \cup put(v) |->
                              IF k \in put(v) THEN versions[k][v] ELSE r[k]]
            Results(r) == r = [v \in 0..MaxVersion |-> IF v = 0 THEN Empty ELSE Step(r[v - 1], v)]
            Rep(v) == [k \in {p \in P : Replayed(t, p, v) # None} |-> Replayed(t, k, v)]
            R == [v \in 0..MaxVersion |-> Rep(v)]
<1>1. ScanPrefix(t, P) = (CHOOSE r : Results(r))[MaxVersion]
  BY Zenon DEF ScanPrefix
<1>2. /\ MaxVersion \in Nat /\ MaxVersion \in 0..MaxVersion
      /\ \A v \in 0..MaxVersion : /\ v \in Nat
                                  /\ v # 0 => v \in Version /\ v - 1 \in 0..MaxVersion /\ v - 1 < v
  BY MaxVersionAssumption DEF Version
<1>3. Rep(0) = Empty
  <2>1. \A k \in P : Replayed(t, k, 0) = None
    <3>. SUFFICES ASSUME NEW k \in P PROVE Replayed(t, k, 0) = None
      OBVIOUS
    <3>1. \A u \in Version : ~(u <= 0)
      BY MaxVersionAssumption DEF Version
    <3>2. SeenUpTo(t, k, 0) = {}
      BY <3>1 DEF SeenUpTo, Held
    <3>. QED BY <3>2 DEF Replayed, Newest
  <2>. QED BY <2>1
<1>4. ASSUME NEW v \in Version PROVE Rep(v) = Step(Rep(v - 1), v)
  <2>1. \A k \in P : Replayed(t, k, v) =
                       IF k \in seen(v) THEN versions[k][v] ELSE Replayed(t, k, v - 1)
    BY ReplayOneMore
  <2>. HIDE DEF seen
  <2>2. DOMAIN Rep(v) = (DOMAIN Rep(v - 1) \ seen(v)) \cup put(v)
    <3>1. seen(v) \subseteq P
      BY DEF seen
    <3>. QED BY <2>1, <3>1
  <2>3. \A k \in DOMAIN Rep(v) :
          Rep(v)[k] = IF k \in put(v) THEN versions[k][v] ELSE Rep(v - 1)[k]
    BY <2>1
  <2>. QED BY <2>2, <2>3
<1>. HIDE DEF Rep, Step, Empty
<1>5. Results(R)
  BY <1>2, <1>3, <1>4
<1>6. ASSUME NEW r, Results(r) PROVE r[MaxVersion] = Rep(MaxVersion)
  <2>. DEFINE T == {v \in 0..MaxVersion : r[v] # Rep(v)}
  <2>1. ASSUME T # {} PROVE FALSE
    <3>1. T \in SUBSET Nat
      BY <1>2
    <3>2. PICK n \in T : \A m \in T : n <= m
      BY <3>1, <2>1, LeastNatural
    <3>3. n # 0
      BY <1>6, <1>2, <1>3
    <3>4. r[n - 1] = Rep(n - 1)
      BY <3>2, <3>3, <1>2
    <3>5. r[n] = Step(r[n - 1], n)
      BY <1>6, <3>3, <1>2
    <3>. QED BY <3>3, <3>4, <3>5, <1>2, <1>4
  <2>. QED BY <2>1, <1>2
<1>7. ScanPrefix(t, P) = Rep(MaxVersion)
  <2>. HIDE DEF Results
  <2>1. Results(CHOOSE r : Results(r))
    BY <1>5
  <2>. QED BY <2>1, <1>1, <1>6
<1>8. \A k \in P : Replayed(t, k, MaxVersion) = Get(t, k)
  <2>1. \A u \in Version : u \in Nat /\ 0 <= u /\ u <= MaxVersion
    BY MaxVersionAssumption DEF Version
  <2>2. \A k \in P : SeenUpTo(t, k, MaxVersion) = {u \in Scan(k, 0, t.version) : IsVisible(t, u)}
    BY <2>1 DEF SeenUpTo, Scan, Held, IsVisible
  <2>. QED BY <2>2 DEF Replayed, Get
<1>. QED BY <1>7, <1>8 DEF Rep

(* In every reachable state, a scan and a get of the same transaction give *)
(* the same answer for every key and every prefix.                         *)
THEOREM ScanCorrect == Spec => []ScanAgreesWithGet
<1>1. TypeOK => ScanAgreesWithGet
  <2>. SUFFICES ASSUME TypeOK, NEW s \in Live, NEW P \in SUBSET Key
                PROVE  ScanPrefix(txn[s], P) =
                         [k \in {p \in P : Get(txn[s], p) # None} |-> Get(txn[s], k)]
    BY DEF ScanAgreesWithGet
  <2>1. txn[s] \in TransactionState
    BY HandleType DEF Live
  <2>. QED BY <2>1, ScanPrefixIsGet
<1>2. Inv => TypeOK
  BY DEF Inv, Ordered
<1>. QED BY <1>1, <1>2, Invariant, PTL

-----------------------------------------------------------------------------
(***************************************************************************)
(* The transaction layer implements SnapshotIsolation: every operation     *)
(* maps to the abstract operation of the same name.                        *)
(***************************************************************************)

(* Newest only looks at the versions it is given.                          *)
LEMMA NewestSame ==
  ASSUME NEW k \in Key, NEW S \in SUBSET Version,
         \A v \in S : versions'[k][v] = versions[k][v]
  PROVE  (IF S = {} THEN None ELSE versions'[k][Max(S)]) = Newest(k, S)
<1>1. CASE S = {}
  BY <1>1 DEF Newest
<1>2. CASE S # {}
  BY <1>2, LastVersion DEF Newest
<1>. QED BY <1>1, <1>2

(* What a transaction may read beside its own writes.                      *)
SeenBy(t, k) == {v \in Held(k) \ {t.version} : IsVisible(t, v)}

(* The initial engine is the empty database.                               *)
LEMMA InitRefines == Init => SI!Init
<1>. SUFFICES ASSUME Init PROVE SI!Init
  OBVIOUS
<1>1. Live = {} /\ \A k \in Key : Held(k) = {}
  BY DEF Init, Live, Held
<1>2. \A s \in Session : txn[s] = NoTxn
  BY DEF Init
<1>3. AbsDb = [k \in Key |-> None]
  BY <1>1 DEF AbsDb, Newest
<1>4. AbsSnapshot = [s \in Session |-> [k \in Key |-> None]]
  BY <1>2 DEF AbsSnapshot
<1>5. AbsOwn = [s \in Session |-> [k \in Key |-> Absent]]
  BY <1>2 DEF AbsOwn
<1>6. AbsMissed = [s \in Session |-> {}]
  BY <1>2 DEF AbsMissed
<1>7. AbsLocked = {}
  BY <1>1 DEF AbsLocked
<1>. QED BY <1>1, <1>3, <1>4, <1>5, <1>6, <1>7 DEF SI!Init, SI!NoData, SI!NoWrites

(* A new handle maps to the abstract begin: what it can see is what has    *)
(* been committed.                                                         *)
LEMMA RegisterRefines ==
  ASSUME Ordered, NEW s \in Session, NEW n, Fresh(n), Registers(s, n)
  PROVE  SI!Begin(s)
<1>1. /\ n \in Version /\ n \in Nat
      /\ \A v \in Version : v \in Nat
      /\ n \notin txn_active
      /\ txn_active' = txn_active \cup {n}
      /\ versions' = versions
  BY MaxVersionAssumption DEF Fresh, Registers, Version
<1>2. /\ txn[s] = NoTxn /\ txn'[s] # NoTxn
      /\ txn'[s] = [version |-> n, active_versions |-> txn_active]
      /\ \A r \in Session : r # s => txn'[r] = txn[r]
  <2>1. [version |-> n, active_versions |-> txn_active] \in TransactionState
    BY <1>1 DEF Ordered, TypeOK, TransactionState
  <2>. QED BY <2>1, NoTxnAssumption DEF Ordered, TypeOK, Registers
<1>3. s \notin Live /\ Live' = Live \cup {s}
  BY <1>2 DEF Live
<1>4. \A k \in Key : Held(k)' = Held(k)
  BY <1>1 DEF Held
<1>5. \A k \in Key : n \notin Held(k) /\ \A v \in Held(k) : v \in Nat /\ v < n
  <2>. SUFFICES ASSUME NEW k \in Key
                PROVE  n \notin Held(k) /\ \A v \in Held(k) : v \in Nat /\ v < n
    OBVIOUS
  <2>1. \A v \in Held(k) : v < n
    BY DEF Fresh
  <2>2. \A v \in Held(k) : v \in Nat
    BY <1>1 DEF Held
  <2>. QED BY <2>1, <2>2, <1>1
<1>6. \A k \in Key : (Held(k) \ txn_active)' = Held(k) \ txn_active
  BY <1>1, <1>4, <1>5
<1>7. AbsDb' = AbsDb
  BY <1>1, <1>6 DEF AbsDb, Newest
<1>8. AbsSnapshot' = [AbsSnapshot EXCEPT ![s] = AbsDb]
  <2>1. \A k \in Key : SeenBy(txn[s], k)' = Held(k) \ txn_active
    BY <1>1, <1>2, <1>4, <1>5 DEF SeenBy, IsVisible
  <2>2. AbsSnapshot'[s] = AbsDb
    BY <2>1, <1>1, <1>2 DEF AbsSnapshot, AbsDb, Newest, SeenBy
  <2>3. \A r \in Session : r # s => AbsSnapshot'[r] = AbsSnapshot[r]
    BY <1>1, <1>2, <1>4 DEF AbsSnapshot, Newest, IsVisible
  <2>. QED BY <2>2, <2>3 DEF AbsSnapshot
<1>9. AbsOwn' = AbsOwn
  <2>1. \A k \in Key : versions[k][n] = Absent
    BY <1>1, <1>5 DEF Held
  <2>2. \A r \in Session : AbsOwn'[r] = AbsOwn[r]
    BY <2>1, <1>1, <1>2 DEF AbsOwn
  <2>. QED BY <2>2 DEF AbsOwn
<1>10. AbsMissed' = AbsMissed
  <2>1. AbsMissed'[s] = AbsMissed[s]
    BY <1>1, <1>2, <1>5, <1>6 DEF AbsMissed, IsVisible
  <2>2. \A r \in Session : r # s => AbsMissed'[r] = AbsMissed[r]
    BY <1>2, <1>6 DEF AbsMissed, IsVisible
  <2>. QED BY <2>1, <2>2 DEF AbsMissed
<1>11. AbsLocked' = AbsLocked
  <2>1. \A k \in Key : (Held(k) \cap txn_active)' = Held(k) \cap txn_active
    BY <1>1, <1>4, <1>5
  <2>2. \A v \in txn_active :
          (\A r \in Live' : txn'[r].version # v) <=> (\A r \in Live : txn[r].version # v)
    BY <1>1, <1>2, <1>3 DEF Live
  <2>. QED BY <2>1, <2>2 DEF AbsLocked
<1>. QED BY <1>3, <1>7, <1>8, <1>9, <1>10, <1>11 DEF SI!Begin

(* The versions of an open transaction are its own affair: nobody else     *)
(* sees them, and they are not committed.                                  *)
LEMMA OwnHidden ==
  ASSUME Ordered, NEW s \in Live, UNCHANGED <<txn_active, txn>>,
         \A j \in Key : \A u \in Version :
            u # txn[s].version => versions'[j][u] = versions[j][u]
  PROVE  /\ AbsDb' = AbsDb /\ AbsSnapshot' = AbsSnapshot
         /\ AbsMissed' = AbsMissed /\ AbsLocked' = AbsLocked
         /\ \A r \in Session : r # s => AbsOwn'[r] = AbsOwn[r]
         /\ Live' = Live
<1>. DEFINE w == txn[s].version
<1>1. /\ s \in Session /\ w \in Version /\ w \in txn_active /\ txn[s] # NoTxn
      /\ txn' = txn /\ txn_active' = txn_active /\ Live' = Live
  BY HandleType DEF Ordered, HandlesActive, Live
<1>2. \A j \in Key : \A u \in Version : u # w => (u \in Held(j)' <=> u \in Held(j))
  BY DEF Held
<1>3. \A r \in Live : r # s => txn[r] # NoTxn /\ txn[r].version \in Version /\ txn[r].version # w
  BY <1>1, HandleType DEF Ordered, HandlesActive, Live
<1>4. \A r \in Live : r # s => ~IsVisible(txn[r], w)
  BY <1>1, <1>3, OtherActiveUnseen DEF Live
<1>5. \A j \in Key : (Held(j) \ txn_active)' = Held(j) \ txn_active
  BY <1>1, <1>2 DEF Held
<1>6. AbsDb' = AbsDb
  <2>1. ASSUME NEW j \in Key
        PROVE  Newest(j, Held(j) \ txn_active)' = Newest(j, Held(j) \ txn_active)
    <3>. DEFINE S == Held(j) \ txn_active
    <3>1. S \in SUBSET Version /\ \A v \in S : versions'[j][v] = versions[j][v]
      BY <1>1 DEF Held
    <3>2. (IF S = {} THEN None ELSE versions'[j][Max(S)]) = Newest(j, S)
      BY <3>1, NewestSame
    <3>. QED BY <3>2, <1>5 DEF Newest
  <2>. QED BY <2>1 DEF AbsDb
<1>7. AbsSnapshot' = AbsSnapshot
  <2>1. ASSUME NEW r \in Session, txn[r] # NoTxn, NEW j \in Key
        PROVE  Newest(j, SeenBy(txn[r], j))' = Newest(j, SeenBy(txn[r], j))
    <3>. DEFINE S == SeenBy(txn[r], j)
    <3>1. w \notin S
      BY <2>1, <1>4 DEF SeenBy, Live
    <3>2. S \in SUBSET Version /\ \A v \in S : versions'[j][v] = versions[j][v]
      BY <3>1 DEF Held, SeenBy
    <3>3. Held(j)' \in SUBSET Version /\ Held(j) \in SUBSET Version
      BY DEF Held
    <3>4. S' = S
      <4>1. CASE r = s
        BY <4>1, <3>3, <1>1, <1>2 DEF SeenBy, IsVisible
      <4>2. CASE r # s
        BY <4>2, <2>1, <3>3, <1>1, <1>2, <1>4 DEF SeenBy, IsVisible, Live
      <4>. QED BY <4>1, <4>2
    <3>5. (IF S = {} THEN None ELSE versions'[j][Max(S)]) = Newest(j, S)
      BY <3>2, NewestSame
    <3>. QED BY <3>4, <3>5 DEF Newest
  <2>. QED BY <2>1, <1>1 DEF AbsSnapshot, SeenBy
<1>8. AbsMissed' = AbsMissed
  BY <1>1, <1>5 DEF AbsMissed, IsVisible
<1>9. AbsLocked' = AbsLocked
  <2>1. ASSUME NEW j \in Key
        PROVE  (\E v \in (Held(j) \cap txn_active)' : \A r \in Live : txn[r].version # v)
                 <=> (\E v \in Held(j) \cap txn_active : \A r \in Live : txn[r].version # v)
    BY <1>1, <1>2 DEF Held
  <2>. QED BY <2>1, <1>1 DEF AbsLocked
<1>10. \A r \in Session : r # s => AbsOwn'[r] = AbsOwn[r]
  BY <1>1, <1>3 DEF AbsOwn, Live
<1>. QED BY <1>1, <1>6, <1>7, <1>8, <1>9, <1>10

(* A write that write_inner lets through maps to the abstract write: the   *)
(* key is free, and only the writer's own view changes.                    *)
LEMMA PutRefines ==
  ASSUME Ordered, NEW s \in Session, NEW k \in Key, NEW x \in Opt, Puts(s, k, x)
  PROVE  SI!Write(s, k, x)
<1>. DEFINE w == txn[s].version
<1>1. /\ s \in Live /\ w \in Version /\ w \in txn_active /\ txn[s] # NoTxn
  BY HandleType DEF Ordered, Puts, HandlesActive
<1>2. /\ txn' = txn /\ txn_active' = txn_active
      /\ versions' = [versions EXCEPT ![k][w] = x]
      /\ Live' = Live
  BY DEF Puts, Live
<1>3. /\ \A j \in Key : \A v \in Version :
            versions'[j][v] = IF j = k /\ v = w THEN x ELSE versions[j][v]
  BY <1>1, <1>2 DEF Ordered, TypeOK
<1>5. \A v \in Held(k) : IsVisible(txn[s], v)
  BY OneVersionDecides DEF Puts
<1>6. \A r \in Live : r # s => txn[r] # NoTxn /\ txn[r].version # w
  BY <1>1 DEF Ordered, HandlesActive, Live
<1>8. \A v \in Held(k) \cap txn_active : v = w
  BY <1>5, <1>1, OtherActiveUnseen
<1>9. SI!Free(s, k)
  <2>1. k \notin AbsMissed[s]
    BY <1>5 DEF AbsMissed
  <2>2. k \notin AbsLocked
    BY <1>1, <1>8 DEF AbsLocked
  <2>3. ASSUME NEW r \in Live \ {s} PROVE AbsOwn[r][k] = Absent
    <3>1. r \in Session /\ txn[r] # NoTxn /\ txn[r].version \in Version /\ txn[r].version \in txn_active
      BY HandleType DEF Live, Ordered, HandlesActive
    <3>2. txn[r].version \notin Held(k)
      BY <1>6, <1>8, <3>1
    <3>. QED BY <3>1, <3>2 DEF AbsOwn, Held
  <2>. QED BY <2>1, <2>2, <2>3 DEF SI!Free
<1>10. /\ AbsDb' = AbsDb /\ AbsSnapshot' = AbsSnapshot
       /\ AbsMissed' = AbsMissed /\ AbsLocked' = AbsLocked
       /\ \A r \in Session : r # s => AbsOwn'[r] = AbsOwn[r]
  BY <1>1, <1>2, <1>3, OwnHidden
<1>11. AbsOwn' = [AbsOwn EXCEPT ![s][k] = x]
  <2>1. AbsOwn'[s] = [AbsOwn[s] EXCEPT ![k] = x]
    <3>1. \A j \in Key : versions'[j][w] = IF j = k THEN x ELSE versions[j][w]
      BY <1>1, <1>3
    <3>2. txn'[s] # NoTxn /\ txn'[s].version = w
      BY <1>1, <1>2
    <3>. QED BY <3>1, <3>2, <1>1 DEF AbsOwn
  <2>. QED BY <2>1, <1>10 DEF AbsOwn
<1>. QED BY <1>1, <1>2, <1>9, <1>10, <1>11 DEF SI!Write

(* commit and rollback alike: nothing of the transaction is left, and      *)
(* nobody else's view changes.                                             *)
LEMMA EndForgets ==
  ASSUME Ordered, NEW s \in Session, Ends(s),
         \A k \in Key : \A v \in Version :
            v # txn[s].version => versions'[k][v] = versions[k][v]
  PROVE  /\ s \in Live
         /\ SI!Forget(s)
         /\ AbsLocked' = AbsLocked
         /\ \A r \in Live \ {s} : r \in Session /\ txn'[r] = txn[r] /\ txn[r] # NoTxn
                                    /\ ~IsVisible(txn[r], txn[s].version)
<1>. DEFINE w == txn[s].version
<1>1. /\ s \in Live /\ w \in Version /\ w \in txn_active /\ txn[s] # NoTxn
  BY HandleType DEF Ordered, Ends, HandlesActive
<1>2. /\ txn'[s] = NoTxn /\ \A r \in Session : r # s => txn'[r] = txn[r]
      /\ txn_active' = txn_active \ {w}
      /\ Live' = Live \ {s}
  BY DEF Ends, Live, Ordered, TypeOK
<1>3. \A k \in Key : \A v \in Version : v # w => versions'[k][v] = versions[k][v]
  OBVIOUS
<1>4. \A k \in Key : \A v \in Version : v # w => (v \in Held(k)' <=> v \in Held(k))
  BY <1>3 DEF Held
<1>5. ASSUME NEW r \in Live \ {s}
      PROVE  /\ r \in Session /\ txn'[r] = txn[r] /\ txn[r] # NoTxn
             /\ txn[r].version # w
             /\ ~IsVisible(txn[r], w)
  <2>1. r \in Session /\ txn[r] # NoTxn
    BY DEF Live
  <2>2. txn[r].version # w
    BY <1>1 DEF Ordered, HandlesActive
  <2>. QED BY <2>1, <2>2, <1>1, <1>2, OtherActiveUnseen
<1>6. AbsSnapshot' = [AbsSnapshot EXCEPT ![s] = [k \in Key |-> None]]
  <2>1. ASSUME NEW r \in Live \ {s}, NEW j \in Key
        PROVE  Newest(j, SeenBy(txn[r], j))' = Newest(j, SeenBy(txn[r], j))
    <3>. DEFINE S == SeenBy(txn[r], j)
    <3>1. S \in SUBSET Version /\ w \notin S
      BY <1>5 DEF SeenBy, Held
    <3>2. \A v \in S : versions'[j][v] = versions[j][v]
      BY <3>1, <1>3
    <3>3. Held(j)' \in SUBSET Version /\ Held(j) \in SUBSET Version
      BY DEF Held
    <3>4. S' = S
      BY <3>3, <1>4, <1>5 DEF SeenBy, IsVisible
    <3>5. (IF S = {} THEN None ELSE versions'[j][Max(S)]) = Newest(j, S)
      BY <3>1, <3>2, NewestSame
    <3>. QED BY <3>4, <3>5 DEF Newest
  <2>2. \A r \in Session : r # s => AbsSnapshot'[r] = AbsSnapshot[r]
    <3>. SUFFICES ASSUME NEW r \in Session, r # s
                  PROVE  AbsSnapshot'[r] = AbsSnapshot[r]
      OBVIOUS
    <3>1. CASE txn[r] = NoTxn
      BY <3>1, <1>2 DEF AbsSnapshot
    <3>2. CASE txn[r] # NoTxn
      <4>1. r \in Live \ {s} /\ txn'[r] # NoTxn
        BY <3>2, <1>2 DEF Live
      <4>2. \A j \in Key : Newest(j, SeenBy(txn[r], j))' = Newest(j, SeenBy(txn[r], j))
        BY <4>1, <2>1
      <4>. QED BY <3>2, <4>1, <4>2 DEF AbsSnapshot, SeenBy
    <3>. QED BY <3>1, <3>2
  <2>3. AbsSnapshot'[s] = [k \in Key |-> None]
    BY <1>2 DEF AbsSnapshot
  <2>. QED BY <2>2, <2>3 DEF AbsSnapshot
<1>7. AbsOwn' = [AbsOwn EXCEPT ![s] = [k \in Key |-> Absent]]
  <2>1. \A r \in Session, j \in Key :
          (r # s /\ txn[r] # NoTxn) => versions'[j][txn[r].version] = versions[j][txn[r].version]
    BY <1>3, <1>5, HandleType DEF Ordered, Live
  <2>2. \A r \in Session : r # s => AbsOwn'[r] = AbsOwn[r]
    BY <2>1, <1>2 DEF AbsOwn
  <2>3. AbsOwn'[s] = [k \in Key |-> Absent]
    BY <1>2 DEF AbsOwn
  <2>. QED BY <2>2, <2>3 DEF AbsOwn
<1>8. AbsLocked' = AbsLocked
  <2>1. txn_active \in SUBSET Version
    BY DEF Ordered, TypeOK
  <2>2. \A k \in Key : (Held(k) \cap txn_active)' = (Held(k) \cap txn_active) \ {w}
    BY <2>1, <1>2, <1>4 DEF Held
  <2>3. \A v \in txn_active \ {w} :
          (\A r \in Live' : txn'[r].version # v) <=> (\A r \in Live : txn[r].version # v)
    BY <1>2, <1>5
  <2>. QED BY <2>2, <2>3, <1>1 DEF AbsLocked
<1>. QED BY <1>1, <1>2, <1>5, <1>6, <1>7, <1>8 DEF SI!Forget, SI!NoData, SI!NoWrites

(* An end that keeps the versions maps to the abstract commit: the removal *)
(* of TxnActive publishes all of them, each the newest of its key.         *)
LEMMA PublishRefines ==
  ASSUME Ordered, NEW s \in Session, Ends(s), UNCHANGED versions
  PROVE  SI!Commit(s)
<1>. DEFINE w == txn[s].version
<1>1. /\ w \in Version /\ w \in txn_active /\ txn[s] # NoTxn
      /\ \A v \in Version : v \in Nat
  BY HandleType, MaxVersionAssumption DEF Ordered, Ends, HandlesActive, Version
<1>2. /\ s \in Live /\ SI!Forget(s) /\ AbsLocked' = AbsLocked
      /\ \A r \in Live \ {s} : r \in Session /\ txn'[r] = txn[r] /\ txn[r] # NoTxn
                                 /\ ~IsVisible(txn[r], w)
  BY EndForgets
<1>3. /\ versions' = versions /\ txn_active' = txn_active \ {w}
      /\ \A r \in Session : r \notin Live \ {s} => txn'[r] = NoTxn
  BY <1>2 DEF Ends, Live, Ordered, TypeOK
<1>4. \A k \in Key : Held(k)' = Held(k)
  BY <1>3 DEF Held
<1>5. \A k \in Key : AbsOwn[s][k] = versions[k][w]
                       /\ (w \in Held(k) <=> AbsOwn[s][k] # Absent)
  BY <1>1 DEF AbsOwn, Held
<1>6. \A k \in Key : (Held(k) \ txn_active)' =
                       IF w \in Held(k) THEN (Held(k) \ txn_active) \cup {w}
                                        ELSE Held(k) \ txn_active
  BY <1>1, <1>3, <1>4
<1>7. AbsDb' = [k \in Key |-> IF AbsOwn[s][k] = Absent THEN AbsDb[k] ELSE AbsOwn[s][k]]
  <2>1. ASSUME NEW k \in Key, w \notin Held(k)
        PROVE  Newest(k, Held(k) \ txn_active)' = AbsDb[k]
    BY <2>1, <1>3, <1>6 DEF Newest, AbsDb
  <2>2. ASSUME NEW k \in Key, w \in Held(k)
        PROVE  Newest(k, Held(k) \ txn_active)' = versions[k][w]
    <3>. DEFINE S == (Held(k) \ txn_active) \cup {w}
    <3>1. S \in SUBSET Version /\ S # {}
      BY <1>1 DEF Held
    <3>2. PICK m \in S : m = Max(S) /\ \A v \in S : v <= m
      BY <3>1, LastVersion
    <3>3. \A v \in S : v <= w
      BY <2>2, <1>1 DEF Ordered, OnlyNewestUncommitted
    <3>4. m = w
      BY <3>1, <3>2, <3>3, <1>1
    <3>. QED BY <2>2, <3>1, <3>2, <3>4, <1>3, <1>6 DEF Newest
  <2>. QED BY <2>1, <2>2, <1>5 DEF AbsDb
<1>8. AbsMissed' = [r \in Session |->
                      IF r \in Live \ {s} THEN AbsMissed[r] \cup SI!Written(s) ELSE {}]
  <2>1. SI!Written(s) = {k \in Key : w \in Held(k)}
    BY <1>5 DEF SI!Written
  <2>2. ASSUME NEW r \in Live \ {s}
        PROVE  AbsMissed'[r] = AbsMissed[r] \cup SI!Written(s)
    <3>1. \A k \in Key :
            (\E v \in (Held(k) \ txn_active)' : ~IsVisible(txn[r], v))
              <=> ((\E v \in Held(k) \ txn_active : ~IsVisible(txn[r], v)) \/ w \in Held(k))
      BY <1>2, <1>6
    <3>. QED BY <2>1, <3>1, <1>2 DEF AbsMissed, IsVisible
  <2>3. \A r \in Session : r \notin Live \ {s} => AbsMissed'[r] = {}
    BY <1>3 DEF AbsMissed
  <2>. QED BY <2>2, <2>3 DEF AbsMissed
<1>. QED BY <1>2, <1>7, <1>8 DEF SI!Commit

(* An end after which no version of the transaction is left maps to the    *)
(* abstract rollback.                                                      *)
LEMMA DiscardRefines ==
  ASSUME Ordered, NEW s \in Session, Ends(s),
         \A k \in Key : \A v \in Version :
            versions'[k][v] = IF v = txn[s].version THEN Absent ELSE versions[k][v]
  PROVE  SI!Rollback(s)
<1>. DEFINE w == txn[s].version
<1>1. /\ w \in Version /\ w \in txn_active /\ txn[s] # NoTxn
  BY HandleType DEF Ordered, Ends, HandlesActive
<1>2. /\ s \in Live /\ SI!Forget(s) /\ AbsLocked' = AbsLocked
      /\ \A r \in Live \ {s} : r \in Session /\ txn'[r] = txn[r] /\ txn[r] # NoTxn
  BY EndForgets
<1>3. /\ txn_active' = txn_active \ {w}
      /\ txn'[s] = NoTxn
      /\ \A r \in Session : r # s => txn'[r] = txn[r]
  BY DEF Ends, Ordered, TypeOK
<1>6. \A k \in Key : Held(k)' = Held(k) \ {w}
  BY DEF Held
<1>7. \A k \in Key : (Held(k) \ txn_active)' = Held(k) \ txn_active
  BY <1>1, <1>3, <1>6
<1>8. AbsDb' = AbsDb
  <2>1. ASSUME NEW k \in Key
        PROVE  Newest(k, Held(k) \ txn_active)' = Newest(k, Held(k) \ txn_active)
    <3>. DEFINE S == Held(k) \ txn_active
    <3>1. S \in SUBSET Version /\ \A v \in S : versions'[k][v] = versions[k][v]
      BY <1>1 DEF Held
    <3>2. (IF S = {} THEN None ELSE versions'[k][Max(S)]) = Newest(k, S)
      BY <3>1, NewestSame
    <3>. QED BY <3>2, <1>7 DEF Newest
  <2>. QED BY <2>1 DEF AbsDb
<1>9. AbsMissed' = [AbsMissed EXCEPT ![s] = {}]
  <2>1. \A r \in Session : r # s => AbsMissed'[r] = AbsMissed[r]
    BY <1>3, <1>7 DEF AbsMissed, IsVisible
  <2>2. AbsMissed'[s] = {}
    BY <1>3 DEF AbsMissed
  <2>. QED BY ZenonT(30), <2>1, <2>2 DEF AbsMissed
<1>. QED BY <1>2, <1>8, <1>9 DEF SI!Rollback

(* A dropped handle maps to the abstract abandonment: its keys stay held   *)
(* by a version that is active and that nobody can end.                    *)
LEMMA AbandonRefines ==
  ASSUME Ordered, NEW s \in Session, Abandon(s)
  PROVE  SI!Abandon(s)
<1>. DEFINE w == txn[s].version
<1>1. /\ s \in Live /\ w \in Version /\ w \in txn_active /\ txn[s] # NoTxn
  BY HandleType DEF Ordered, Abandon, HandlesActive
<1>2. /\ txn'[s] = NoTxn /\ \A r \in Session : r # s => txn'[r] = txn[r]
      /\ Live' = Live \ {s}
      /\ versions' = versions /\ txn_active' = txn_active
  BY DEF Abandon, Live, Ordered, TypeOK
<1>3. \A k \in Key : Held(k)' = Held(k)
  BY <1>2 DEF Held
<1>4. AbsDb' = AbsDb
  BY <1>2, <1>3 DEF AbsDb, Newest
<1>5. AbsSnapshot' = [AbsSnapshot EXCEPT ![s] = [k \in Key |-> None]]
  <2>1. \A r \in Session : r # s => AbsSnapshot'[r] = AbsSnapshot[r]
    BY <1>2, <1>3 DEF AbsSnapshot, Newest, IsVisible
  <2>2. AbsSnapshot'[s] = [k \in Key |-> None]
    BY <1>2 DEF AbsSnapshot
  <2>. QED BY <2>1, <2>2 DEF AbsSnapshot
<1>6. AbsOwn' = [AbsOwn EXCEPT ![s] = [k \in Key |-> Absent]]
  <2>1. \A r \in Session : r # s => AbsOwn'[r] = AbsOwn[r]
    BY <1>2 DEF AbsOwn
  <2>2. AbsOwn'[s] = [k \in Key |-> Absent]
    BY <1>2 DEF AbsOwn
  <2>. QED BY <2>1, <2>2 DEF AbsOwn
<1>7. AbsMissed' = [AbsMissed EXCEPT ![s] = {}]
  <2>1. \A r \in Session : r # s => AbsMissed'[r] = AbsMissed[r]
    BY <1>2, <1>3 DEF AbsMissed, IsVisible
  <2>2. AbsMissed'[s] = {}
    BY <1>2 DEF AbsMissed
  <2>. QED BY <2>1, <2>2 DEF AbsMissed
<1>8. AbsLocked' = AbsLocked \cup SI!Written(s)
  <2>1. SI!Written(s) = {k \in Key : w \in Held(k)}
    BY <1>1 DEF SI!Written, AbsOwn, Held
  <2>2. \A r \in Live' : r \in Live /\ txn'[r] = txn[r] /\ txn[r].version # w
    BY <1>1, <1>2 DEF Ordered, HandlesActive, Live
  <2>3. \A v : (\A r \in Live' : txn'[r].version # v)
                 <=> ((\A r \in Live : txn[r].version # v) \/ v = w)
    <3>. SUFFICES ASSUME NEW v
                  PROVE  (\A r \in Live' : txn'[r].version # v)
                           <=> ((\A r \in Live : txn[r].version # v) \/ v = w)
      OBVIOUS
    <3>1. CASE v = w
      BY <3>1, <2>2
    <3>2. CASE v # w
      BY <3>2, <2>2, <1>2
    <3>. QED BY <3>1, <3>2
  <2>4. AbsLocked' = {k \in Key : \E v \in Held(k) \cap txn_active :
                                    \A r \in Live' : txn'[r].version # v}
    BY <1>2, <1>3 DEF AbsLocked
  <2>5. \A k \in Key : k \in AbsLocked' <=> (k \in AbsLocked \/ w \in Held(k))
    BY <2>3, <2>4, <1>1 DEF AbsLocked
  <2>6. AbsLocked \in SUBSET Key /\ AbsLocked' \in SUBSET Key
    BY <2>4 DEF AbsLocked
  <2>. QED BY <2>1, <2>5, <2>6
<1>. QED BY <1>1, <1>2, <1>4, <1>5, <1>6, <1>7, <1>8
     DEF SI!Abandon, SI!Forget, SI!NoData, SI!NoWrites

(* The loss of all handles maps to the abstract crash in which every key   *)
(* written by an open transaction stays locked.                            *)
LEMMA RestartRefines ==
  ASSUME Ordered, UNCHANGED <<txn_active, versions>>, txn' = [r \in Session |-> NoTxn]
  PROVE  \E L \in SUBSET Key : SI!Crash(L)
<1>. DEFINE L == UNION {SI!Written(s) : s \in Live}
<1>1. /\ \A r \in Session : txn'[r] = NoTxn
      /\ Live' = {}
      /\ versions' = versions /\ txn_active' = txn_active
  BY DEF Live
<1>2. \A k \in Key : Held(k)' = Held(k)
  BY <1>1 DEF Held
<1>3. AbsDb' = AbsDb
  BY <1>1, <1>2 DEF AbsDb, Newest
<1>4. /\ AbsSnapshot' = [s \in Session |-> [k \in Key |-> None]]
      /\ AbsOwn' = [s \in Session |-> [k \in Key |-> Absent]]
      /\ AbsMissed' = [s \in Session |-> {}]
  BY <1>1 DEF AbsSnapshot, AbsOwn, AbsMissed
<1>5. \A s \in Live : /\ SI!Written(s) = {k \in Key : txn[s].version \in Held(k)}
                      /\ txn[s].version \in txn_active
  BY HandleType DEF SI!Written, AbsOwn, Held, Ordered, HandlesActive, Live
<1>6. L \in SUBSET Key
  BY <1>5
<1>7. AbsLocked' = AbsLocked \cup L
  <2>1. \A k \in Key : k \in L <=> \E s \in Live : txn[s].version \in Held(k)
    BY <1>5
  <2>2. AbsLocked' = {k \in Key : \E v \in Held(k) : v \in txn_active}
    BY <1>1, <1>2 DEF AbsLocked
  <2>. HIDE DEF L
  <2>. QED BY <2>1, <2>2, <1>5, <1>6 DEF AbsLocked
<1>. HIDE DEF L
<1>8. SI!Crash(L)
  BY <1>1, <1>3, <1>4, <1>7 DEF SI!Crash, SI!NoData, SI!NoWrites, L
<1>. QED BY <1>6, <1>8

(* What the engine and the handles hold decides what the abstract store    *)
(* holds.                                                                  *)
LEMMA StutterRefines ==
  ASSUME UNCHANGED <<txn_active, versions, txn>>
  PROVE  UNCHANGED SI!vars
<1>1. Live' = Live /\ \A k \in Key : Held(k)' = Held(k)
  BY DEF Live, Held
<1>2. AbsDb' = AbsDb /\ AbsSnapshot' = AbsSnapshot
  BY <1>1 DEF AbsDb, AbsSnapshot, Newest, IsVisible
<1>3. AbsOwn' = AbsOwn
  BY DEF AbsOwn
<1>4. AbsMissed' = AbsMissed
  BY <1>1 DEF AbsMissed, IsVisible
<1>5. AbsLocked' = AbsLocked
  BY <1>1 DEF AbsLocked
<1>. QED BY <1>1, <1>2, <1>3, <1>4, <1>5 DEF SI!vars

-----------------------------------------------------------------------------
(* The operations.                                                         *)

(* begin maps to the abstract begin.                                       *)
LEMMA BeginRefines ==
  ASSUME Inv, NEW s \in Session, Begin(s)
  PROVE  SI!Begin(s)
BY NextIsFresh, RegisterRefines DEF Inv, Begin, Registers

(* A write that passes the conflict check maps to the abstract write.      *)
LEMMA WriteInnerRefines ==
  ASSUME Inv, NEW s \in Session, NEW k \in Key, NEW x \in Opt, WriteInner(s, k, x)
  PROVE  SI!Write(s, k, x)
BY PutRefines DEF Inv, WriteInner, Puts

(* commit maps to the abstract commit.                                     *)
LEMMA CommitRefines ==
  ASSUME Inv, NEW s \in Session, Commit(s)
  PROVE  SI!Commit(s)
BY PublishRefines DEF Inv, Commit, Ends

(* rollback maps to the abstract rollback: by the undo log, every version  *)
(* of the transaction goes, and nothing that was committed.                *)
LEMMA RollbackRefines ==
  ASSUME Inv, NEW s \in Session, Rollback(s)
  PROVE  SI!Rollback(s)
<1>. DEFINE w == txn[s].version
<1>1. w \in Version /\ w \in txn_active
  BY HandleType DEF Inv, Ordered, Rollback, HandlesActive
<1>2. txn_write[w] = {k \in Key : w \in Held(k)}
  BY <1>1 DEF Inv, WriteLogExact
<1>3. \A k \in Key : \A v \in Version :
        versions'[k][v] = IF v = w THEN Absent ELSE versions[k][v]
  BY <1>1, <1>2 DEF Rollback, Inv, Ordered, TypeOK, Held
<1>. QED BY <1>3, DiscardRefines DEF Inv, Rollback, Ends

(* Every step of the transaction layer is a step or a stutter of the       *)
(* abstract store.                                                         *)
LEMMA NextRefines == Inv /\ [Next]_vars => [SI!Next]_SI!vars
<1>. SUFFICES ASSUME Inv, [Next]_vars PROVE [SI!Next]_SI!vars
  OBVIOUS
<1>1. ASSUME NEW s \in Session, Begin(s) PROVE SI!Next
  BY <1>1, BeginRefines DEF SI!Next
<1>2. ASSUME NEW s \in Session, NEW k \in Key, NEW x \in Opt, WriteInner(s, k, x) PROVE SI!Next
  BY <1>2, WriteInnerRefines DEF SI!Next, SI!Opt, Opt
<1>3. ASSUME NEW s \in Session, Commit(s) PROVE SI!Next
  BY <1>3, CommitRefines DEF SI!Next
<1>4. ASSUME NEW s \in Session, Rollback(s) PROVE SI!Next
  BY <1>4, RollbackRefines DEF SI!Next
<1>5. ASSUME NEW s \in Session, Abandon(s) PROVE SI!Next
  BY <1>5, AbandonRefines DEF SI!Next, Inv
<1>6. ASSUME Restart PROVE SI!Next
  BY <1>6, RestartRefines DEF SI!Next, Inv, Restart
<1>7. ASSUME UNCHANGED vars PROVE UNCHANGED SI!vars
  BY <1>7, StutterRefines DEF vars
<1>. QED BY <1>1, <1>2, <1>3, <1>4, <1>5, <1>6, <1>7 DEF Next, Set, Delete, Opt

(* The versioned store with its active list implements snapshot isolation. *)
THEOREM SnapshotIsolationCorrect == Spec => ImplementsSnapshotIsolation
<1>1. Spec => SI!Init
  BY InitRefines DEF Spec
<1>2. Spec => [][SI!Next]_SI!vars
  BY Invariant, NextRefines, PTL DEF Spec
<1>. QED BY <1>1, <1>2 DEF ImplementsSnapshotIsolation, SI!Spec

(* Begin, set, delete, commit, rollback and the loss of a handle each do    *)
(* what the abstract operation of that name does.                          *)
THEOREM OperationsCorrect == Spec => EachAsPromised
<1>1. ASSUME Inv, NEW s \in Session
      PROVE  /\ Begin(s) => SI!Begin(s)
             /\ \A k \in Key : /\ \A x \in Value : Set(s, k, x) => SI!Write(s, k, x)
                               /\ Delete(s, k) => SI!Write(s, k, None)
             /\ Commit(s) => SI!Commit(s)
             /\ Rollback(s) => SI!Rollback(s)
             /\ Abandon(s) => SI!Abandon(s)
  <2>1. Begin(s) => SI!Begin(s)
    BY <1>1, BeginRefines
  <2>2. \A k \in Key, x \in Opt : WriteInner(s, k, x) => SI!Write(s, k, x)
    BY <1>1, WriteInnerRefines
  <2>3. Commit(s) => SI!Commit(s)
    BY <1>1, CommitRefines
  <2>4. Rollback(s) => SI!Rollback(s)
    BY <1>1, RollbackRefines
  <2>5. Abandon(s) => SI!Abandon(s)
    BY <1>1, AbandonRefines DEF Inv
  <2>. QED BY <2>1, <2>2, <2>3, <2>4, <2>5 DEF Set, Delete, Opt
<1>. DEFINE Promise ==
       \A s \in Session :
          /\ Begin(s) => SI!Begin(s)
          /\ \A k \in Key : /\ \A x \in Value : Set(s, k, x) => SI!Write(s, k, x)
                            /\ Delete(s, k) => SI!Write(s, k, None)
          /\ Commit(s) => SI!Commit(s)
          /\ Rollback(s) => SI!Rollback(s)
          /\ Abandon(s) => SI!Abandon(s)
<1>2. Inv /\ [Next]_vars => [Promise]_vars
  BY <1>1
<1>. HIDE DEF Promise
<1>3. Spec => [][Promise]_vars
  BY <1>2, Invariant, PTL DEF Spec
<1>. QED BY <1>3 DEF EachAsPromised, Promise

-----------------------------------------------------------------------------
(* What a transaction reads.                                               *)

(* get, walking back to the first version it may see, finds the own write  *)
(* when there is one and the snapshot's value otherwise.                   *)
LEMMA GetReadsSnapshot == Ordered => ReadsSnapshot
<1>. SUFFICES ASSUME Ordered, NEW s \in Live, NEW k \in Key
              PROVE  Get(txn[s], k) = SI!Read(s, k)
  BY DEF ReadsSnapshot
<1>. DEFINE t == txn[s]
            seen == {v \in Scan(k, 0, t.version) : IsVisible(t, v)}
<1>1. /\ s \in Session /\ t # NoTxn /\ t.version \in Version /\ t.version \in Nat
      /\ \A v \in Version : v \in Nat
  BY HandleType, MaxVersionAssumption DEF Live, Ordered, Version
<1>2. IsVisible(t, t.version)
  BY <1>1 DEF Ordered, HandlesActive, IsVisible
<1>3. seen = {v \in Held(k) : IsVisible(t, v)}
  BY <1>1 DEF Scan, IsVisible, Held
<1>4. /\ AbsOwn[s][k] = versions[k][t.version]
      /\ AbsSnapshot[s][k] = Newest(k, SeenBy(t, k))
  BY <1>1 DEF AbsOwn, AbsSnapshot, SeenBy
<1>5. CASE t.version \in Held(k)
  <2>1. seen \in SUBSET Version /\ seen # {} /\ t.version \in seen
    BY <1>2, <1>3, <1>5 DEF Held
  <2>2. PICK m \in seen : m = Max(seen) /\ \A v \in seen : v <= m
    BY <2>1, LastVersion
  <2>3. m <= t.version /\ m \in Nat
    BY <1>1, <1>3, <2>1 DEF IsVisible
  <2>4. m = t.version
    BY <2>1, <2>2, <2>3, <1>1
  <2>5. versions[k][t.version] # Absent
    BY <1>5 DEF Held
  <2>. QED BY <2>1, <2>2, <2>4, <2>5, <1>4 DEF Get, Newest, SI!Read
<1>6. CASE t.version \notin Held(k)
  <2>1. versions[k][t.version] = Absent
    BY <1>1, <1>6 DEF Held
  <2>2. seen = SeenBy(t, k)
    BY <1>3, <1>6 DEF SeenBy
  <2>. QED BY <2>1, <2>2, <1>4 DEF Get, SI!Read
<1>. QED BY <1>5, <1>6

(* In every reachable state, every get answers from the snapshot with the  *)
(* transaction's own writes on top.                                        *)
THEOREM ReadsCorrect == Spec => []ReadsSnapshot
<1>1. Inv => ReadsSnapshot
  BY GetReadsSnapshot DEF Inv
<1>. QED BY <1>1, Invariant, PTL

(* An open transaction whose snapshot does not move answers differently    *)
(* for a key only when its own version of it has changed.                  *)
LEMMA OwnChangeOnly ==
  ASSUME Ordered, Ordered', NEW s \in Live, NEW k \in Key, txn'[s] = txn[s],
         AbsSnapshot'[s] = AbsSnapshot[s], Get(txn[s], k)' # Get(txn[s], k)
  PROVE  versions'[k][txn[s].version] # versions[k][txn[s].version]
<1>1. s \in Session /\ txn[s] # NoTxn /\ s \in Live'
  BY DEF Live
<1>2. Get(txn[s], k) = SI!Read(s, k)
  BY GetReadsSnapshot DEF ReadsSnapshot
<1>3. Get(txn[s], k)' = SI!Read(s, k)'
  <2>1. Ordered' => ReadsSnapshot'
    BY GetReadsSnapshot, PTL
  <2>. QED BY <1>1, <2>1 DEF ReadsSnapshot
<1>4. AbsOwn'[s][k] # AbsOwn[s][k]
  BY <1>2, <1>3 DEF SI!Read
<1>. QED BY <1>1, <1>4 DEF AbsOwn

(* Nothing anybody does moves the snapshot of an open transaction.         *)
LEMMA SnapshotFixed ==
  ASSUME Inv, [Next]_vars, NEW s \in Session, txn[s] # NoTxn, txn'[s] = txn[s]
  PROVE  AbsSnapshot'[s] = AbsSnapshot[s]
<1>1. ASSUME NEW r \in Session, Begin(r) PROVE AbsSnapshot'[s] = AbsSnapshot[s]
  <2>1. r # s
    BY <1>1 DEF Begin
  <2>. QED BY <1>1, <2>1, BeginRefines DEF SI!Begin, AbsSnapshot
<1>2. ASSUME NEW r \in Session, NEW k \in Key, NEW x \in Opt, WriteInner(r, k, x)
      PROVE  AbsSnapshot'[s] = AbsSnapshot[s]
  BY <1>2, WriteInnerRefines DEF SI!Write
<1>3. ASSUME NEW r \in Session, Commit(r) PROVE AbsSnapshot'[s] = AbsSnapshot[s]
  <2>1. r # s
    BY <1>3 DEF Commit, Inv, Ordered, TypeOK
  <2>. QED BY <1>3, <2>1, CommitRefines DEF SI!Commit, SI!Forget, AbsSnapshot
<1>4. ASSUME NEW r \in Session, Rollback(r) PROVE AbsSnapshot'[s] = AbsSnapshot[s]
  <2>1. r # s
    BY <1>4 DEF Rollback, Inv, Ordered, TypeOK
  <2>. QED BY <1>4, <2>1, RollbackRefines DEF SI!Rollback, SI!Forget, AbsSnapshot
<1>5. ASSUME NEW r \in Session, Abandon(r) PROVE AbsSnapshot'[s] = AbsSnapshot[s]
  <2>1. r # s
    BY <1>5 DEF Abandon, Inv, Ordered, TypeOK
  <2>. QED BY <1>5, <2>1, AbandonRefines DEF SI!Abandon, SI!Forget, AbsSnapshot, Inv
<1>6. ASSUME Restart PROVE AbsSnapshot'[s] = AbsSnapshot[s]
  BY <1>6 DEF Restart
<1>7. ASSUME UNCHANGED vars PROVE AbsSnapshot'[s] = AbsSnapshot[s]
  BY <1>7 DEF vars, AbsSnapshot, Newest, Held, IsVisible
<1>. QED BY <1>1, <1>2, <1>3, <1>4, <1>5, <1>6, <1>7 DEF Next, Set, Delete, Opt

(* Repeatable reads: an open transaction's answer for a key changes only   *)
(* when it writes that key.                                                *)
THEOREM RepeatableReads == Spec => StableReads
<1>1. ASSUME Inv, Inv', [Next]_vars, NEW s \in Live, NEW k \in Key,
             txn'[s] = txn[s], Get(txn[s], k)' # Get(txn[s], k)
      PROVE  versions'[k][txn[s].version] # versions[k][txn[s].version]
  <2>1. AbsSnapshot'[s] = AbsSnapshot[s]
    BY <1>1, SnapshotFixed DEF Live
  <2>. QED BY <1>1, <2>1, OwnChangeOnly DEF Inv
<1>2. Inv /\ Inv' /\ [Next]_vars =>
        [\A s \in Live, k \in Key :
            (txn'[s] = txn[s] /\ Get(txn[s], k)' # Get(txn[s], k))
               => versions'[k][txn[s].version] # versions[k][txn[s].version]]_vars
  BY <1>1
<1>. QED BY <1>2, Invariant, PTL DEF Spec, StableReads

-----------------------------------------------------------------------------
(* One engine write at a time                                              *)

(* A scan of finitely many keys comes to every one of them.                *)
LEMMA EveryKeyInTurn ==
  ASSUME NEW S, IsFiniteSet(S), NEW order \in SetToSeqs(S)
  PROVE  /\ Cardinality(S) \in Nat
         /\ order \in [1..Cardinality(S) -> S]
         /\ Len(order) = Cardinality(S)
         /\ \A k \in S : \E i \in 1..Cardinality(S) : order[i] = k
<1>. DEFINE n == Cardinality(S)
<1>1. n \in Nat
  BY FS_CardinalityType
<1>2. order \in [1..n -> S] /\ \A i, j \in 1..n : i # j => order[i] # order[j]
  BY DEF SetToSeqs
<1>3. order \in Injection(1..n, S)
  BY <1>2 DEF Injection, IsInjective
<1>4. Cardinality(1..n) = n
  BY <1>1, FS_Interval
<1>5. order \in Surjection(1..n, S)
  BY <1>3, <1>4, FS_Injection
<1>6. \A k \in S : \E i \in 1..n : order[i] = k
  BY <1>5 DEF Surjection
<1>7. Len(order) = n
  BY <1>1, <1>2
<1>. QED BY <1>1, <1>2, <1>6, <1>7

(* A function on 1..m is a sequence of m elements.                         *)
LEMMA FunctionIsSeq ==
  ASSUME NEW W, NEW m \in Nat, NEW f \in [1..m -> W]
  PROVE  f \in Seq(W) /\ Len(f) = m
OBVIOUS

\* f takes turns between a and b, n times.
TakesTurns(f, W, n, a, b) ==
    /\ f \in Seq(W)
    /\ Len(f) = 2 * n
    /\ \A i \in 1..n : f[2 * i - 1] = a[i] /\ f[2 * i] = b[i]

(* The pairs of a rollback, one after the other.                           *)
LEMMA FlattenPairs ==
  ASSUME NEW W, NEW n \in Nat, NEW a \in [1..n -> W], NEW b \in [1..n -> W],
         NEW pairs, pairs = [i \in 1..n |-> <<a[i], b[i]>>]
  PROVE  TakesTurns(FlattenSeq(pairs), W, n, a, b)
<1>. DEFINE Pairs(i, f) == /\ f \in Seq(W)
                           /\ Len(f) = 2 * i
                           /\ \A j \in 1..i : f[2 * j - 1] = a[j] /\ f[2 * j] = b[j]
            Flat(r) == r = [i \in 1..n |-> IF i = 1 THEN pairs[i] ELSE r[i - 1] \o pairs[i]]
            R == [i \in 1..n |-> [j \in 1 .. 2 * i |-> IF j % 2 = 1 THEN a[(j + 1) \div 2]
                                                                 ELSE b[j \div 2]]]
<1>1. Len(pairs) = n
  OBVIOUS
<1>2. n # 0 => FlattenSeq(pairs) = (CHOOSE r : Flat(r))[n]
  BY <1>1 DEF FlattenSeq
<1>3. ASSUME NEW i \in 1..n PROVE Pairs(i, R[i])
  <2>1. \A j \in 1 .. 2 * i : /\ j % 2 = 1 => (j + 1) \div 2 \in 1..n
                              /\ j % 2 # 1 => j \div 2 \in 1..n
    OBVIOUS
  <2>2. \A j \in 1 .. 2 * i : R[i][j] \in W
    BY <2>1
  <2>3. R[i] \in [1 .. 2 * i -> W] /\ 2 * i \in Nat
    BY <2>2
  <2>4. R[i] \in Seq(W) /\ Len(R[i]) = 2 * i
    <3>. HIDE DEF R
    <3>. QED BY <2>3, FunctionIsSeq
  <2>5. \A j \in 1..i : /\ 2 * j - 1 \in 1 .. 2 * i /\ (2 * j - 1) % 2 = 1 /\ (2 * j - 1 + 1) \div 2 = j
                        /\ 2 * j \in 1 .. 2 * i /\ (2 * j) % 2 = 0 /\ (2 * j) \div 2 = j
    OBVIOUS
  <2>6. \A j \in 1..i : R[i][2 * j - 1] = a[j] /\ R[i][2 * j] = b[j]
    BY <2>5
  <2>. QED BY <2>4, <2>6
<1>4. ASSUME NEW i \in 1..n, NEW f, NEW g, i # 1, Pairs(i - 1, f), g = f \o pairs[i]
      PROVE  Pairs(i, g)
  <2>1. pairs[i] \in Seq(W) /\ Len(pairs[i]) = 2 /\ pairs[i][1] = a[i] /\ pairs[i][2] = b[i]
    OBVIOUS
  <2>. DEFINE p == pairs[i]
  <2>2. /\ g \in Seq(W) /\ Len(g) = 2 * i
        /\ \A j \in 1 .. 2 * i : g[j] = IF j <= 2 * (i - 1) THEN f[j] ELSE p[j - 2 * (i - 1)]
    <3>. HIDE DEF p
    <3>1. /\ p \in Seq(W) /\ Len(p) = 2 /\ f \in Seq(W) /\ Len(f) = 2 * (i - 1)
      BY <2>1, <1>4 DEF p
    <3>2. g = f \o p
      BY <1>4 DEF p
    <3>3. /\ g \in Seq(W) /\ Len(g) = Len(f) + Len(p)
          /\ \A j \in 1 .. Len(f) + Len(p) : g[j] = IF j <= Len(f) THEN f[j] ELSE p[j - Len(f)]
      BY <3>1, <3>2, ConcatProperties
    <3>4. Len(f) + Len(p) = 2 * i
      BY <3>1
    <3>. QED BY <3>1, <3>3, <3>4
  <2>3. ASSUME NEW j \in 1..i PROVE g[2 * j - 1] = a[j] /\ g[2 * j] = b[j]
    <3>1. CASE j = i
      <4>1. g[2 * i - 1] = p[1] /\ g[2 * i] = p[2]
        BY <2>2
      <4>. QED BY <3>1, <4>1, <2>1
    <3>2. CASE j \in 1 .. i - 1
      BY <3>2, <2>2, <1>4
    <3>. QED BY <3>1, <3>2
  <2>. QED BY <2>2, <2>3
<1>5. ASSUME NEW i \in 1..n, NEW f, NEW g, Pairs(i, f), Pairs(i, g) PROVE f = g
  <2>1. \A j \in 1 .. 2 * i : \E m \in 1..i : j = 2 * m - 1 \/ j = 2 * m
    <3>. SUFFICES ASSUME NEW j \in 1 .. 2 * i PROVE \E m \in 1..i : j = 2 * m - 1 \/ j = 2 * m
      OBVIOUS
    <3>1. (j + 1) \div 2 \in 1..i /\ (j = 2 * ((j + 1) \div 2) - 1 \/ j = 2 * ((j + 1) \div 2))
      OBVIOUS
    <3>. QED BY <3>1
  <2>2. \A j \in 1 .. 2 * i : f[j] = g[j]
    BY <2>1, <1>5
  <2>. QED BY <2>2, <1>5, SeqEqual
<1>6. n # 0 => Pairs(1, pairs[1])
  <2>. SUFFICES ASSUME n # 0 PROVE Pairs(1, pairs[1])
    OBVIOUS
  <2>1. pairs[1] = <<a[1], b[1]>> /\ a[1] \in W /\ b[1] \in W
    OBVIOUS
  <2>. QED BY <2>1
<1>. HIDE DEF Pairs
<1>7. Flat(R)
  <2>. SUFFICES ASSUME NEW i \in 1..n
                PROVE  R[i] = IF i = 1 THEN pairs[i] ELSE R[i - 1] \o pairs[i]
    OBVIOUS
  <2>. HIDE DEF R
  <2>1. CASE i = 1
    BY <2>1, <1>3, <1>5, <1>6
  <2>2. CASE i # 1
    <3>1. Pairs(i - 1, R[i - 1]) /\ Pairs(i, R[i])
      BY <2>2, <1>3
    <3>2. Pairs(i, R[i - 1] \o pairs[i])
      BY <3>1, <2>2, <1>4
    <3>. QED BY <2>2, <3>1, <3>2, <1>5
  <2>. QED BY <2>1, <2>2
<1>8. ASSUME NEW r, Flat(r), NEW m \in 1..n PROVE Pairs(m, r[m])
  <2>. DEFINE T == {i \in 1..n : ~Pairs(i, r[i])}
  <2>1. ASSUME T # {} PROVE FALSE
    <3>1. T \in SUBSET Nat
      OBVIOUS
    <3>2. PICK i \in T : \A j \in T : i <= j
      BY <3>1, <2>1, LeastNatural
    <3>3. i # 1
      <4>1. 1 \in 1..n /\ n # 0
        BY <3>2
      <4>2. Pairs(1, r[1])
        BY <4>1, <1>6, <1>8
      <4>. QED BY <4>2, <3>2
    <3>4. i - 1 \in 1..n /\ ~(i <= i - 1)
      BY <3>3
    <3>5. Pairs(i - 1, r[i - 1])
      BY <3>2, <3>4
    <3>6. r[i] = r[i - 1] \o pairs[i]
      BY <1>8, <3>3
    <3>. QED BY <3>3, <3>5, <3>6, <1>4
  <2>. QED BY <2>1
<1>9. CASE n = 0
  <2>1. Len(pairs) = 0
    BY <1>1, <1>9
  <2>2. FlattenSeq(pairs) = pairs
    BY <2>1 DEF FlattenSeq
  <2>3. pairs = <<>>
    BY <1>9
  <2>4. <<>> \in Seq(W) /\ Len(<<>>) = 2 * n /\ 1..n = {}
    BY <1>9
  <2>. QED BY <2>2, <2>3, <2>4 DEF TakesTurns
<1>10. CASE n # 0
  <2>. HIDE DEF Flat
  <2>1. Flat(CHOOSE r : Flat(r))
    BY <1>7
  <2>2. Pairs(n, FlattenSeq(pairs))
    BY <1>10, <2>1, <1>2, <1>8
  <2>. QED BY <2>2 DEF Pairs, TakesTurns
<1>. QED BY <1>9, <1>10

-----------------------------------------------------------------------------
(* Taking the mutex.                                                       *)

(* The operation that holds the mutex and the writes it has left.          *)
LEMMA OperationType ==
  ASSUME StepsInv, op # Idle
  PROVE  /\ op.session \in Session /\ op.kind \in Kind
         /\ op.handle \in TransactionState \cup {NoTxn}
         /\ op.todo \in Seq(Writes) /\ op.todo # <<>>
         /\ op.before \in [Key -> [Version -> Opt \cup {Absent}]]
         /\ Len(op.todo) \in Nat \ {0}
<1>1. op \in Operation /\ op.todo # <<>>
  BY DEF StepsInv, StepsTypeOK
<1>2. op.todo \in Seq(Writes)
  BY <1>1 DEF Operation
<1>. QED BY <1>1, <1>2, EmptySeq DEF Operation

(* A lock changes nothing but who holds it.                                *)
LEMMA LockKeeps ==
  ASSUME StepsInv, NEW s \in Session, NEW kind \in Kind,
         NEW handle \in TransactionState \cup {NoTxn},
         NEW todo \in Seq(Writes), todo # <<>>,
         Lock(s, kind, handle, todo), UnderWay'
  PROVE  StepsInv'
<1>1. /\ op = Idle
      /\ op' = [session |-> s, kind |-> kind, handle |-> handle,
                todo |-> todo, before |-> versions]
      /\ UNCHANGED <<next_version, txn_active, txn_write, versions, txn,
                     failures, rolled_back, unlogged>>
  BY DEF Lock
<1>2. Ordered'
  <2>1. TypeOK'
    BY <1>1 DEF StepsInv, Ordered, TypeOK
  <2>2. next_version \in Nat
    BY MaxVersionAssumption DEF StepsInv, Ordered, TypeOK, Version
  <2>. QED BY <1>1, <2>1, <2>2, LossKeepsOrder DEF StepsInv, OnlyRemoves
<1>3. StepsTypeOK'
  <2>1. versions \in [Key -> [Version -> Opt \cup {Absent}]]
    BY DEF StepsInv, Ordered, TypeOK
  <2>2. op' \in Operation /\ op'.todo = todo
    BY <1>1, <2>1 DEF Operation
  <2>. QED BY <1>1, <2>2 DEF StepsInv, StepsTypeOK
<1>4. LoggedOrTaken'
  BY <1>1 DEF StepsInv, LoggedOrTaken, Live
<1>5. RolledBackOver' /\ RollbackUndoesTheRest'
  BY <1>1 DEF StepsInv, RolledBackOver, RollbackUndoesTheRest
<1>. QED BY <1>1, <1>2, <1>3, <1>4, <1>5 DEF StepsInv

(* Every entry of a todo list is an engine write of the right type.        *)
LEMMA WriteType ==
  ASSUME NEW k \in Key \cup {None}, NEW v \in Version, NEW x \in Opt,
         NEW kind \in {"SetNextVersion", "SetTxnActive", "SetTxnWrite", "SetVersion",
                       "DeleteTxnActive", "DeleteTxnWrite", "DeleteVersion"}
  PROVE  EngineWrite(kind, k, v, x) \in Writes
BY DEF EngineWrite, Writes

(* begin reserves the version number first, then registers it.             *)
LEMMA StartBeginKeeps ==
  ASSUME StepsInv, NEW s \in Session, StartBegin(s)
  PROVE  StepsInv'
<1>. DEFINE n == next_version
            handle == [version |-> n, active_versions |-> txn_active]
            todo == << EngineWrite("SetNextVersion", None, n + 1, None),
                       EngineWrite("SetTxnActive", None, n, None) >>
<1>1. /\ n \in Version /\ n + 1 \in Version /\ txn_active \in SUBSET Version
      /\ txn[s] = NoTxn
  BY MaxVersionAssumption DEF StepsInv, Ordered, TypeOK, Version, StartBegin
<1>2. Lock(s, "begin", handle, todo)
  BY DEF StartBegin
<1>3. todo \in Seq(Writes) /\ todo # <<>>
  <2>. DEFINE a == EngineWrite("SetNextVersion", None, n + 1, None)
              b == EngineWrite("SetTxnActive", None, n, None)
  <2>1. a \in Writes /\ b \in Writes
    BY <1>1, WriteType DEF Opt
  <2>. HIDE DEF a, b
  <2>2. <<a, b>> \in Seq(Writes) /\ <<a, b>> # <<>>
    BY <2>1
  <2>. QED BY <2>2 DEF a, b
<1>4. handle \in TransactionState
  BY <1>1 DEF TransactionState
<1>5. UnderWay'
  <2>1. /\ op' = [session |-> s, kind |-> "begin", handle |-> handle,
                  todo |-> todo, before |-> versions]
        /\ UNCHANGED <<next_version, txn_active, txn>>
    BY <1>2 DEF Lock
  <2>2. /\ op'.kind = "begin" /\ op'.session = s /\ op'.todo = todo
        /\ op'.handle = handle /\ op'.handle.version = n
        /\ op'.handle = [version |-> n, active_versions |-> txn_active] /\ n \in Version
    BY <2>1, <1>1
  <2>3. WhileBeginning'
    BY <2>1, <2>2, <1>1 DEF WhileBeginning
  <2>. QED BY <2>2, <2>3 DEF UnderWay
<1>. HIDE DEF todo, handle
<1>. QED BY <1>2, <1>3, <1>4, <1>5, LockKeeps DEF Kind

(* write_inner locks once it knows that there is no conflict.              *)
LEMMA StartWriteInnerKeeps ==
  ASSUME StepsInv, NEW s \in Session, NEW k \in Key, NEW x \in Opt, StartWriteInner(s, k, x)
  PROVE  StepsInv'
<1>. DEFINE v == txn[s].version
            todo == << EngineWrite("SetTxnWrite", k, v, None),
                       EngineWrite("SetVersion", k, v, x) >>
<1>1. /\ txn[s] # NoTxn /\ txn[s] \in TransactionState /\ v \in Version /\ s \in Live
      /\ ~WriteConflict(txn[s], k)
  BY HandleType DEF StepsInv, Ordered, StartWriteInner
<1>2. Lock(s, "write", txn[s], todo)
  BY DEF StartWriteInner
<1>3. todo \in Seq(Writes) /\ todo # <<>>
  <2>. DEFINE a == EngineWrite("SetTxnWrite", k, v, None)
              b == EngineWrite("SetVersion", k, v, x)
  <2>1. a \in Writes /\ b \in Writes
    BY <1>1, WriteType DEF Opt
  <2>. HIDE DEF a, b
  <2>2. <<a, b>> \in Seq(Writes) /\ <<a, b>> # <<>>
    BY <2>1
  <2>. QED BY <2>2 DEF a, b
<1>5. UnderWay'
  <2>1. /\ op' = [session |-> s, kind |-> "write", handle |-> txn[s],
                  todo |-> todo, before |-> versions]
        /\ UNCHANGED <<next_version, txn_active, txn_write, txn, versions>>
    BY <1>2 DEF Lock
  <2>2. /\ op'.kind = "write" /\ op'.session = s /\ op'.todo = todo
        /\ op'.handle = txn[s]
    BY <2>1
  <2>3. ~WriteConflict(txn[s], k)' /\ Live' = Live
    BY <2>1, <1>1 DEF WriteConflict, Scan, Held, ConflictFrom, IsVisible, Live
  <2>4. WhileWriting'
    BY <2>1, <2>2, <2>3, <1>1 DEF WhileWriting
  <2>. QED BY <2>2, <2>4 DEF UnderWay
<1>. HIDE DEF todo
<1>. QED BY <1>1, <1>2, <1>3, <1>5, LockKeeps DEF Kind

(* commit: the log first, the active list last.                            *)
LEMMA StartCommitKeeps ==
  ASSUME StepsInv, NEW s \in Session, StartCommit(s)
  PROVE  StepsInv'
<1>. DEFINE v == txn[s].version
            last == EngineWrite("DeleteTxnActive", None, v, None)
<1>1. txn[s] # NoTxn /\ v \in Version /\ s \in Live
  BY HandleType DEF StepsInv, Ordered, StartCommit
<1>2. IsFiniteSet(txn_write[v]) /\ txn_write[v] \in SUBSET Key
  BY <1>1 DEF StepsInv, Ordered, TypeOK
<1>3. PICK order \in SetToSeqs(txn_write[v]) :
        Lock(s, "commit", NoTxn,
             Append([i \in DOMAIN order |-> EngineWrite("DeleteTxnWrite", order[i], v, None)],
                    last))
  BY DEF StartCommit
<1>. DEFINE n == Cardinality(txn_write[v])
            log == [i \in 1..n |-> EngineWrite("DeleteTxnWrite", order[i], v, None)]
            todo == Append(log, last)
<1>4. n \in Nat /\ order \in [1..n -> txn_write[v]] /\ DOMAIN order = 1..n
  BY <1>2, EveryKeyInTurn
<1>5. Lock(s, "commit", NoTxn, todo)
  BY <1>3, <1>4
<1>6. /\ log \in [1..n -> Writes] /\ last \in Writes
      /\ \A i \in 1..n : /\ log[i].kind = "DeleteTxnWrite"
                         /\ log[i].key \in Key
                         /\ log[i].version = v
  <2>1. \A i \in 1..n : log[i] \in Writes
    BY <1>1, <1>2, <1>4, WriteType DEF Opt
  <2>2. last \in Writes
    BY <1>1, WriteType DEF Opt
  <2>3. \A i \in 1..n : order[i] \in Key
    BY <1>2, <1>4
  <2>. QED BY <2>1, <2>2, <2>3 DEF EngineWrite
<1>. HIDE DEF log
<1>7. /\ todo \in Seq(Writes) /\ todo # <<>> /\ Len(todo) = n + 1
      /\ \A i \in 1..n : todo[i] = log[i]
      /\ todo[n + 1] = last
  <2>. HIDE DEF last, n
  <2>1. log \in Seq(Writes) /\ Len(log) = n
    BY <1>4, <1>6, FunctionIsSeq
  <2>. QED BY <2>1, <1>4, <1>6, AppendProperties
<1>8. UnderWay'
  <2>. HIDE DEF todo
  <2>1. /\ op' = [session |-> s, kind |-> "commit", handle |-> NoTxn,
                  todo |-> todo, before |-> versions]
        /\ UNCHANGED txn
    BY <1>5 DEF Lock
  <2>2. /\ op'.kind = "commit" /\ op'.session = s /\ op'.todo = todo
        /\ op'.handle = NoTxn /\ Live' = Live
    BY <2>1 DEF Live
  <2>3. ASSUME NEW i \in 1 .. Len(todo) - 1
        PROVE  /\ todo[i].kind \in {"DeleteTxnWrite"}
               /\ todo[i].key \in Key
               /\ todo[i].version = v
    <3>1. i \in 1..n
      BY <1>4, <1>7
    <3>. QED BY <3>1, <1>6, <1>7
  <2>4. todo[Len(todo)] = last
    BY <1>4, <1>7
  <2>5. WhileEnding'
    BY <2>1, <2>2, <2>3, <2>4, <1>1 DEF WhileEnding
  <2>. QED BY <2>2, <2>5 DEF UnderWay
<1>. HIDE DEF todo
<1>. QED BY <1>5, <1>7, <1>8, LockKeeps DEF Kind

(* rollback: the data of each logged key, then its log entry; the active   *)
(* list last.                                                              *)
LEMMA StartRollbackKeeps ==
  ASSUME StepsInv, NEW s \in Session, StartRollback(s)
  PROVE  StepsInv'
<1>. DEFINE v == txn[s].version
            last == EngineWrite("DeleteTxnActive", None, v, None)
<1>1. txn[s] # NoTxn /\ v \in Version /\ s \in Live
  BY HandleType DEF StepsInv, Ordered, StartRollback
<1>2. IsFiniteSet(txn_write[v]) /\ txn_write[v] \in SUBSET Key
  BY <1>1 DEF StepsInv, Ordered, TypeOK
<1>3. PICK order \in SetToSeqs(txn_write[v]) :
        Lock(s, "rollback", NoTxn,
             Append(FlattenSeq([i \in DOMAIN order |->
                       << EngineWrite("DeleteVersion", order[i], v, None),
                          EngineWrite("DeleteTxnWrite", order[i], v, None) >>]),
                    last))
  BY DEF StartRollback
<1>. DEFINE n == Cardinality(txn_write[v])
            data == [i \in 1..n |-> EngineWrite("DeleteVersion", order[i], v, None)]
            log == [i \in 1..n |-> EngineWrite("DeleteTxnWrite", order[i], v, None)]
            seqs == [i \in 1..n |-> <<data[i], log[i]>>]
            pairs == FlattenSeq(seqs)
            todo == Append(pairs, last)
<1>4. /\ n \in Nat /\ order \in [1..n -> txn_write[v]] /\ DOMAIN order = 1..n
      /\ \A k \in txn_write[v] : \E i \in 1..n : order[i] = k
  BY <1>2, EveryKeyInTurn
<1>5. Lock(s, "rollback", NoTxn, todo)
  BY <1>3, <1>4
<1>6. /\ data \in [1..n -> Writes] /\ log \in [1..n -> Writes] /\ last \in Writes
      /\ \A i \in 1..n : /\ data[i].kind = "DeleteVersion" /\ log[i].kind = "DeleteTxnWrite"
                         /\ data[i].key = order[i] /\ log[i].key = order[i]
                         /\ data[i].version = v /\ log[i].version = v
                         /\ order[i] \in Key
  <2>1. \A i \in 1..n : data[i] \in Writes /\ log[i] \in Writes
    BY <1>1, <1>2, <1>4, WriteType DEF Opt
  <2>2. last \in Writes
    BY <1>1, WriteType DEF Opt
  <2>3. \A i \in 1..n : order[i] \in Key
    BY <1>2, <1>4
  <2>. QED BY <2>1, <2>2, <2>3 DEF EngineWrite
<1>. HIDE DEF n, data, log
<1>7. /\ pairs \in Seq(Writes) /\ Len(pairs) = 2 * n
      /\ \A i \in 1..n : pairs[2 * i - 1] = data[i] /\ pairs[2 * i] = log[i]
  <2>1. seqs = [i \in 1..n |-> <<data[i], log[i]>>]
    OBVIOUS
  <2>. HIDE DEF seqs
  <2>2. n \in Nat /\ data \in [1..n -> Writes] /\ log \in [1..n -> Writes]
    BY <1>4, <1>6
  <2>3. TakesTurns(FlattenSeq(seqs), Writes, n, data, log)
    BY <2>1, <2>2, FlattenPairs
  <2>. QED BY <2>3 DEF TakesTurns
<1>. HIDE DEF pairs, last
<1>8. /\ todo \in Seq(Writes) /\ todo # <<>> /\ Len(todo) = 2 * n + 1
      /\ \A i \in 1 .. 2 * n : todo[i] = pairs[i]
      /\ todo[2 * n + 1] = last
  BY <1>6, <1>7, AppendProperties
<1>9. \A i \in 1..n : /\ 2 * i - 1 \in 1 .. 2 * n /\ 2 * i \in 1 .. 2 * n
                     /\ todo[2 * i - 1] = data[i] /\ todo[2 * i] = log[i]
  BY <1>4, <1>7, <1>8
<1>10. \A j \in 1 .. 2 * n : \E i \in 1..n : j = 2 * i - 1 \/ j = 2 * i
  <2>. SUFFICES ASSUME NEW j \in 1 .. 2 * n PROVE \E i \in 1..n : j = 2 * i - 1 \/ j = 2 * i
    OBVIOUS
  <2>1. (j + 1) \div 2 \in 1..n /\ (j = 2 * ((j + 1) \div 2) - 1 \/ j = 2 * ((j + 1) \div 2))
    BY <1>4
  <2>. QED BY <2>1
<1>. HIDE DEF todo
<1>11. /\ op' = [session |-> s, kind |-> "rollback", handle |-> NoTxn,
                 todo |-> todo, before |-> versions]
       /\ op = Idle
       /\ UNCHANGED <<txn, versions, unlogged>>
  BY <1>5 DEF Lock
<1>12. /\ op'.kind = "rollback" /\ op'.session = s /\ op'.todo = todo
       /\ op'.handle = NoTxn /\ op'.before = versions /\ Live' = Live
       /\ Len(todo) - 1 = 2 * n /\ todo[Len(todo)] = EngineWrite("DeleteTxnActive", None, v, None)
       /\ DOMAIN todo = 1 .. 2 * n + 1
  BY <1>4, <1>8, <1>11 DEF Live, last
<1>13. WhileEnding'
  <2>1. ASSUME NEW j \in 1 .. 2 * n
        PROVE  /\ todo[j].kind \in {"DeleteVersion", "DeleteTxnWrite"}
               /\ todo[j].key \in Key
               /\ todo[j].version = v
    <3>1. PICK i \in 1..n : j = 2 * i - 1 \/ j = 2 * i
      BY <1>10
    <3>2. todo[j] = data[i] \/ todo[j] = log[i]
      BY <3>1, <1>9
    <3>. QED BY <3>2, <1>6
  <2>. QED BY <2>1, <1>11, <1>12, <1>1 DEF WhileEnding
<1>14. WhileRollingBack'
  <2>. SUFFICES ASSUME NEW k \in Key
                PROVE  /\ \/ versions[k][v] = Absent
                          \/ <<k, v>> \in unlogged
                          \/ \E j \in DOMAIN todo : Deletes(j, "DeleteVersion", k)'
                       /\ \A j \in DOMAIN todo :
                             Deletes(j, "DeleteTxnWrite", k)' =>
                               \E m \in 1 .. j - 1 : Deletes(m, "DeleteVersion", k)'
    BY <1>11, <1>12 DEF WhileRollingBack
  <2>1. \A j \in 1 .. 2 * n : \A kind : Deletes(j, kind, k)' <=> todo[j].kind = kind /\ todo[j].key = k
    BY <1>12, <1>4, <1>8 DEF Deletes
  <2>2. \/ versions[k][v] = Absent
        \/ <<k, v>> \in unlogged
        \/ k \in txn_write[v]
    BY <1>1, <1>11 DEF StepsInv, LoggedOrTaken
  <2>3. ASSUME k \in txn_write[v]
        PROVE  \E j \in DOMAIN todo : Deletes(j, "DeleteVersion", k)'
    <3>1. PICK i \in 1..n : order[i] = k
      BY <2>3, <1>4
    <3>2. 2 * i - 1 \in 1 .. 2 * n /\ 2 * i - 1 \in DOMAIN todo
      BY <1>4, <1>9, <1>12
    <3>3. todo[2 * i - 1].kind = "DeleteVersion" /\ todo[2 * i - 1].key = k
      BY <3>1, <1>6, <1>9
    <3>. QED BY <3>2, <3>3, <2>1
  <2>4. ASSUME NEW j \in DOMAIN todo, Deletes(j, "DeleteTxnWrite", k)'
        PROVE  \E m \in 1 .. j - 1 : Deletes(m, "DeleteVersion", k)'
    <3>1. j \in 1 .. 2 * n
      BY <2>4, <1>4, <1>8, <1>12 DEF Deletes
    <3>2. todo[j].kind = "DeleteTxnWrite" /\ todo[j].key = k
      BY <2>4, <3>1, <2>1
    <3>3. PICK i \in 1..n : j = 2 * i - 1 \/ j = 2 * i
      BY <3>1, <1>10
    <3>4. j = 2 * i
      BY <3>2, <3>3, <1>6, <1>9
    <3>5. 2 * i - 1 \in 1 .. j - 1 /\ 2 * i - 1 \in 1 .. 2 * n
      BY <3>4, <1>4
    <3>6. todo[2 * i - 1].kind = "DeleteVersion" /\ todo[2 * i - 1].key = k
      BY <3>2, <3>4, <1>6, <1>9
    <3>. QED BY <3>5, <3>6, <2>1
  <2>. QED BY <2>2, <2>3, <2>4
<1>15. UnderWay'
  BY <1>12, <1>13, <1>14 DEF UnderWay
<1>. QED BY <1>5, <1>8, <1>15, LockKeeps DEF Kind

-----------------------------------------------------------------------------
(* One engine write.                                                       *)

(* The operation goes on with the rest of its writes.                      *)
LEMMA MoreToDo ==
  ASSUME StepsInv, EngineStep, Len(op.todo) > 1
  PROVE  /\ op' \in Operation /\ op' # Idle
         /\ op'.session = op.session /\ op'.kind = op.kind
         /\ op'.handle = op.handle /\ op'.before = op.before
         /\ op'.todo = Tail(op.todo) /\ op'.todo \in Seq(Writes)
         /\ Len(op'.todo) = Len(op.todo) - 1 /\ Len(op.todo) \in Nat
         /\ DOMAIN op'.todo = 1 .. Len(op.todo) - 1
         /\ \A i \in 1 .. Len(op.todo) - 1 : op'.todo[i] = op.todo[i + 1]
         /\ UNCHANGED <<txn, rolled_back, failures, unlogged>>
         /\ StepsTypeOK'
<1>1. op # Idle /\ op \in Operation
  BY DEF EngineStep, StepsInv, StepsTypeOK
<1>2. op.todo \in Seq(Writes) /\ op.todo # <<>>
  BY <1>1, OperationType
<1>3. op' = [op EXCEPT !.todo = Tail(op.todo)]
  BY DEF EngineStep
<1>4. UNCHANGED <<txn, rolled_back, failures, unlogged>>
  BY DEF EngineStep
<1>5. /\ Tail(op.todo) \in Seq(Writes) /\ Len(op.todo) \in Nat
      /\ Len(Tail(op.todo)) = Len(op.todo) - 1
      /\ DOMAIN Tail(op.todo) = 1 .. Len(op.todo) - 1
      /\ \A i \in 1 .. Len(op.todo) - 1 : Tail(op.todo)[i] = op.todo[i + 1]
  BY <1>2, HeadTailProperties
<1>6. Tail(op.todo) # <<>>
  <2>1. Len(<<>>) = 0
    OBVIOUS
  <2>2. Len(Tail(op.todo)) # 0
    <3>. DEFINE l == Len(op.todo)
                m == Len(Tail(op.todo))
    <3>1. l \in Nat /\ m = l - 1 /\ l > 1
      BY <1>5
    <3>. HIDE DEF l, m
    <3>2. m # 0
      BY <3>1
    <3>. QED BY <3>2 DEF m
  <2>. QED BY <2>1, <2>2, Zenon
<1>. DEFINE rest == Tail(op.todo)
<1>. HIDE DEF rest
<1>7. op' \in Operation /\ op'.todo = rest
  BY <1>1, <1>3, <1>5 DEF Operation, rest
<1>8. /\ op'.session = op.session /\ op'.kind = op.kind
      /\ op'.handle = op.handle /\ op'.before = op.before
  BY <1>1, <1>3 DEF Operation
<1>9. op' # Idle
  BY <1>7, IdleAssumption
<1>10. StepsTypeOK'
  BY <1>4, <1>6, <1>7 DEF StepsInv, StepsTypeOK, rest
<1>. QED BY <1>4, <1>5, <1>7, <1>8, <1>9, <1>10 DEF rest

(* The operation returns Ok.                                               *)
LEMMA LastToDo ==
  ASSUME StepsInv, EngineStep, ~(Len(op.todo) > 1)
  PROVE  /\ Len(op.todo) = 1 /\ op' = Idle
         /\ txn' = [txn EXCEPT ![op.session] = op.handle]
         /\ UNCHANGED <<failures, unlogged>>
         /\ rolled_back' = IF op.kind = "rollback"
                           THEN rolled_back \cup {txn[op.session].version} ELSE rolled_back
         /\ StepsTypeOK'
<1>1. op # Idle
  BY DEF EngineStep
<1>2. Len(op.todo) = 1
  <2>. DEFINE l == Len(op.todo)
  <2>1. l \in Nat \ {0}
    BY <1>1, OperationType
  <2>2. ~(l > 1)
    OBVIOUS
  <2>. HIDE DEF l
  <2>3. l = 1
    BY <2>1, <2>2
  <2>. QED BY <2>3 DEF l
<1>3. /\ op' = Idle
      /\ txn' = [txn EXCEPT ![op.session] = op.handle]
      /\ UNCHANGED <<failures, unlogged>>
      /\ rolled_back' = IF op.kind = "rollback"
                        THEN rolled_back \cup {txn[op.session].version} ELSE rolled_back
  BY DEF EngineStep
<1>4. op.kind = "rollback" => txn[op.session].version \in Version
  <2>. SUFFICES ASSUME op.kind = "rollback" PROVE txn[op.session].version \in Version
    OBVIOUS
  <2>1. op.session \in Live
    BY <1>1 DEF StepsInv, UnderWay, WhileEnding
  <2>. QED BY <2>1, HandleType DEF Live, StepsInv, Ordered
<1>5. StepsTypeOK'
  BY <1>3, <1>4 DEF StepsInv, StepsTypeOK
<1>. QED BY <1>2, <1>3, <1>5

(* What one engine write does, kind by kind.                               *)
LEMMA OneWrite ==
  ASSUME NEW kind, NEW k, NEW v, NEW x, Apply(EngineWrite(kind, k, v, x))
  PROVE  /\ kind = "SetTxnWrite" =>
              /\ txn_write' = [txn_write EXCEPT ![v] = @ \cup {k}]
              /\ UNCHANGED <<next_version, txn_active, versions>>
         /\ kind = "SetVersion" =>
              /\ versions' = [versions EXCEPT ![k][v] = x]
              /\ UNCHANGED <<next_version, txn_active, txn_write>>
         /\ kind = "DeleteTxnActive" =>
              /\ txn_active' = txn_active \ {v}
              /\ UNCHANGED <<next_version, txn_write, versions>>
         /\ kind = "DeleteTxnWrite" =>
              /\ txn_write' = [txn_write EXCEPT ![v] = @ \ {k}]
              /\ UNCHANGED <<next_version, txn_active, versions>>
         /\ kind = "DeleteVersion" =>
              /\ versions' = [versions EXCEPT ![k][v] = Absent]
              /\ UNCHANGED <<next_version, txn_active, txn_write>>
<1>. DEFINE w == EngineWrite(kind, k, v, x)
<1>1. w.kind = kind /\ w.key = k /\ w.version = v /\ w.data = x
  BY DEF EngineWrite
<1>. HIDE DEF w
<1>2. Apply(w)
  BY DEF w
<1>3. next_version' = IF kind = "SetNextVersion" THEN v ELSE next_version
  BY <1>1, <1>2 DEF Apply
<1>4. /\ kind \in {"SetTxnWrite", "DeleteTxnWrite", "SetVersion", "DeleteVersion"} =>
           txn_active' = txn_active
      /\ kind = "DeleteTxnActive" => txn_active' = txn_active \ {v}
  BY <1>1, <1>2 DEF Apply
<1>5. /\ kind \in {"DeleteTxnActive", "SetVersion", "DeleteVersion"} => txn_write' = txn_write
      /\ kind = "SetTxnWrite" => txn_write' = [txn_write EXCEPT ![v] = @ \cup {k}]
      /\ kind = "DeleteTxnWrite" => txn_write' = [txn_write EXCEPT ![v] = @ \ {k}]
  BY <1>1, <1>2 DEF Apply
<1>6. /\ kind \in {"DeleteTxnActive", "SetTxnWrite", "DeleteTxnWrite"} => versions' = versions
      /\ kind = "SetVersion" => versions' = [versions EXCEPT ![k][v] = x]
      /\ kind = "DeleteVersion" => versions' = [versions EXCEPT ![k][v] = Absent]
  BY <1>1, <1>2 DEF Apply
<1>. QED BY <1>3, <1>4, <1>5, <1>6

(* What a begin does: it reserves the next number, then registers it.      *)
LEMMA BeginStep ==
  ASSUME StepsInv, EngineStep, op.kind = "begin"
  PROVE  /\ UNCHANGED <<txn_write, versions, failures, unlogged, rolled_back>>
         /\ op.handle = [version |-> op.handle.version, active_versions |-> txn_active]
         /\ op.handle.version \in Version
         /\ txn[op.session] = NoTxn
         /\ \/ /\ op' # Idle /\ op'.kind = "begin"
               /\ op'.todo = <<EngineWrite("SetTxnActive", None, op.handle.version, None)>>
               /\ op'.handle = op.handle /\ op'.session = op.session
               /\ op.handle.version = next_version /\ next_version' = next_version + 1
               /\ next_version' \in Version
               /\ UNCHANGED <<txn_active, txn>>
            \/ /\ op' = Idle
               /\ Fresh(op.handle.version) /\ Registers(op.session, op.handle.version)
               /\ next_version = op.handle.version + 1 /\ UNCHANGED next_version
               /\ \A v \in rolled_back : v < op.handle.version
         /\ StepsTypeOK'
<1>. DEFINE n == op.handle.version
            reserve == EngineWrite("SetNextVersion", None, n + 1, None)
            activate == EngineWrite("SetTxnActive", None, n, None)
<1>1. op # Idle /\ Apply(Head(op.todo))
  BY DEF EngineStep
<1>2. WhileBeginning
  BY <1>1 DEF StepsInv, UnderWay
<1>3. /\ txn[op.session] = NoTxn
      /\ op.handle = [version |-> n, active_versions |-> txn_active]
      /\ n \in Version
  BY <1>2 DEF WhileBeginning
<1>4. CASE op.todo = <<reserve, activate>> /\ next_version = n
  <2>1. Head(op.todo) = reserve /\ Len(op.todo) > 1 /\ Tail(op.todo) = <<activate>>
    BY <1>4
  <2>2. /\ next_version' = n + 1
        /\ UNCHANGED <<txn_active, txn_write, versions>>
    BY <1>1, <2>1 DEF Apply, EngineWrite
  <2>3. n + 1 \in Version
    <3>1. op.todo[1] \in Writes
      <4>. HIDE DEF reserve, activate
      <4>1. op.todo \in Seq(Writes) /\ 1 \in 1..Len(op.todo)
        BY <1>1, <2>1, OperationType
      <4>. QED BY <4>1
    <3>2. reserve \in Writes /\ reserve.version = n + 1
      <4>1. op.todo[1] = reserve
        BY <1>4
      <4>. QED BY <3>1, <4>1 DEF EngineWrite
    <3>. HIDE DEF reserve
    <3>. QED BY <3>2 DEF Writes
  <2>. QED BY <1>3, <1>4, <2>1, <2>2, <2>3, MoreToDo
<1>5. CASE /\ op.todo = <<activate>>
           /\ next_version = n + 1
           /\ Fresh(n)
           /\ \A v \in rolled_back : v < n
  <2>1. Head(op.todo) = activate /\ ~(Len(op.todo) > 1)
    BY <1>5
  <2>2. /\ txn_active' = txn_active \cup {n}
        /\ UNCHANGED <<next_version, txn_write, versions>>
    BY <1>1, <2>1 DEF Apply, EngineWrite
  <2>3. Registers(op.session, n)
    BY <1>3, <2>1, <2>2, LastToDo DEF Registers
  <2>4. op' = Idle /\ UNCHANGED <<failures, unlogged, rolled_back>> /\ StepsTypeOK'
    BY <2>1, LastToDo
  <2>. QED BY <1>3, <1>5, <2>2, <2>3, <2>4
<1>. QED BY <1>2, <1>4, <1>5 DEF WhileBeginning

(* A begin keeps the invariant at each of its two writes.                  *)
LEMMA BeginStepKeeps ==
  ASSUME StepsInv, EngineStep, op.kind = "begin"
  PROVE  StepsInv'
<1>. DEFINE n == op.handle.version
            s == op.session
<1>1. /\ UNCHANGED <<txn_write, versions, failures, unlogged, rolled_back>>
      /\ op.handle = [version |-> n, active_versions |-> txn_active]
      /\ n \in Version
      /\ txn[s] = NoTxn
      /\ StepsTypeOK'
  BY BeginStep
<1>2. s \in Session /\ op # Idle
  BY OperationType DEF EngineStep
<1>3. /\ \A v \in Version : v \in Nat
      /\ next_version \in Version /\ next_version \in Nat
      /\ rolled_back \subseteq Version
      /\ txn_active \subseteq Version
  BY MaxVersionAssumption DEF StepsInv, Ordered, TypeOK, StepsTypeOK, Version
<1>4. \A k \in Key : Held(k)' = Held(k)
  BY <1>1 DEF Held
<1>5. RollbackUndoesTheRest' /\ \A v \in Version : IsFiniteSet(txn_write'[v])
  BY <1>1 DEF StepsInv, RollbackUndoesTheRest
<1>6. CASE /\ op' # Idle /\ op'.kind = "begin"
           /\ op'.todo = <<EngineWrite("SetTxnActive", None, n, None)>>
           /\ op'.handle = op.handle /\ op'.session = s
           /\ n = next_version /\ next_version' = next_version + 1
           /\ next_version' \in Version
           /\ UNCHANGED <<txn_active, txn>>
  <2>1. TypeOK'
    BY <1>1, <1>6 DEF StepsInv, Ordered, TypeOK
  <2>2. Ordered'
    <3>1. next_version <= next_version' /\ OnlyRemoves
      BY <1>1, <1>3, <1>6 DEF OnlyRemoves
    <3>. QED BY <2>1, <3>1, <1>6, LossKeepsOrder DEF StepsInv
  <2>3. Fresh(n)'
    <3>1. Fresh(n)
      BY <1>6, NextIsFresh DEF StepsInv
    <3>. QED BY <3>1, <1>4, <1>6 DEF Fresh
  <2>4. WhileBeginning'
    BY <1>1, <1>6, <2>3 DEF WhileBeginning, StepsInv, RolledBackOver
  <2>5. UnderWay'
    BY <1>6, <2>4 DEF UnderWay
  <2>6. LoggedOrTaken'
    BY <1>1, <1>6 DEF StepsInv, LoggedOrTaken, Live
  <2>7. RolledBackOver'
    <3>1. \A v \in rolled_back : v < next_version => v < next_version + 1
      BY <1>3
    <3>. QED BY <3>1, <1>1, <1>6 DEF StepsInv, RolledBackOver
  <2>. QED BY <1>1, <1>5, <2>2, <2>5, <2>6, <2>7 DEF StepsInv
<1>7. CASE /\ op' = Idle
           /\ Fresh(n) /\ Registers(s, n)
           /\ next_version = n + 1 /\ UNCHANGED next_version
           /\ \A v \in rolled_back : v < n
  <2>1. TypeOK'
    <3>1. [version |-> n, active_versions |-> txn_active] \in TransactionState
      BY <1>1, <1>3 DEF TransactionState
    <3>. QED BY <1>1, <1>2, <1>7, <3>1 DEF StepsInv, Ordered, TypeOK, Registers
  <2>2. Ordered'
    <3>1. n < next_version'
      <4>. HIDE DEF n
      <4>. QED BY <1>1, <1>3, <1>7
    <3>. QED BY <2>1, <3>1, <1>2, <1>7, RegisterKeepsOrder DEF StepsInv
  <2>3. UnderWay'
    BY <1>7 DEF UnderWay
  <2>4. LoggedOrTaken'
    <3>. SUFFICES ASSUME NEW r \in Live', NEW k \in Key
                  PROVE  \/ k \in txn_write[txn'[r].version]
                         \/ versions[k][txn'[r].version] = Absent
                         \/ <<k, txn'[r].version>> \in unlogged
      BY <1>1, <1>7 DEF LoggedOrTaken
    <3>1. CASE r = s
      <4>1. txn'[r].version = n
        BY <3>1, <1>2, <1>7 DEF Registers, StepsInv, Ordered, TypeOK
      <4>2. n \notin Held(k)
        <5>1. \A v \in Held(k) : v < n /\ n \in Nat
          BY <1>1, <1>3, <1>7 DEF Fresh
        <5>. QED BY <5>1
      <4>. QED BY <4>1, <4>2, <1>1 DEF Held
    <3>2. CASE r # s
      <4>1. r \in Live /\ txn'[r] = txn[r]
        BY <3>2, <1>7 DEF Registers, StepsInv, Ordered, TypeOK, Live
      <4>. QED BY <4>1, <3>2, <1>7, <1>2 DEF StepsInv, LoggedOrTaken
    <3>. QED BY <3>1, <3>2
  <2>5. RolledBackOver'
    <3>1. \A v \in rolled_back : v # n
      <4>. HIDE DEF n
      <4>. QED BY <1>1, <1>3, <1>7
    <3>. QED BY <3>1, <1>1, <1>7 DEF StepsInv, RolledBackOver, Registers
  <2>. QED BY <1>1, <1>5, <2>2, <2>3, <2>4, <2>5 DEF StepsInv
<1>. QED BY <1>6, <1>7, BeginStep

(* What a write does: it logs the key, then writes the data.               *)
LEMMA WriteStep ==
  ASSUME StepsInv, EngineStep, op.kind = "write"
  PROVE  /\ UNCHANGED <<next_version, txn_active, txn, failures, unlogged, rolled_back>>
         /\ op.session \in Live /\ StepsTypeOK'
         /\ \E k \in Key, x \in Opt :
              LET v == txn[op.session].version
              IN  /\ ~WriteConflict(txn[op.session], k)
                  /\ \/ /\ op' # Idle /\ op'.kind = "write"
                        /\ op'.session = op.session /\ op'.handle = txn[op.session]
                        /\ op'.todo = <<EngineWrite("SetVersion", k, v, x)>>
                        /\ UNCHANGED versions
                        /\ txn_write' = [txn_write EXCEPT ![v] = @ \cup {k}]
                     \/ /\ op' = Idle
                        /\ UNCHANGED txn_write
                        /\ k \in txn_write[v]
                        /\ Puts(op.session, k, x)
<1>. DEFINE s == op.session
            v == txn[s].version
<1>1. op # Idle /\ Apply(Head(op.todo))
  BY DEF EngineStep
<1>2. WhileWriting
  BY <1>1 DEF StepsInv, UnderWay
<1>3. s \in Live /\ op.handle = txn[s]
  BY <1>2 DEF WhileWriting
<1>4. PICK k \in Key, x \in Opt :
         /\ ~WriteConflict(txn[s], k)
         /\ \/ op.todo = <<EngineWrite("SetTxnWrite", k, v, None), EngineWrite("SetVersion", k, v, x)>>
            \/ op.todo = <<EngineWrite("SetVersion", k, v, x)>> /\ k \in txn_write[v]
  BY <1>2 DEF WhileWriting
<1>. DEFINE note == EngineWrite("SetTxnWrite", k, v, None)
            data == EngineWrite("SetVersion", k, v, x)
<1>5. CASE op.todo = <<note, data>>
  <2>1. Head(op.todo) = note /\ Len(op.todo) > 1 /\ Tail(op.todo) = <<data>>
    BY <1>5
  <2>2. /\ txn_write' = [txn_write EXCEPT ![v] = @ \cup {k}]
        /\ UNCHANGED <<next_version, txn_active, versions>>
    BY <1>1, <2>1, OneWrite
  <2>3. /\ op' # Idle /\ op'.kind = "write"
        /\ op'.session = s /\ op'.handle = txn[s]
        /\ op'.todo = <<data>>
        /\ UNCHANGED <<txn, rolled_back, failures, unlogged>> /\ StepsTypeOK'
    BY <1>3, <2>1, MoreToDo
  <2>. HIDE DEF data, note
  <2>. QED BY <1>3, <1>4, <2>2, <2>3 DEF data
<1>6. CASE op.todo = <<data>> /\ k \in txn_write[v]
  <2>1. Head(op.todo) = data /\ ~(Len(op.todo) > 1)
    BY <1>6
  <2>2. /\ versions' = [versions EXCEPT ![k][v] = x]
        /\ UNCHANGED <<next_version, txn_active, txn_write>>
    BY <1>1, <2>1, OneWrite
  <2>3. /\ op' = Idle /\ txn' = [txn EXCEPT ![s] = txn[s]]
        /\ UNCHANGED <<rolled_back, failures, unlogged>> /\ StepsTypeOK'
    BY <1>3, <2>1, LastToDo
  <2>4. txn' = txn
    BY <2>3 DEF StepsInv, Ordered, TypeOK
  <2>5. Puts(s, k, x)
    BY <1>3, <1>4, <2>2, <2>4 DEF Puts, Live
  <2>. QED BY <1>3, <1>4, <1>6, <2>2, <2>3, <2>4, <2>5
<1>. QED BY <1>4, <1>5, <1>6

(* A write keeps the invariant at each of its two writes.                  *)
LEMMA WriteStepKeeps ==
  ASSUME StepsInv, EngineStep, op.kind = "write"
  PROVE  StepsInv'
<1>. DEFINE s == op.session
            v == txn[s].version
<1>1. /\ UNCHANGED <<next_version, txn_active, txn, failures, unlogged, rolled_back>>
      /\ s \in Live /\ StepsTypeOK'
  BY WriteStep
<1>2. PICK k \in Key, x \in Opt :
         /\ ~WriteConflict(txn[s], k)
         /\ \/ /\ op' # Idle /\ op'.kind = "write"
               /\ op'.session = s /\ op'.handle = txn[s]
               /\ op'.todo = <<EngineWrite("SetVersion", k, v, x)>>
               /\ UNCHANGED versions
               /\ txn_write' = [txn_write EXCEPT ![v] = @ \cup {k}]
            \/ /\ op' = Idle
               /\ UNCHANGED txn_write
               /\ k \in txn_write[v]
               /\ Puts(s, k, x)
  BY WriteStep
<1>3. /\ s \in Session /\ txn[s] # NoTxn /\ v \in Version /\ v \in txn_active
      /\ txn_write \in [Version -> SUBSET Key]
      /\ versions \in [Key -> [Version -> Opt \cup {Absent}]]
      /\ Live' = Live
      /\ \A u \in Version : IsFiniteSet(txn_write[u])
  BY <1>1, HandleType DEF StepsInv, Ordered, TypeOK, Live, HandlesActive
<1>4. RolledBackOver'
  BY <1>1 DEF StepsInv, RolledBackOver
<1>5. \A r \in Live, j \in Key :
         LET u == txn[r].version
         IN  \/ j \in txn_write[u]
             \/ versions[j][u] = Absent
             \/ <<j, u>> \in unlogged
  BY DEF StepsInv, LoggedOrTaken, EngineStep
<1>6. CASE /\ op' # Idle /\ op'.kind = "write"
           /\ op'.session = s /\ op'.handle = txn[s]
           /\ op'.todo = <<EngineWrite("SetVersion", k, v, x)>>
           /\ UNCHANGED versions
           /\ txn_write' = [txn_write EXCEPT ![v] = @ \cup {k}]
  <2>1. \A u \in Version : txn_write'[u] = IF u = v THEN txn_write[v] \cup {k} ELSE txn_write[u]
    BY <1>3, <1>6
  <2>2. TypeOK'
    BY <1>1, <1>3, <1>6 DEF StepsInv, Ordered, TypeOK
  <2>3. Ordered'
    <3>1. next_version \in Nat
      BY MaxVersionAssumption DEF StepsInv, Ordered, TypeOK, Version
    <3>. QED BY <2>2, <3>1, <1>1, <1>6, LossKeepsOrder DEF StepsInv, OnlyRemoves
  <2>4. ASSUME NEW u \in Version PROVE IsFiniteSet(txn_write'[u])
    <3>1. IsFiniteSet(txn_write[u]) /\ IsFiniteSet(txn_write[u] \cup {k})
      BY <1>3, FS_AddElement
    <3>. QED BY <2>1, <3>1
  <2>5. UnderWay'
    <3>1. ~WriteConflict(txn[s], k)'
      BY <1>1, <1>2, <1>6 DEF WriteConflict, Scan, Held, ConflictFrom, IsVisible
    <3>2. k \in txn_write'[v]
      BY <2>1, <1>3
    <3>3. WhileWriting'
      BY <1>1, <1>3, <1>6, <3>1, <3>2 DEF WhileWriting
    <3>. QED BY <3>3, <1>6 DEF UnderWay
  <2>6. LoggedOrTaken'
    <3>1. \A r \in Live, j \in Key : txn[r].version \in Version
      BY HandleType DEF StepsInv, Ordered, Live
    <3>2. \A u \in Version : txn_write[u] \subseteq txn_write'[u]
      BY <2>1
    <3>. QED BY <3>1, <3>2, <1>1, <1>3, <1>5, <1>6 DEF LoggedOrTaken
  <2>7. RollbackUndoesTheRest'
    BY <1>1, <1>6 DEF StepsInv, RollbackUndoesTheRest
  <2>. QED BY <1>1, <1>4, <2>3, <2>4, <2>5, <2>6, <2>7 DEF StepsInv
<1>7. CASE op' = Idle /\ UNCHANGED txn_write /\ k \in txn_write[v] /\ Puts(s, k, x)
  <2>1. \A j \in Key : \A u \in Version :
           versions'[j][u] = IF j = k /\ u = v THEN x ELSE versions[j][u]
    BY <1>3, <1>7 DEF Puts
  <2>2. TypeOK'
    BY <1>1, <1>3, <1>7 DEF StepsInv, Ordered, TypeOK, Puts
  <2>3. Ordered'
    BY <2>2, <1>1, <1>3, <1>7, PutKeepsOrder DEF StepsInv
  <2>4. UnderWay'
    BY <1>7 DEF UnderWay
  <2>5. LoggedOrTaken'
    <3>1. \A r \in Live : txn[r].version \in Version
      BY HandleType DEF StepsInv, Ordered, Live
    <3>. QED BY <3>1, <2>1, <1>1, <1>3, <1>5, <1>7 DEF LoggedOrTaken
  <2>6. RollbackUndoesTheRest'
    <3>1. v \notin rolled_back /\ rolled_back \subseteq Version
      BY <1>3 DEF StepsInv, RolledBackOver, StepsTypeOK
    <3>. QED BY <3>1, <2>1, <1>1 DEF StepsInv, RollbackUndoesTheRest
  <2>. QED BY <1>1, <1>3, <1>4, <1>7, <2>3, <2>4, <2>5, <2>6 DEF StepsInv
<1>. QED BY <1>2, <1>6, <1>7

(* What a commit and a rollback do: deletions of the transaction's own     *)
(* keys, and at last the end of the transaction.                           *)
LEMMA EndStep ==
  ASSUME StepsInv, EngineStep, op.kind \in {"commit", "rollback"}
  PROVE  LET v == txn[op.session].version
             w == op.todo[1]
         IN  /\ UNCHANGED <<next_version, failures, unlogged>>
             /\ op.session \in Live /\ op.handle = NoTxn /\ StepsTypeOK'
             /\ \/ /\ Len(op.todo) > 1
                   /\ UNCHANGED <<txn, txn_active, rolled_back>>
                   /\ w.key \in Key
                   /\ \/ /\ w.kind = "DeleteTxnWrite"
                         /\ UNCHANGED versions
                         /\ txn_write' = [txn_write EXCEPT ![v] = @ \ {w.key}]
                      \/ /\ w.kind = "DeleteVersion" /\ op.kind = "rollback"
                         /\ UNCHANGED txn_write
                         /\ versions' = [versions EXCEPT ![w.key][v] = Absent]
                \/ /\ Len(op.todo) = 1
                   /\ op' = Idle
                   /\ Ends(op.session)
                   /\ UNCHANGED <<txn_write, versions>>
                   /\ rolled_back' = IF op.kind = "rollback" THEN rolled_back \cup {v} ELSE rolled_back
<1>. DEFINE s == op.session
            v == txn[s].version
            w == op.todo[1]
            l == Len(op.todo)
<1>1. op # Idle /\ Apply(Head(op.todo))
  BY DEF EngineStep
<1>2. op.todo \in Seq(Writes) /\ l \in Nat \ {0}
  BY <1>1, OperationType
<1>3. Head(op.todo) = w /\ w \in Writes
  <2>1. 1 \in 1..Len(op.todo)
    <3>. HIDE DEF l
    <3>1. 1 \in 1..l
      BY <1>2
    <3>. QED BY <3>1 DEF l
  <2>. QED BY <2>1, <1>2
<1>4. w = EngineWrite(w.kind, w.key, w.version, w.data)
  BY <1>3 DEF Writes, EngineWrite
<1>5. WhileEnding
  BY <1>1 DEF StepsInv, UnderWay
<1>6. /\ s \in Live /\ op.handle = NoTxn
      /\ op.todo[l] = EngineWrite("DeleteTxnActive", None, v, None)
      /\ \A i \in 1 .. l - 1 :
            /\ op.todo[i].kind \in IF op.kind = "commit" THEN {"DeleteTxnWrite"}
                                   ELSE {"DeleteVersion", "DeleteTxnWrite"}
            /\ op.todo[i].key \in Key
            /\ op.todo[i].version = v
  BY <1>5 DEF WhileEnding
<1>. HIDE DEF l, w
<1>7. Apply(EngineWrite(w.kind, w.key, w.version, w.data))
  BY <1>1, <1>3, <1>4
<1>8. CASE l > 1
  <2>1. 1 \in 1 .. l - 1
    BY <1>2, <1>8
  <2>2. /\ w.kind \in IF op.kind = "commit" THEN {"DeleteTxnWrite"}
                      ELSE {"DeleteVersion", "DeleteTxnWrite"}
        /\ w.key \in Key /\ w.version = v
    BY <2>1, <1>6 DEF w
  <2>3. UNCHANGED <<txn, rolled_back, failures, unlogged>> /\ StepsTypeOK'
    BY <1>8, MoreToDo DEF l
  <2>4. CASE w.kind = "DeleteTxnWrite"
    <3>1. /\ txn_write' = [txn_write EXCEPT ![w.version] = @ \ {w.key}]
          /\ UNCHANGED <<next_version, txn_active, versions>>
      BY <1>7, <2>4, OneWrite
    <3>. QED BY <3>1, <2>2, <2>3, <2>4, <1>6, <1>8 DEF w, l
  <2>5. CASE w.kind = "DeleteVersion" /\ op.kind = "rollback"
    <3>1. /\ versions' = [versions EXCEPT ![w.key][w.version] = Absent]
          /\ UNCHANGED <<next_version, txn_active, txn_write>>
      BY <1>7, <2>5, OneWrite
    <3>. QED BY <3>1, <2>2, <2>3, <2>5, <1>6, <1>8 DEF w, l
  <2>. QED BY <2>2, <2>4, <2>5
<1>9. CASE ~(l > 1)
  <2>1. l = 1
    BY <1>2, <1>9
  <2>2. w = EngineWrite("DeleteTxnActive", None, v, None)
    BY <2>1, <1>6 DEF w
  <2>3. w.kind = "DeleteTxnActive" /\ w.version = v
    BY <2>2 DEF EngineWrite
  <2>4. /\ txn_active' = txn_active \ {w.version}
        /\ UNCHANGED <<next_version, txn_write, versions>>
    BY <1>7, <2>3, OneWrite
  <2>5. /\ op' = Idle
        /\ txn' = [txn EXCEPT ![s] = op.handle]
        /\ UNCHANGED <<failures, unlogged>>
        /\ rolled_back' = IF op.kind = "rollback" THEN rolled_back \cup {v} ELSE rolled_back
        /\ StepsTypeOK'
    BY <1>9, LastToDo DEF l
  <2>6. Ends(s)
    BY <2>3, <2>4, <2>5, <1>6 DEF Ends, Live
  <2>. QED BY <2>1, <2>4, <2>5, <2>6, <1>6 DEF l
<1>. QED BY <1>8, <1>9

(* The deletions of a commit or a rollback keep the invariant.             *)
LEMMA DeletionKeeps ==
  ASSUME StepsInv, EngineStep, op.kind \in {"commit", "rollback"}, Len(op.todo) > 1
  PROVE  StepsInv'
<1>. DEFINE s == op.session
            v == txn[s].version
            w == op.todo[1]
            l == Len(op.todo)
<1>1. /\ UNCHANGED <<next_version, failures, unlogged, txn, txn_active, rolled_back>>
      /\ s \in Live /\ op.handle = NoTxn /\ StepsTypeOK'
      /\ w.key \in Key
      /\ \/ /\ w.kind = "DeleteTxnWrite"
            /\ UNCHANGED versions
            /\ txn_write' = [txn_write EXCEPT ![v] = @ \ {w.key}]
         \/ /\ w.kind = "DeleteVersion" /\ op.kind = "rollback"
            /\ UNCHANGED txn_write
            /\ versions' = [versions EXCEPT ![w.key][v] = Absent]
  <2>1. ~(Len(op.todo) = 1)
    <3>1. l > 1
      OBVIOUS
    <3>. HIDE DEF l
    <3>2. l # 1
      BY <3>1
    <3>. QED BY <3>2 DEF l
  <2>. QED BY <2>1, EndStep
<1>2. /\ s \in Session /\ txn[s] # NoTxn /\ v \in Version /\ v \in txn_active
      /\ txn_write \in [Version -> SUBSET Key]
      /\ versions \in [Key -> [Version -> Opt \cup {Absent}]]
      /\ Live' = Live
      /\ \A u \in Version : IsFiniteSet(txn_write[u])
  BY <1>1, HandleType DEF StepsInv, Ordered, TypeOK, Live, HandlesActive
<1>3. /\ op' # Idle /\ op # Idle
      /\ op'.session = s /\ op'.kind = op.kind
      /\ op'.handle = op.handle /\ op'.before = op.before
      /\ Len(op'.todo) = l - 1 /\ l \in Nat
      /\ DOMAIN op'.todo = 1 .. l - 1
      /\ \A i \in 1 .. l - 1 : op'.todo[i] = op.todo[i + 1]
  BY MoreToDo DEF EngineStep
<1>4. WhileEnding /\ (op.kind = "rollback" => WhileRollingBack)
  BY <1>3 DEF StepsInv, UnderWay
<1>. DEFINE o == op.todo
<1>5. /\ o[l] = EngineWrite("DeleteTxnActive", None, v, None)
      /\ \A i \in 1 .. l - 1 :
            /\ o[i].kind \in IF op.kind = "commit" THEN {"DeleteTxnWrite"}
                             ELSE {"DeleteVersion", "DeleteTxnWrite"}
            /\ o[i].key \in Key
            /\ o[i].version = v
  BY <1>4 DEF WhileEnding
<1>6. l > 1
  OBVIOUS
<1>7. DOMAIN o = 1 .. l
  BY <1>3, OperationType
<1>8. \A j \in Key : \A u \in Version :
         versions'[j][u] = IF w.kind = "DeleteVersion" /\ j = w.key /\ u = v
                           THEN Absent ELSE versions[j][u]
  <2>. HIDE DEF w, v, s
  <2>. QED BY <1>1, <1>2
<1>9. \A u \in Version :
         txn_write'[u] = IF w.kind = "DeleteTxnWrite" /\ u = v
                         THEN txn_write[u] \ {w.key} ELSE txn_write[u]
  <2>. HIDE DEF w, v, s
  <2>. QED BY <1>1, <1>2
<1>10. TypeOK'
  <2>. HIDE DEF w, v, s
  <2>. QED BY <1>1, <1>2 DEF StepsInv, Ordered, TypeOK
<1>11. Ordered'
  <2>1. next_version \in Nat
    BY MaxVersionAssumption DEF StepsInv, Ordered, TypeOK, Version
  <2>2. OnlyRemoves
    BY <1>8 DEF OnlyRemoves
  <2>. QED BY <2>1, <2>2, <1>1, <1>10, LossKeepsOrder DEF StepsInv
<1>12. ASSUME NEW u \in Version PROVE IsFiniteSet(txn_write'[u])
  <2>1. IsFiniteSet(txn_write[u])
    BY <1>2
  <2>2. IsFiniteSet(txn_write[u] \ {w.key})
    BY <2>1, FS_RemoveElement
  <2>. QED BY <2>1, <2>2, <1>9
<1>13. ASSUME op.kind = "rollback", NEW k \in Key
       PROVE  /\ versions'[k][v] \in {op.before[k][v], Absent}
              /\ \/ versions'[k][v] = Absent
                 \/ <<k, v>> \in unlogged
                 \/ \E i \in 2 .. l - 1 : o[i].kind = "DeleteVersion" /\ o[i].key = k
              /\ \A i \in 2 .. l - 1 :
                    o[i].kind = "DeleteTxnWrite" /\ o[i].key = k =>
                       \/ versions'[k][v] = Absent
                       \/ \E j \in 2 .. i - 1 : o[j].kind = "DeleteVersion" /\ o[j].key = k
              /\ w.kind = "DeleteTxnWrite" /\ w.key = k => versions[k][v] = Absent
  <2>1. /\ versions[k][v] \in {op.before[k][v], Absent}
        /\ \/ versions[k][v] = Absent
           \/ <<k, v>> \in unlogged
           \/ \E i \in 1 .. l : i < l /\ o[i].kind = "DeleteVersion" /\ o[i].key = k
        /\ \A i \in 1 .. l :
              i < l /\ o[i].kind = "DeleteTxnWrite" /\ o[i].key = k =>
                 \/ versions[k][v] = Absent
                 \/ \E j \in 1 .. i - 1 : j < l /\ o[j].kind = "DeleteVersion" /\ o[j].key = k
    BY <1>4, <1>7, <1>13 DEF WhileRollingBack, Deletes
  <2>. HIDE DEF l, o, v, s
  <2>2. versions'[k][v] \in {versions[k][v], Absent}
    BY <1>2, <1>8
  <2>3. o[1].kind = "DeleteVersion" /\ o[1].key = k => versions'[k][v] = Absent
    BY <1>2, <1>8 DEF o
  <2>4. ASSUME versions'[k][v] # Absent, <<k, v>> \notin unlogged
        PROVE  \E i \in 2 .. l - 1 : o[i].kind = "DeleteVersion" /\ o[i].key = k
    <3>1. PICK i \in 1 .. l : i < l /\ o[i].kind = "DeleteVersion" /\ o[i].key = k
      BY <2>1, <2>2, <2>4
    <3>2. i # 1
      BY <2>3, <2>4, <3>1
    <3>3. i \in 2 .. l - 1
      BY <3>1, <3>2, <1>3
    <3>. QED BY <3>1, <3>3
  <2>5. ASSUME NEW i \in 2 .. l - 1, o[i].kind = "DeleteTxnWrite", o[i].key = k,
               versions'[k][v] # Absent
        PROVE  \E j \in 2 .. i - 1 : o[j].kind = "DeleteVersion" /\ o[j].key = k
    <3>1. i \in 1 .. l /\ i < l
      BY <1>3
    <3>2. PICK j \in 1 .. i - 1 : o[j].kind = "DeleteVersion" /\ o[j].key = k
      BY <2>1, <2>2, <2>5, <3>1
    <3>3. j # 1
      BY <2>3, <2>5, <3>2
    <3>4. j \in 2 .. i - 1
      BY <3>2, <3>3, <3>1
    <3>. QED BY <3>2, <3>4
  <2>6. o[1].kind = "DeleteTxnWrite" /\ o[1].key = k => versions[k][v] = Absent
    <3>1. 1 \in 1 .. l /\ 1 < l /\ 1 .. 1 - 1 = {}
      BY <1>3, <1>6 DEF l
    <3>. QED BY <2>1, <3>1
  <2>. QED BY <2>1, <2>2, <2>4, <2>5, <2>6 DEF o
<1>. DEFINE n == op'.todo
<1>14. /\ Len(n) = l - 1 /\ DOMAIN n = 1 .. l - 1
       /\ \A i \in 1 .. l - 1 : n[i] = o[i + 1]
  BY <1>3
<1>15. WhileEnding'
  <2>1. n[l - 1] = EngineWrite("DeleteTxnActive", None, v, None)
    <3>. HIDE DEF l, n, o, v
    <3>1. l - 1 \in 1 .. l - 1 /\ (l - 1) + 1 = l
      BY <1>3, <1>6 DEF l
    <3>. QED BY <3>1, <1>5, <1>14
  <2>2. \A i \in 1 .. (l - 1) - 1 :
            /\ n[i].kind \in IF op.kind = "commit" THEN {"DeleteTxnWrite"}
                             ELSE {"DeleteVersion", "DeleteTxnWrite"}
            /\ n[i].key \in Key
            /\ n[i].version = v
    <3>. HIDE DEF l, n, o, v
    <3>1. \A i \in 1 .. (l - 1) - 1 : i \in 1 .. l - 1 /\ i + 1 \in 1 .. l - 1
      BY <1>3 DEF l
    <3>. QED BY <3>1, <1>5, <1>14
  <2>3. v' = v /\ s' = s
    BY <1>1, <1>3
  <2>. QED BY <2>1, <2>2, <2>3, <1>1, <1>2, <1>3, <1>14 DEF WhileEnding
<1>16. op.kind = "rollback" => WhileRollingBack'
  <2>. SUFFICES ASSUME op.kind = "rollback" PROVE WhileRollingBack'
    OBVIOUS
  <2>. DEFINE Will(i, kind, k) == i < l - 1 /\ n[i].kind = kind /\ n[i].key = k
  <2>00. \A i, kind, k : Deletes(i, kind, k)' <=> Will(i, kind, k)
    BY <1>14 DEF Deletes
  <2>01. /\ DOMAIN op'.todo = 1 .. l - 1
         /\ v' = v /\ unlogged' = unlogged /\ op'.before = op.before
    BY <1>1, <1>3
  <2>. HIDE DEF Will
  <2>. SUFFICES ASSUME NEW k \in Key
                PROVE  /\ versions'[k][v] \in {op.before[k][v], Absent}
                       /\ \/ versions'[k][v] = Absent
                          \/ <<k, v>> \in unlogged
                          \/ \E i \in 1 .. l - 1 : Will(i, "DeleteVersion", k)
                       /\ \A i \in 1 .. l - 1 :
                             Will(i, "DeleteTxnWrite", k) =>
                                \/ versions'[k][v] = Absent
                                \/ \E j \in 1 .. i - 1 : Will(j, "DeleteVersion", k)
    BY <2>00, <2>01 DEF WhileRollingBack
  <2>. USE DEF Will
  <2>. HIDE DEF l, n, o, v, s
  <2>0. \A i \in 2 .. l - 1 : i - 1 \in 1 .. l - 1 /\ i - 1 < l - 1 /\ n[i - 1] = o[i]
    <3>1. \A i \in 2 .. l - 1 : i - 1 \in 1 .. l - 1 /\ i - 1 < l - 1 /\ (i - 1) + 1 = i
      BY <1>3 DEF l
    <3>. QED BY <3>1, <1>14
  <2>1. \/ versions'[k][v] = Absent
        \/ <<k, v>> \in unlogged
        \/ \E i \in 1 .. l - 1 : i < l - 1 /\ n[i].kind = "DeleteVersion" /\ n[i].key = k
    BY <2>0, <1>13
  <2>2. ASSUME NEW i \in 1 .. l - 1, i < l - 1, n[i].kind = "DeleteTxnWrite", n[i].key = k,
               versions'[k][v] # Absent
        PROVE  \E j \in 1 .. i - 1 : j < l - 1 /\ n[j].kind = "DeleteVersion" /\ n[j].key = k
    <3>1. i + 1 \in 2 .. l - 1 /\ n[i] = o[i + 1] /\ (i + 1) - 1 = i
      BY <2>2, <1>3, <1>14 DEF l
    <3>2. PICK j \in 2 .. (i + 1) - 1 : o[j].kind = "DeleteVersion" /\ o[j].key = k
      BY <2>2, <3>1, <1>13
    <3>3. j - 1 \in 1 .. i - 1 /\ j \in 2 .. l - 1
      BY <3>1, <3>2, <1>3 DEF l
    <3>4. n[j - 1] = o[j] /\ j - 1 < l - 1
      BY <3>3, <2>0
    <3>. QED BY <3>2, <3>3, <3>4
  <2>. QED BY <2>1, <2>2, <1>13
<1>17. UnderWay'
  BY <1>3, <1>15, <1>16 DEF UnderWay
<1>18. LoggedOrTaken'
  <2>. SUFFICES ASSUME NEW r \in Live, NEW k \in Key
                PROVE  \/ k \in txn_write'[txn[r].version]
                       \/ versions'[k][txn[r].version] = Absent
                       \/ <<k, txn[r].version>> \in unlogged
                       \/ s = r /\ op.kind = "commit"
    BY <1>1, <1>2, <1>3 DEF LoggedOrTaken
  <2>1. \/ k \in txn_write[txn[r].version]
        \/ versions[k][txn[r].version] = Absent
        \/ <<k, txn[r].version>> \in unlogged
        \/ s = r /\ op.kind = "commit"
    BY DEF StepsInv, LoggedOrTaken
  <2>2. txn[r].version \in Version
    BY HandleType DEF StepsInv, Ordered, Live
  <2>3. CASE r = s /\ op.kind = "rollback"
    <3>1. w.kind = "DeleteTxnWrite" /\ w.key = k => versions[k][v] = Absent
      BY <2>3, <1>13
    <3>2. \/ k \in txn_write'[v] \/ versions'[k][v] = Absent \/ <<k, v>> \in unlogged
      <4>1. \/ k \in txn_write[v] \/ versions[k][v] = Absent \/ <<k, v>> \in unlogged
        BY <2>1, <2>3
      <4>. HIDE DEF v, w, s
      <4>. QED BY <4>1, <3>1, <1>2, <1>8, <1>9
    <3>. QED BY <3>2, <2>3
  <2>4. CASE r # s
    <3>1. txn[r].version # v
      BY <2>4, <1>1 DEF StepsInv, Ordered, HandlesActive
    <3>. QED BY <3>1, <2>1, <2>2, <2>4, <1>8, <1>9
  <2>. QED BY <2>3, <2>4
<1>19. RolledBackOver'
  BY <1>1 DEF StepsInv, RolledBackOver
<1>20. RollbackUndoesTheRest'
  <2>1. rolled_back \subseteq Version
    BY DEF StepsInv, StepsTypeOK
  <2>. QED BY <2>1, <1>1, <1>8 DEF StepsInv, RollbackUndoesTheRest
<1>. QED BY <1>1, <1>11, <1>12, <1>17, <1>18, <1>19, <1>20 DEF StepsInv

(* The last write of a commit or a rollback keeps the invariant.           *)
LEMMA EndKeeps ==
  ASSUME StepsInv, EngineStep, op.kind \in {"commit", "rollback"}, ~(Len(op.todo) > 1)
  PROVE  StepsInv'
<1>. DEFINE s == op.session
            v == txn[s].version
<1>1. /\ UNCHANGED <<next_version, failures, unlogged, txn_write, versions>>
      /\ s \in Live /\ StepsTypeOK'
      /\ Len(op.todo) = 1
      /\ op' = Idle
      /\ Ends(s)
      /\ rolled_back' = IF op.kind = "rollback" THEN rolled_back \cup {v} ELSE rolled_back
  BY EndStep
<1>2. /\ s \in Session /\ txn[s] # NoTxn /\ v \in Version /\ v \in txn_active
  BY <1>1, HandleType DEF StepsInv, Ordered, Live, HandlesActive
<1>3. op # Idle
  BY DEF EngineStep
<1>4. TypeOK'
  BY <1>1, <1>2 DEF StepsInv, Ordered, TypeOK, Ends
<1>5. Ordered'
  <2>1. OnlyRemoves
    BY <1>1 DEF OnlyRemoves
  <2>. QED BY <2>1, <1>1, <1>2, <1>4, EndKeepsOrder DEF StepsInv
<1>6. UnderWay'
  BY <1>1 DEF UnderWay
<1>7. LoggedOrTaken'
  <2>1. \A r \in Live' : r \in Live /\ r # s /\ txn'[r] = txn[r]
    BY <1>1, <1>2 DEF Ends, Live, StepsInv, Ordered, TypeOK
  <2>. QED BY <2>1, <1>1 DEF StepsInv, LoggedOrTaken
<1>8. RolledBackOver'
  <2>1. v < next_version
    BY <1>2 DEF StepsInv, Ordered, VersionsAllocated
  <2>. QED BY <2>1, <1>1 DEF StepsInv, RolledBackOver, Ends
<1>9. RollbackUndoesTheRest'
  <2>1. ASSUME op.kind = "rollback", NEW k \in Key
        PROVE  versions[k][v] = Absent \/ <<k, v>> \in unlogged
    <3>1. WhileRollingBack
      BY <2>1, <1>3 DEF StepsInv, UnderWay
    <3>2. DOMAIN op.todo = 1..1
      BY <1>1, <1>3, OperationType
    <3>3. \A i \in DOMAIN op.todo : ~Deletes(i, "DeleteVersion", k)
      BY <1>1, <3>2 DEF Deletes
    <3>. QED BY <3>1, <3>3 DEF WhileRollingBack
  <2>. QED BY <2>1, <1>1 DEF StepsInv, RollbackUndoesTheRest
<1>. QED BY <1>1, <1>5, <1>6, <1>7, <1>8, <1>9 DEF StepsInv

-----------------------------------------------------------------------------
(* The invariant of the transaction layer, one engine write at a time.     *)

(* At the start nothing is stored and nobody holds the mutex.              *)
LEMMA StepsInitInv == StepsInit => StepsInv
<1>. SUFFICES ASSUME StepsInit PROVE StepsInv
  OBVIOUS
<1>1. Init /\ op = Idle /\ failures = 0 /\ rolled_back = {} /\ unlogged = {}
  BY DEF StepsInit
<1>2. Ordered
  BY <1>1, InitInv DEF Inv
<1>3. StepsTypeOK
  BY <1>1, MaxFailuresAssumption DEF StepsTypeOK
<1>4. \A v \in Version : IsFiniteSet(txn_write[v])
  BY <1>1, FS_EmptySet DEF Init
<1>5. UnderWay /\ LoggedOrTaken /\ RolledBackOver /\ RollbackUndoesTheRest
  BY <1>1 DEF UnderWay, LoggedOrTaken, RolledBackOver, RollbackUndoesTheRest, Init, Live
<1>. QED BY <1>2, <1>3, <1>4, <1>5 DEF StepsInv

(* A failed write ends the operation; what a commit had taken off the log  *)
(* is remembered.                                                          *)
LEMMA ErrorKeeps ==
  ASSUME StepsInv, EngineError
  PROVE  StepsInv'
<1>. DEFINE s == op.session
            v == txn[s].version
            taken == {<<k, v>> : k \in {j \in Key : versions[j][v] # Absent} \ txn_write[v]}
<1>1. /\ op # Idle /\ op' = Idle
      /\ failures < MaxFailures /\ failures' = failures + 1
      /\ unlogged' = IF op.kind # "commit" THEN unlogged ELSE unlogged \cup taken
      /\ UNCHANGED <<next_version, txn_active, txn_write, versions, txn, rolled_back>>
  BY DEF EngineError
<1>2. op.kind = "commit" => v \in Version
  <2>. SUFFICES ASSUME op.kind = "commit" PROVE v \in Version
    OBVIOUS
  <2>1. s \in Live
    BY <1>1 DEF StepsInv, UnderWay, WhileEnding
  <2>. QED BY <2>1, HandleType DEF Live, StepsInv, Ordered
<1>3. Ordered'
  <2>1. TypeOK'
    BY <1>1 DEF StepsInv, Ordered, TypeOK
  <2>2. next_version \in Nat
    BY MaxVersionAssumption DEF StepsInv, Ordered, TypeOK, Version
  <2>. QED BY <1>1, <2>1, <2>2, LossKeepsOrder DEF StepsInv, OnlyRemoves
<1>4. StepsTypeOK'
  <2>1. failures + 1 \in 0..MaxFailures
    BY <1>1, MaxFailuresAssumption DEF StepsInv, StepsTypeOK
  <2>2. unlogged' \subseteq Key \X Version
    BY <1>1, <1>2 DEF StepsInv, StepsTypeOK
  <2>. QED BY <1>1, <2>1, <2>2 DEF StepsInv, StepsTypeOK
<1>5. UnderWay'
  BY <1>1 DEF UnderWay
<1>6. LoggedOrTaken'
  <2>. SUFFICES ASSUME NEW r \in Live, NEW k \in Key
                PROVE  \/ k \in txn_write[txn[r].version]
                       \/ versions[k][txn[r].version] = Absent
                       \/ <<k, txn[r].version>> \in unlogged'
    BY <1>1 DEF LoggedOrTaken, Live
  <2>1. CASE s = r /\ op.kind = "commit"
    BY <2>1, <1>1
  <2>2. CASE ~(s = r /\ op.kind = "commit")
    <3>1. \/ k \in txn_write[txn[r].version]
          \/ versions[k][txn[r].version] = Absent
          \/ <<k, txn[r].version>> \in unlogged
      BY <2>2 DEF StepsInv, LoggedOrTaken
    <3>. QED BY <3>1, <1>1
  <2>. QED BY <2>1, <2>2
<1>7. RolledBackOver'
  BY <1>1 DEF StepsInv, RolledBackOver
<1>8. RollbackUndoesTheRest'
  BY <1>1 DEF StepsInv, RollbackUndoesTheRest
<1>. QED BY <1>1, <1>3, <1>4, <1>5, <1>6, <1>7, <1>8 DEF StepsInv

(* A crash, or a connection that ends: handles disappear, and with them    *)
(* the operation that was under way.                                       *)
LEMMA HandlesLostKeep ==
  ASSUME StepsInv, op' = Idle, \A r \in Session : txn'[r] \in {txn[r], NoTxn},
         txn' \in [Session -> TransactionState \cup {NoTxn}],
         op = Idle \/ Live' = {},
         UNCHANGED <<next_version, txn_active, txn_write, versions, failures, rolled_back,
                     unlogged>>
  PROVE  StepsInv'
<1>1. Ordered'
  <2>1. TypeOK'
    BY DEF StepsInv, Ordered, TypeOK
  <2>2. next_version \in Nat
    BY MaxVersionAssumption DEF StepsInv, Ordered, TypeOK, Version
  <2>. QED BY <2>1, <2>2, LossKeepsOrder DEF StepsInv, OnlyRemoves
<1>2. StepsTypeOK' /\ UnderWay' /\ RolledBackOver' /\ RollbackUndoesTheRest'
  BY DEF StepsInv, StepsTypeOK, UnderWay, RolledBackOver, RollbackUndoesTheRest
<1>3. LoggedOrTaken'
  <2>1. \A r \in Live' : r \in Live /\ txn'[r] = txn[r]
    BY DEF Live
  <2>. QED BY <2>1 DEF StepsInv, LoggedOrTaken
<1>. QED BY <1>1, <1>2, <1>3 DEF StepsInv

(* Each action of the transaction layer keeps the invariant.               *)
LEMMA StepsNextInv == StepsInv /\ [StepsNext]_stepVars => StepsInv'
<1>. SUFFICES ASSUME StepsInv, [StepsNext]_stepVars PROVE StepsInv'
  OBVIOUS
<1>1. ASSUME NEW s \in Session, StartBegin(s) PROVE StepsInv'
  BY <1>1, StartBeginKeeps
<1>2. ASSUME NEW s \in Session, NEW k \in Key, NEW x \in Opt, StartWriteInner(s, k, x)
      PROVE StepsInv'
  BY <1>2, StartWriteInnerKeeps
<1>3. ASSUME NEW s \in Session, StartCommit(s) PROVE StepsInv'
  BY <1>3, StartCommitKeeps
<1>4. ASSUME NEW s \in Session, StartRollback(s) PROVE StepsInv'
  BY <1>4, StartRollbackKeeps
<1>5. ASSUME NEW s \in Session, Disconnect(s) PROVE StepsInv'
  <2>1. \A r \in Session : txn'[r] \in {txn[r], NoTxn}
    BY <1>5 DEF Disconnect, Abandon, StepsInv, Ordered, TypeOK
  <2>2. txn' \in [Session -> TransactionState \cup {NoTxn}]
    BY <1>5 DEF Disconnect, Abandon, StepsInv, Ordered, TypeOK
  <2>. QED BY <1>5, <2>1, <2>2, HandlesLostKeep DEF Disconnect, Abandon
<1>6. CASE EngineStep
  <2>1. op.kind \in Kind
    BY <1>6, OperationType DEF EngineStep
  <2>. QED BY <1>6, <2>1, BeginStepKeeps, WriteStepKeeps, DeletionKeeps, EndKeeps DEF Kind
<1>7. CASE EngineError
  BY <1>7, ErrorKeeps
<1>8. CASE Crash
  <2>1. txn' = [r \in Session |-> NoTxn] /\ Live' = {}
    BY <1>8 DEF Crash, Live
  <2>. QED BY <1>8, <2>1, HandlesLostKeep DEF Crash
<1>9. CASE UNCHANGED stepVars
  <2>1. UNCHANGED <<next_version, txn_active, txn_write, versions, txn,
                    op, failures, rolled_back, unlogged>>
    BY <1>9 DEF stepVars
  <2>2. Ordered'
    <3>1. TypeOK'
      BY <2>1 DEF StepsInv, Ordered, TypeOK
    <3>2. next_version \in Nat
      BY MaxVersionAssumption DEF StepsInv, Ordered, TypeOK, Version
    <3>. QED BY <2>1, <3>1, <3>2, LossKeepsOrder DEF StepsInv, OnlyRemoves
  <2>3. StepsTypeOK' /\ LoggedOrTaken' /\ RolledBackOver' /\ RollbackUndoesTheRest'
    BY <2>1 DEF StepsInv, StepsTypeOK, LoggedOrTaken, RolledBackOver, RollbackUndoesTheRest, Live
  <2>4. UnderWay'
    <3>1. Live' = Live /\ \A t, k : WriteConflict(t, k)' <=> WriteConflict(t, k)
      BY <2>1 DEF Live, WriteConflict, Scan, Held, ConflictFrom, IsVisible
    <3>2. WhileBeginning => WhileBeginning'
      BY <2>1 DEF WhileBeginning, Fresh, Held
    <3>3. WhileWriting => WhileWriting'
      BY <2>1, <3>1 DEF WhileWriting
    <3>4. WhileEnding => WhileEnding'
      BY <2>1, <3>1 DEF WhileEnding
    <3>5. WhileRollingBack => WhileRollingBack'
      BY <2>1 DEF WhileRollingBack, Deletes
    <3>. QED BY <2>1, <3>2, <3>3, <3>4, <3>5 DEF StepsInv, UnderWay
  <2>. QED BY <2>1, <2>2, <2>3, <2>4 DEF StepsInv
<1>. QED BY <1>1, <1>2, <1>3, <1>4, <1>5, <1>6, <1>7, <1>8, <1>9 DEF StepsNext

(* The invariant of the transaction layer holds between any two of its     *)
(* writes, whatever fails and whenever the process crashes.                *)
THEOREM StepsInvariant == StepsSpec => []StepsInv
<1>. QED BY StepsInitInv, StepsNextInv, PTL DEF StepsSpec

(* A rollback that returned Ok left no version of its transaction behind,  *)
(* but for keys that a failed commit had taken off the undo log before.    *)
THEOREM RollbackUndoes == StepsSpec => []RollbackUndoesTheRest
<1>1. StepsInv => RollbackUndoesTheRest
  BY DEF StepsInv
<1>. QED BY <1>1, StepsInvariant, PTL

(* Every version that is still uncommitted is the newest of its key, also  *)
(* in the middle of an operation and after one that failed or crashed.     *)
THEOREM UncommittedStaysNewest == StepsSpec => []OnlyNewestUncommitted
<1>1. StepsInv => OnlyNewestUncommitted
  BY DEF StepsInv, Ordered
<1>. QED BY <1>1, StepsInvariant, PTL

(* Looking at the last version of the range stays enough for write_inner   *)
(* when operations were cut short.                                         *)
THEOREM CheckStaysExact == StepsSpec => []ConflictCheckExact
<1>1. StepsInv => ConflictCheckExact
  BY OneVersionDecides DEF StepsInv, ConflictCheckExact, Live
<1>. QED BY <1>1, StepsInvariant, PTL

(* What a transaction reads is its snapshot with its own writes on top,    *)
(* also when operations of others were cut short.                          *)
THEOREM ReadsStaySnapshots == StepsSpec => []ReadsSnapshot
<1>1. StepsInv => ReadsSnapshot
  BY GetReadsSnapshot DEF StepsInv
<1>. QED BY <1>1, StepsInvariant, PTL

(* While commits do not fail, nothing is taken off the log of a            *)
(* transaction that goes on.                                               *)
LEMMA NothingTaken ==
  ASSUME "commit" \notin MayFail
  PROVE  StepsSpec => [](unlogged = {})
<1>1. StepsInit => unlogged = {}
  BY DEF StepsInit
<1>2. unlogged = {} /\ [StepsNext]_stepVars => (unlogged = {})'
  <2>. SUFFICES ASSUME unlogged = {}, [StepsNext]_stepVars PROVE unlogged' = {}
    OBVIOUS
  <2>1. CASE EngineError
    BY SMTT(30), <2>1 DEF EngineError
  <2>2. CASE StepsNext /\ ~EngineError
    BY <2>2 DEF StepsNext, StartBegin, StartWriteInner, StartCommit, StartRollback, Lock,
                Disconnect, EngineStep, Crash
  <2>3. CASE UNCHANGED stepVars
    BY <2>3 DEF stepVars
  <2>. QED BY <2>1, <2>2, <2>3
<1>. QED BY <1>1, <1>2, PTL DEF StepsSpec

(* write_inner logs the key before it writes the data: as long as no       *)
(* commit fails, an open transaction has no data that the undo log does    *)
(* not list, so that a rollback can find all of it.                        *)
THEOREM UndoLogStaysComplete ==
  ASSUME "commit" \notin MayFail
  PROVE  StepsSpec => []UndoLogComplete
<1>1. StepsInv /\ unlogged = {} => UndoLogComplete
  BY DEF StepsInv, LoggedOrTaken, UndoLogComplete
<1>. QED BY <1>1, StepsInvariant, NothingTaken, PTL

-----------------------------------------------------------------------------
(* What the steps are for the other sessions.                              *)

\* What a step does to what transactions can see: nothing, or one of the
\* effects the operations are made of.
Effect ==
    \/ UNCHANGED <<txn_active, versions, txn>>
    \/ \E s \in Session : Fresh(op.handle.version) /\ Registers(s, op.handle.version)
    \/ \E s \in Session, k \in Key, x \in Opt : Puts(s, k, x)
    \/ \E s \in Live : /\ UNCHANGED <<txn_active, txn>>
                       /\ \A k \in Key : \A u \in Version :
                             u # txn[s].version => versions'[k][u] = versions[k][u]
    \/ \E s \in Session : Ends(s) /\ UNCHANGED versions
    \/ \E s \in Session : Abandon(s)
    \/ UNCHANGED <<txn_active, versions>> /\ txn' = [r \in Session |-> NoTxn]

(* Every step of the transaction layer has one of these effects.           *)
LEMMA StepEffect ==
  ASSUME StepsInv, [StepsNext]_stepVars
  PROVE  Effect
<1>1. ASSUME NEW s \in Session, StartBegin(s) PROVE Effect
  BY <1>1 DEF StartBegin, Lock, Effect
<1>2. ASSUME NEW s \in Session, NEW k \in Key, NEW x \in Opt, StartWriteInner(s, k, x)
      PROVE Effect
  BY <1>2 DEF StartWriteInner, Lock, Effect
<1>3. ASSUME NEW s \in Session, StartCommit(s) PROVE Effect
  BY <1>3 DEF StartCommit, Lock, Effect
<1>4. ASSUME NEW s \in Session, StartRollback(s) PROVE Effect
  BY <1>4 DEF StartRollback, Lock, Effect
<1>5. ASSUME NEW s \in Session, Disconnect(s) PROVE Effect
  BY <1>5 DEF Disconnect, Effect
<1>6. CASE EngineStep
  <2>1. op # Idle
    BY <1>6 DEF EngineStep
  <2>2. op.session \in Session /\ op.kind \in Kind
    BY <2>1, OperationType
  <2>3. CASE op.kind = "begin"
    BY <1>6, <2>2, <2>3, BeginStep DEF Effect
  <2>4. CASE op.kind = "write"
    BY <1>6, <2>2, <2>4, WriteStep DEF Effect
  <2>5. CASE op.kind \in {"commit", "rollback"}
    <3>. DEFINE s == op.session
                v == txn[s].version
                w == op.todo[1]
    <3>1. /\ s \in Live
          /\ \/ /\ UNCHANGED <<txn, txn_active>>
                /\ \/ UNCHANGED versions
                   \/ w.key \in Key /\ versions' = [versions EXCEPT ![w.key][v] = Absent]
             \/ Ends(s) /\ UNCHANGED versions
      BY <1>6, <2>5, EndStep
    <3>2. versions \in [Key -> [Version -> Opt \cup {Absent}]]
      BY DEF StepsInv, Ordered, TypeOK
    <3>3. versions' = [versions EXCEPT ![w.key][v] = Absent] =>
            \A k \in Key : \A u \in Version : u # v => versions'[k][u] = versions[k][u]
      <4>. HIDE DEF w, v
      <4>. QED BY <3>2
    <3>. QED BY <2>2, <3>1, <3>3 DEF Effect
  <2>. QED BY <2>2, <2>3, <2>4, <2>5 DEF Kind
<1>7. CASE EngineError
  BY <1>7 DEF EngineError, Effect
<1>8. CASE Crash
  BY <1>8 DEF Crash, Effect
<1>9. CASE UNCHANGED stepVars
  BY <1>9 DEF stepVars, Effect
<1>. QED BY <1>1, <1>2, <1>3, <1>4, <1>5, <1>6, <1>7, <1>8, <1>9 DEF StepsNext

(* No step moves the snapshot of an open transaction.                      *)
LEMMA SnapshotStaysFixed ==
  ASSUME Ordered, Effect, NEW s \in Session, txn[s] # NoTxn, txn'[s] = txn[s]
  PROVE  AbsSnapshot'[s] = AbsSnapshot[s]
<1>1. CASE UNCHANGED <<txn_active, versions, txn>>
  BY <1>1, StutterRefines DEF SI!vars
<1>2. ASSUME NEW r \in Session, Fresh(op.handle.version), Registers(r, op.handle.version)
      PROVE  AbsSnapshot'[s] = AbsSnapshot[s]
  <2>1. r # s
    BY <1>2 DEF Registers
  <2>2. SI!Begin(r)
    BY <1>2, RegisterRefines
  <2>. QED BY <2>1, <2>2 DEF SI!Begin, AbsSnapshot
<1>3. ASSUME NEW r \in Session, NEW k \in Key, NEW x \in Opt, Puts(r, k, x)
      PROVE  AbsSnapshot'[s] = AbsSnapshot[s]
  BY <1>3, PutRefines DEF SI!Write
<1>4. ASSUME NEW r \in Live, UNCHANGED <<txn_active, txn>>,
             \A k \in Key : \A u \in Version :
                u # txn[r].version => versions'[k][u] = versions[k][u]
      PROVE  AbsSnapshot'[s] = AbsSnapshot[s]
  BY <1>4, OwnHidden
<1>5. ASSUME NEW r \in Session, Ends(r), UNCHANGED versions
      PROVE  AbsSnapshot'[s] = AbsSnapshot[s]
  <2>1. r # s
    BY <1>5 DEF Ends, Ordered, TypeOK
  <2>. QED BY <1>5, <2>1, EndForgets DEF SI!Forget, AbsSnapshot
<1>6. ASSUME NEW r \in Session, Abandon(r) PROVE AbsSnapshot'[s] = AbsSnapshot[s]
  <2>1. r # s
    BY <1>6 DEF Abandon, Ordered, TypeOK
  <2>. QED BY <1>6, <2>1, AbandonRefines DEF SI!Abandon, SI!Forget, AbsSnapshot
<1>7. ASSUME txn' = [r \in Session |-> NoTxn] PROVE FALSE
  BY <1>7
<1>. QED BY <1>1, <1>2, <1>3, <1>4, <1>5, <1>6, <1>7 DEF Effect

(* Repeatable reads in spite of failures and crashes: an open              *)
(* transaction's answer for a key changes only when its own version does.  *)
THEOREM ReadsStayRepeatable == StepsSpec => StableReads
<1>1. ASSUME StepsInv, StepsInv', [StepsNext]_stepVars, NEW s \in Live, NEW k \in Key,
             txn'[s] = txn[s], Get(txn[s], k)' # Get(txn[s], k)
      PROVE  versions'[k][txn[s].version] # versions[k][txn[s].version]
  <2>1. AbsSnapshot'[s] = AbsSnapshot[s]
    BY <1>1, StepEffect, SnapshotStaysFixed DEF Live, StepsInv
  <2>. QED BY <1>1, <2>1, OwnChangeOnly DEF StepsInv
<1>2. StepsInv /\ StepsInv' /\ [StepsNext]_stepVars =>
        [\A s \in Live, k \in Key :
            (txn'[s] = txn[s] /\ Get(txn[s], k)' # Get(txn[s], k))
               => versions'[k][txn[s].version] # versions[k][txn[s].version]]_vars
  BY <1>1
<1>. QED BY <1>2, StepsInvariant, PTL DEF StepsSpec, StableReads

-----------------------------------------------------------------------------
(* Crashes are atomic.                                                     *)

RollingBack == op # Idle /\ op.kind = "rollback"

(* Outside a rollback the mapping is that of the undivided operations.     *)
LEMMA OwnAsStored == ~RollingBack => StepsOwn = AbsOwn
BY DEF RollingBack, StepsOwn, AbsOwn

(* A step or stutter outside a rollback, as before.                        *)
LEMMA SameStep ==
  ASSUME ~RollingBack, ~RollingBack'
  PROVE  /\ UNCHANGED SI!vars => UNCHANGED StepsSI!vars
         /\ \A s \in Session :
              /\ SI!Begin(s) => StepsSI!Begin(s)
              /\ \A k \in Key, x \in Opt : SI!Write(s, k, x) => StepsSI!Write(s, k, x)
              /\ SI!Commit(s) => StepsSI!Commit(s)
              /\ SI!Abandon(s) => StepsSI!Abandon(s)
<1>1. StepsOwn = AbsOwn /\ StepsOwn' = AbsOwn'
  <2>1. (~RollingBack)' => (StepsOwn = AbsOwn)'
    BY OwnAsStored, PTL
  <2>. QED BY <2>1, OwnAsStored
<1>2. UNCHANGED SI!vars => UNCHANGED StepsSI!vars
  BY <1>1 DEF SI!vars, StepsSI!vars
<1>3. ASSUME NEW s \in Session, SI!Begin(s) PROVE StepsSI!Begin(s)
  BY <1>1, <1>3 DEF SI!Begin, StepsSI!Begin
<1>4. ASSUME NEW s \in Session, NEW k \in Key, NEW x \in Opt, SI!Write(s, k, x)
      PROVE  StepsSI!Write(s, k, x)
  BY <1>1, <1>4 DEF SI!Write, StepsSI!Write, SI!Free, StepsSI!Free
<1>5. ASSUME NEW s \in Session, SI!Commit(s) PROVE StepsSI!Commit(s)
  BY <1>1, <1>5 DEF SI!Commit, StepsSI!Commit, SI!Forget, StepsSI!Forget,
                    SI!Written, StepsSI!Written, SI!NoData, StepsSI!NoData,
                    SI!NoWrites, StepsSI!NoWrites
<1>6. ASSUME NEW s \in Session, SI!Abandon(s) PROVE StepsSI!Abandon(s)
  BY <1>1, <1>6 DEF SI!Abandon, StepsSI!Abandon, SI!Forget, StepsSI!Forget,
                    SI!Written, StepsSI!Written, SI!NoData, StepsSI!NoData,
                    SI!NoWrites, StepsSI!NoWrites
<1>. QED BY <1>2, <1>3, <1>4, <1>5, <1>6

(* Taking the mutex for a rollback changes nothing for the caller.         *)
LEMMA RollbackLockStutters ==
  ASSUME StepsInv, NEW s \in Session, StartRollback(s)
  PROVE  UNCHANGED StepsSI!vars
<1>1. /\ op = Idle /\ txn[s] # NoTxn
      /\ UNCHANGED <<txn_active, versions, txn>>
      /\ op'.session = s /\ op'.kind = "rollback" /\ op'.before = versions
  BY DEF StartRollback, Lock
<1>2. UNCHANGED SI!vars
  BY <1>1, StutterRefines
<1>3. StepsOwn = AbsOwn
  BY <1>1, OwnAsStored DEF RollingBack
<1>4. StepsOwn' = AbsOwn
  BY <1>1, <1>2 DEF StepsOwn, SI!vars, AbsOwn
<1>. QED BY <1>2, <1>3, <1>4 DEF SI!vars, StepsSI!vars

(* Nor does any of its deletions, before the last.                         *)
LEMMA DeletionStutters ==
  ASSUME StepsInv, EngineStep, op.kind \in {"commit", "rollback"}, Len(op.todo) > 1
  PROVE  UNCHANGED StepsSI!vars
<1>. DEFINE s == op.session
            v == txn[s].version
            w == op.todo[1]
<1>1. /\ s \in Live
      /\ UNCHANGED <<txn, txn_active>>
      /\ \/ UNCHANGED versions
         \/ /\ op.kind = "rollback"
            /\ w.key \in Key /\ versions' = [versions EXCEPT ![w.key][v] = Absent]
  <2>1. Len(op.todo) # 1
    <3>. DEFINE l == Len(op.todo)
    <3>1. l > 1
      OBVIOUS
    <3>. HIDE DEF l
    <3>2. l # 1
      BY <3>1
    <3>. QED BY <3>2 DEF l
  <2>. QED BY <2>1, EndStep
<1>2. /\ op' # Idle /\ op # Idle /\ op'.session = s /\ op'.kind = op.kind
      /\ op'.before = op.before
  BY MoreToDo DEF EngineStep
<1>3. CASE op.kind = "commit"
  <2>1. ~RollingBack /\ ~RollingBack'
    BY <1>2, <1>3 DEF RollingBack
  <2>2. UNCHANGED versions
    BY <1>1, <1>3
  <2>. QED BY <1>1, <2>1, <2>2, StutterRefines, SameStep
<1>4. CASE op.kind = "rollback"
  <2>1. \A k \in Key : \A u \in Version : u # v => versions'[k][u] = versions[k][u]
    <3>1. versions \in [Key -> [Version -> Opt \cup {Absent}]]
      BY DEF StepsInv, Ordered, TypeOK
    <3>. HIDE DEF w, v
    <3>. QED BY <1>1, <3>1
  <2>2. /\ AbsDb' = AbsDb /\ AbsSnapshot' = AbsSnapshot
        /\ AbsMissed' = AbsMissed /\ AbsLocked' = AbsLocked
        /\ \A r \in Session : r # s => AbsOwn'[r] = AbsOwn[r]
        /\ Live' = Live
    BY <1>1, <2>1, OwnHidden DEF StepsInv
  <2>3. \A r \in Session, k \in Key : StepsOwn'[r][k] = StepsOwn[r][k]
    <3>. SUFFICES ASSUME NEW r \in Session, NEW k \in Key
                  PROVE  StepsOwn'[r][k] = StepsOwn[r][k]
      OBVIOUS
    <3>1. CASE r = s
      BY <3>1, <1>1, <1>2, <1>4 DEF StepsOwn
    <3>2. CASE r # s
      BY <3>2, <1>2, <2>2 DEF StepsOwn
    <3>. QED BY <3>1, <3>2
  <2>4. StepsOwn' = StepsOwn
    BY <2>3 DEF StepsOwn
  <2>. QED BY <2>2, <2>4 DEF StepsSI!vars
<1>. QED BY <1>3, <1>4

(* Its last write is the abstract rollback, when everything was logged.    *)
LEMMA RollbackEndRefines ==
  ASSUME StepsInv, unlogged = {}, EngineStep, op.kind = "rollback", ~(Len(op.todo) > 1)
  PROVE  StepsSI!Rollback(op.session)
<1>. DEFINE s == op.session
            v == txn[s].version
<1>1. /\ s \in Live /\ Len(op.todo) = 1 /\ op' = Idle
      /\ Ends(s) /\ UNCHANGED versions
  BY EndStep
<1>2. op # Idle
  BY DEF EngineStep
<1>3. \A k \in Key : versions[k][v] = Absent
  <2>1. WhileRollingBack
    BY <1>2 DEF StepsInv, UnderWay
  <2>2. DOMAIN op.todo = 1..1
    BY <1>1, <1>2, OperationType
  <2>3. \A k \in Key : \A i \in DOMAIN op.todo : ~Deletes(i, "DeleteVersion", k)
    BY <1>1, <2>2 DEF Deletes
  <2>. QED BY <2>1, <2>3 DEF WhileRollingBack
<1>4. SI!Rollback(s)
  <2>1. \A k \in Key : \A u \in Version :
           versions'[k][u] = IF u = v THEN Absent ELSE versions[k][u]
    BY <1>1, <1>3
  <2>2. s \in Session /\ Ends(s) /\ Ordered
    BY <1>1 DEF StepsInv, Live
  <2>. HIDE DEF s
  <2>. QED BY <2>1, <2>2, DiscardRefines
<1>5. StepsOwn' = AbsOwn'
  BY <1>1 DEF StepsOwn, AbsOwn
<1>6. \A r \in Session : r # s => StepsOwn[r] = AbsOwn[r]
  BY DEF StepsOwn, AbsOwn
<1>7. StepsOwn' = [StepsOwn EXCEPT ![s] = StepsSI!NoWrites]
  <2>1. AbsOwn' = [AbsOwn EXCEPT ![s] = SI!NoWrites]
    BY <1>4 DEF SI!Rollback, SI!Forget
  <2>2. SI!NoWrites = StepsSI!NoWrites
    BY DEF SI!NoWrites, StepsSI!NoWrites
  <2>3. StepsOwn = [r \in Session |-> StepsOwn[r]] /\ AbsOwn = [r \in Session |-> AbsOwn[r]]
    BY DEF StepsOwn, AbsOwn
  <2>. QED BY <1>5, <1>6, <2>1, <2>2, <2>3
<1>. QED BY <1>4, <1>7 DEF SI!Rollback, StepsSI!Rollback, SI!Forget, StepsSI!Forget,
                           SI!NoData, StepsSI!NoData

(* A crash loses the transactions.  Of one that was being rolled back, the *)
(* keys whose data is gone already are free.                               *)
LEMMA CrashRefines ==
  ASSUME StepsInv, Crash
  PROVE  \E L \in SUBSET Key : StepsSI!Crash(L)
<1>1. /\ UNCHANGED <<txn_active, versions>> /\ txn' = [r \in Session |-> NoTxn]
      /\ op' = Idle
  BY DEF Crash
<1>2. PICK L \in SUBSET Key : SI!Crash(L)
  BY <1>1, RestartRefines DEF StepsInv
<1>3. StepsOwn' = AbsOwn'
  BY <1>1 DEF StepsOwn, AbsOwn
<1>4. ASSUME NEW s \in Live PROVE SI!Written(s) \subseteq StepsSI!Written(s)
  <2>. SUFFICES ASSUME NEW k \in Key, AbsOwn[s][k] # Absent PROVE StepsOwn[s][k] # Absent
    BY DEF SI!Written, StepsSI!Written
  <2>1. CASE RollingBack /\ op.session = s
    <3>1. versions[k][txn[s].version] \in {op.before[k][txn[s].version], Absent}
      BY <2>1 DEF StepsInv, UnderWay, RollingBack, WhileRollingBack
    <3>. QED BY <2>1, <3>1 DEF RollingBack, StepsOwn, AbsOwn, Live
  <2>2. CASE ~(RollingBack /\ op.session = s)
    BY <2>2 DEF RollingBack, StepsOwn, Live
  <2>. QED BY <2>1, <2>2
<1>5. UNION {SI!Written(s) : s \in Live} \subseteq UNION {StepsSI!Written(s) : s \in Live}
  BY <1>4
<1>6. StepsSI!Crash(L)
  BY <1>2, <1>3, <1>5 DEF SI!Crash, StepsSI!Crash, SI!NoData, StepsSI!NoData,
                          SI!NoWrites, StepsSI!NoWrites
<1>. QED BY <1>6

(* Every engine write, every failure that may happen and every crash is a  *)
(* step or a stutter of the abstract store.                                *)
LEMMA StepsNextRefines ==
  ASSUME "commit" \notin MayFail, "rollback" \notin MayFail,
         StepsInv, unlogged = {}, [StepsNext]_stepVars
  PROVE  [StepsSI!Next]_StepsSI!vars
<1>1. ASSUME NEW s \in Session, StartBegin(s) PROVE UNCHANGED StepsSI!vars
  BY <1>1, StutterRefines, SameStep DEF StartBegin, Lock, RollingBack
<1>2. ASSUME NEW s \in Session, NEW k \in Key, NEW x \in Opt, StartWriteInner(s, k, x)
      PROVE UNCHANGED StepsSI!vars
  BY <1>2, StutterRefines, SameStep DEF StartWriteInner, Lock, RollingBack
<1>3. ASSUME NEW s \in Session, StartCommit(s) PROVE UNCHANGED StepsSI!vars
  BY <1>3, StutterRefines, SameStep DEF StartCommit, Lock, RollingBack
<1>4. ASSUME NEW s \in Session, StartRollback(s) PROVE UNCHANGED StepsSI!vars
  BY <1>4, RollbackLockStutters
<1>5. ASSUME NEW s \in Session, Disconnect(s) PROVE StepsSI!Next
  <2>1. ~RollingBack /\ ~RollingBack'
    BY <1>5 DEF Disconnect, RollingBack
  <2>2. SI!Abandon(s)
    BY <1>5, AbandonRefines DEF Disconnect, StepsInv
  <2>. QED BY <2>1, <2>2, SameStep DEF StepsSI!Next
<1>6. CASE EngineStep
  <2>1. op # Idle
    BY <1>6 DEF EngineStep
  <2>2. op.session \in Session /\ op.kind \in Kind
    BY <2>1, OperationType
  <2>3. CASE op.kind = "begin"
    <3>1. ~RollingBack /\ ~RollingBack'
      BY <1>6, <2>3, BeginStep DEF RollingBack
    <3>2. CASE UNCHANGED <<txn_active, versions, txn>>
      BY <3>1, <3>2, StutterRefines, SameStep
    <3>3. CASE Fresh(op.handle.version) /\ Registers(op.session, op.handle.version)
      <4>1. SI!Begin(op.session)
        BY <2>2, <3>3, RegisterRefines DEF StepsInv
      <4>. QED BY <2>2, <3>1, <4>1, SameStep DEF StepsSI!Next
    <3>. QED BY <1>6, <2>3, <3>2, <3>3, BeginStep
  <2>4. CASE op.kind = "write"
    <3>1. ~RollingBack /\ ~RollingBack'
      BY <1>6, <2>4, WriteStep DEF RollingBack
    <3>2. CASE UNCHANGED <<txn_active, versions, txn>>
      BY <3>1, <3>2, StutterRefines, SameStep
    <3>3. ASSUME NEW k \in Key, NEW x \in Opt, Puts(op.session, k, x)
          PROVE  StepsSI!Next
      <4>1. SI!Write(op.session, k, x)
        BY <2>2, <3>3, PutRefines DEF StepsInv
      <4>2. StepsSI!Write(op.session, k, x)
        BY <2>2, <3>1, <4>1, SameStep
      <4>. QED BY <2>2, <4>2 DEF StepsSI!Next, StepsSI!Opt, Opt
    <3>. QED BY <1>6, <2>4, <3>2, <3>3, WriteStep
  <2>5. CASE op.kind \in {"commit", "rollback"} /\ Len(op.todo) > 1
    BY <1>6, <2>5, DeletionStutters
  <2>6. CASE op.kind = "commit" /\ ~(Len(op.todo) > 1)
    <3>1. Ends(op.session) /\ UNCHANGED versions /\ op' = Idle
      BY <1>6, <2>6, EndStep
    <3>2. ~RollingBack /\ ~RollingBack'
      BY <2>6, <3>1 DEF RollingBack
    <3>3. SI!Commit(op.session)
      BY <2>2, <3>1, PublishRefines DEF StepsInv
    <3>. QED BY <2>2, <3>2, <3>3, SameStep DEF StepsSI!Next
  <2>7. CASE op.kind = "rollback" /\ ~(Len(op.todo) > 1)
    BY <1>6, <2>2, <2>7, RollbackEndRefines DEF StepsSI!Next
  <2>. QED BY <2>2, <2>3, <2>4, <2>5, <2>6, <2>7 DEF Kind
<1>7. CASE EngineError
  <2>1. ~RollingBack /\ ~RollingBack'
    BY <1>7 DEF EngineError, RollingBack
  <2>. QED BY <1>7, <2>1, StutterRefines, SameStep DEF EngineError
<1>8. CASE Crash
  BY <1>8, CrashRefines DEF StepsSI!Next
<1>9. CASE UNCHANGED stepVars
  <2>1. UNCHANGED <<txn_active, versions, txn, op>>
    BY <1>9 DEF stepVars
  <2>2. UNCHANGED SI!vars
    BY <2>1, StutterRefines
  <2>3. StepsOwn' = StepsOwn
    BY <2>1, <2>2 DEF StepsOwn, SI!vars
  <2>. QED BY <2>2, <2>3 DEF SI!vars, StepsSI!vars
<1>. QED BY <1>1, <1>2, <1>3, <1>4, <1>5, <1>6, <1>7, <1>8, <1>9 DEF StepsNext

(* A crash between any two engine writes, and an error while beginning or  *)
(* writing, is all or nothing: what callers see is still snapshot          *)
(* isolation.  A commit or a rollback in which a write fails is not so,    *)
(* whence the hypotheses.                                                  *)
THEOREM CrashesAreAtomic ==
  ASSUME "commit" \notin MayFail, "rollback" \notin MayFail
  PROVE  StepsSpec => CrashAtomic
<1>1. StepsInit => StepsSI!Init
  <2>. SUFFICES ASSUME StepsInit PROVE StepsSI!Init
    OBVIOUS
  <2>1. SI!Init /\ ~RollingBack
    BY InitRefines DEF StepsInit, RollingBack
  <2>2. StepsOwn = AbsOwn
    BY <2>1, OwnAsStored
  <2>. QED BY <2>1, <2>2 DEF SI!Init, StepsSI!Init, SI!NoData, StepsSI!NoData,
                             SI!NoWrites, StepsSI!NoWrites
<1>2. StepsInv /\ unlogged = {} /\ [StepsNext]_stepVars => [StepsSI!Next]_StepsSI!vars
  BY StepsNextRefines
<1>3. StepsSpec => StepsSI!Init /\ [][StepsSI!Next]_StepsSI!vars
  BY <1>1, <1>2, StepsInvariant, NothingTaken, PTL DEF StepsSpec
<1>. QED BY <1>3 DEF CrashAtomic, StepsSI!Spec

=============================================================================
