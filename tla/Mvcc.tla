-------------------------------- MODULE Mvcc --------------------------------
(***************************************************************************)
(* The transaction layer of src/src/storage/mvcc.rs, at the granularity of *)
(* its operations: each takes the engine's mutex on its first line and     *)
(* holds it until it returns, so the operations of concurrent sessions     *)
(* interleave but never overlap.  MvccSteps looks inside them.             *)
(*                                                                         *)
(* The engine's ordered map holds four kinds of keys (MvccKey); each kind  *)
(* is a variable here.  Absent stands for "the engine has no such key".    *)
(***************************************************************************)
EXTENDS Naturals, FiniteSets, FiniteSetsExt

CONSTANTS
    Session,     \* holders of transaction handles (one per connection)
    Key,         \* user keys
    Value,       \* user values
    None,        \* Option::None: the stored form of a deletion, and get's "no such key"
    Absent,      \* not in the engine
    NoTxn,       \* the session holds no transaction
    MaxVersion   \* bound: the versions handed out stay below it (a u64 in the code)

ASSUME MaxVersionAssumption == MaxVersion \in Nat \ {0}

ASSUME MarkersAssumption ==
    /\ Absent \notin Value \cup {None}
    /\ None \notin Value

Version == 1..MaxVersion

Opt == Value \cup {None}

VARIABLES
    next_version,  \* MvccKey::NextVersion; 1 while the engine has no such key
    txn_active,    \* the v with a key TxnActive(v)
    txn_write,     \* txn_write[v]: the k with a key TxnWrite(v, k)
    versions,      \* versions[k][v]: the value of key Version(k, v)
    txn            \* the handle each session holds: memory, not engine

vars == <<next_version, txn_active, txn_write, versions, txn>>

\* No session can hold a record that equals the marker.
TransactionState == [version : Version, active_versions : SUBSET Version]

ASSUME NoTxnAssumption == NoTxn \notin TransactionState

Live == {s \in Session : txn[s] # NoTxn}

TypeOK ==
    /\ next_version \in Version
    /\ txn_active \subseteq Version
    /\ txn_write \in [Version -> SUBSET Key]
    /\ versions \in [Key -> [Version -> Opt \cup {Absent}]]
    /\ txn \in [Session -> TransactionState \cup {NoTxn}]

Init ==
    /\ next_version = 1
    /\ txn_active = {}
    /\ txn_write = [v \in Version |-> {}]
    /\ versions = [k \in Key |-> [v \in Version |-> Absent]]
    /\ txn = [s \in Session |-> NoTxn]

-----------------------------------------------------------------------------
(* Reading                                                                 *)

IsVisibleIgnoresActive(t, v) == v <= t.version
IsVisible(t, v) == v \notin t.active_versions /\ v <= t.version

\* The versions of k the engine holds, and those a scan from..=to goes over.
Held(k) == {v \in Version : versions[k][v] # Absent}
Scan(k, from, to) == {v \in Held(k) : from <= v /\ v <= to}

\* The value of the last of the versions vs of k.
Newest(k, vs) == IF vs = {} THEN None ELSE versions[k][Max(vs)]

GetGivesUpEarly(t, k) ==
    LET all == Scan(k, 0, t.version)
    IN  IF all # {} /\ IsVisible(t, Max(all)) THEN versions[k][Max(all)] ELSE None
Get(t, k) == Newest(k, {v \in Scan(k, 0, t.version) : IsVisible(t, v)})

ScanPrefixKeepsDeleted(t, P) ==
    LET seen(k) == {v \in Version : /\ versions[k][v] \notin {Absent, None}
                                    /\ IsVisible(t, v)}
    IN  [k \in {p \in P : seen(p) # {}} |-> versions[k][Max(seen(k))]]
\* scan_prefix for the keys P that have the prefix: the results map after the
\* versions up to v have gone by, in ascending order, inserted or removed.
ScanPrefix(t, P) ==
    LET Step(r, v) ==
          LET seen == {k \in P : versions[k][v] # Absent /\ IsVisible(t, v)}
              put  == {k \in seen : versions[k][v] # None}
          IN  [k \in (DOMAIN r \ seen) \cup put |->
                 IF k \in put THEN versions[k][v] ELSE r[k]]
        results[v \in 0..MaxVersion] ==
          IF v = 0 THEN [k \in {} |-> None] ELSE Step(results[v - 1], v)
    IN  results[MaxVersion]

-----------------------------------------------------------------------------
(* Operations                                                              *)

\* The code adds 1 to a u64 without a check; MaxVersion bounds the model here.
Begin(s) ==
    /\ txn[s] = NoTxn
    /\ next_version < MaxVersion
    /\ next_version' = next_version + 1
    /\ txn' = [txn EXCEPT ![s] = [version |-> next_version,
                                  active_versions |-> txn_active]]
    /\ txn_active' = txn_active \cup {next_version}
    /\ UNCHANGED <<txn_write, versions>>

ConflictFromOwnVersion(t) == t.version + 1
\* Where the conflict scan starts.
ConflictFrom(t) ==
    IF t.active_versions = {} THEN t.version + 1 ELSE Min(t.active_versions)

WriteConflictLooksAtFirst(t, k) ==
    LET range == Scan(k, ConflictFrom(t), MaxVersion)
    IN  range # {} /\ ~IsVisible(t, Min(range))
\* Only the last version of the scanned range is looked at.
WriteConflict(t, k) ==
    LET range == Scan(k, ConflictFrom(t), MaxVersion)
    IN  range # {} /\ ~IsVisible(t, Max(range))

WriteInner(s, k, x) ==
    /\ txn[s] # NoTxn
    /\ ~WriteConflict(txn[s], k)
    /\ txn_write' = [txn_write EXCEPT ![txn[s].version] = @ \cup {k}]
    /\ versions' = [versions EXCEPT ![k][txn[s].version] = x]
    /\ UNCHANGED <<next_version, txn_active, txn>>

Set(s, k, x) == WriteInner(s, k, x)

Delete(s, k) == WriteInner(s, k, None)

CommitKeepsLog(s) ==
    /\ txn[s] # NoTxn
    /\ txn_active' = txn_active \ {txn[s].version}
    /\ txn' = [txn EXCEPT ![s] = NoTxn]
    /\ UNCHANGED <<next_version, txn_write, versions>>
Commit(s) ==
    /\ txn[s] # NoTxn
    /\ txn_write' = [txn_write EXCEPT ![txn[s].version] = {}]
    /\ txn_active' = txn_active \ {txn[s].version}
    /\ txn' = [txn EXCEPT ![s] = NoTxn]
    /\ UNCHANGED <<next_version, versions>>

RollbackKeepsData(s) ==
    /\ txn[s] # NoTxn
    /\ txn_write' = [txn_write EXCEPT ![txn[s].version] = {}]
    /\ txn_active' = txn_active \ {txn[s].version}
    /\ txn' = [txn EXCEPT ![s] = NoTxn]
    /\ UNCHANGED <<next_version, versions>>
Rollback(s) ==
    /\ txn[s] # NoTxn
    /\ versions' = [k \in Key |->
                      IF k \in txn_write[txn[s].version]
                      THEN [versions[k] EXCEPT ![txn[s].version] = Absent]
                      ELSE versions[k]]
    /\ txn_write' = [txn_write EXCEPT ![txn[s].version] = {}]
    /\ txn_active' = txn_active \ {txn[s].version}
    /\ txn' = [txn EXCEPT ![s] = NoTxn]
    /\ UNCHANGED next_version

\* The connection is gone and the handle is dropped: MvccTransaciton has no
\* Drop, so nothing reaches the engine.
Abandon(s) ==
    /\ txn[s] # NoTxn
    /\ txn' = [txn EXCEPT ![s] = NoTxn]
    /\ UNCHANGED <<next_version, txn_active, txn_write, versions>>

\* The process restarts on the same data: Mvcc::new wraps the engine and
\* looks at no TxnActive key.
Restart ==
    /\ Live # {}
    /\ txn' = [s \in Session |-> NoTxn]
    /\ UNCHANGED <<next_version, txn_active, txn_write, versions>>

Next ==
    \/ \E s \in Session :
          \/ Begin(s)
          \/ \E k \in Key, x \in Value : Set(s, k, x)
          \/ \E k \in Key : Delete(s, k)
          \/ Commit(s)
          \/ Rollback(s)
          \/ Abandon(s)
    \/ Restart

Spec == Init /\ [][Next]_vars

-----------------------------------------------------------------------------
(* What the transaction layer implements: the abstract state is read off   *)
(* the engine and the handles.                                             *)

AbsDb == [k \in Key |-> Newest(k, Held(k) \ txn_active)]

\* What a handle sees beside its own writes.
AbsSnapshot ==
    [s \in Session |-> [k \in Key |->
        IF txn[s] = NoTxn THEN None
        ELSE Newest(k, {v \in Held(k) \ {txn[s].version} : IsVisible(txn[s], v)})]]

AbsOwn ==
    [s \in Session |-> [k \in Key |->
        IF txn[s] = NoTxn THEN Absent ELSE versions[k][txn[s].version]]]

\* Committed, and not visible: from after the snapshot.
AbsMissed ==
    [s \in Session |->
        IF txn[s] = NoTxn THEN {}
        ELSE {k \in Key : \E v \in Held(k) \ txn_active : ~IsVisible(txn[s], v)}]

\* Versions that are active in the engine and held by no handle.
AbsLocked ==
    {k \in Key : \E v \in Held(k) \cap txn_active : \A s \in Live : txn[s].version # v}

SI == INSTANCE SnapshotIsolation WITH
        Unwritten <- Absent,
        db <- AbsDb, live <- Live, snapshot <- AbsSnapshot,
        own <- AbsOwn, missed <- AbsMissed, locked <- AbsLocked

\* Snapshot isolation: every behaviour of the versioned store is one of the
\* abstract store.  No dirty, lost or partial write, no read from outside the
\* snapshot, and every write refused that has to be.
ImplementsSnapshotIsolation == SI!Spec

\* Each operation does what the abstract operation of its own name does: in
\* particular a rollback publishes nothing, and a commit nothing but its own
\* transaction's writes, all of them.
EachAsPromised ==
    [][\A s \in Session :
          /\ Begin(s) => SI!Begin(s)
          /\ \A k \in Key : /\ \A x \in Value : Set(s, k, x) => SI!Write(s, k, x)
                            /\ Delete(s, k) => SI!Write(s, k, None)
          /\ Commit(s) => SI!Commit(s)
          /\ Rollback(s) => SI!Rollback(s)
          /\ Abandon(s) => SI!Abandon(s)]_vars

\* Transaction::get, which walks the versions backwards past those it must not
\* see, answers what the snapshot with the own writes on top holds.
ReadsSnapshot == \A s \in Live, k \in Key : Get(txn[s], k) = SI!Read(s, k)

\* A scan and a get of the same transaction never disagree, although
\* scan_prefix walks forwards, replaying inserts and removals, and get walks
\* backwards to the first visible version.
ScanAgreesWithGet ==
    \A s \in Live, P \in SUBSET Key :
        ScanPrefix(txn[s], P) =
          [k \in {p \in P : Get(txn[s], p) # None} |-> Get(txn[s], k)]

\* write_inner examines one version only, the last in its range.  That is
\* enough: it reports a conflict exactly when the engine holds any version of
\* the key, committed or not, that the transaction cannot see.
ConflictCheckExact ==
    \A s \in Live, k \in Key :
        WriteConflict(txn[s], k) <=> \E v \in Held(k) : ~IsVisible(txn[s], v)

\* First writer wins: a version whose transaction is still active is the newest
\* of its key, so a key has one such version at most and nobody writes behind it.
OnlyNewestUncommitted ==
    \A k \in Key : \A v \in Held(k) \cap txn_active, u \in Held(k) : u <= v

\* The TxnWrite keys are the undo log of the active transactions and of nothing
\* else: each lists exactly the keys its transaction wrote, including those of
\* transactions that were abandoned.
WriteLogExact ==
    \A v \in Version :
        txn_write[v] = IF v \in txn_active THEN {k \in Key : v \in Held(k)} ELSE {}

-----------------------------------------------------------------------------
(* Why the conflict check is exact: the parts of the inductive invariant   *)
(* that the properties above do not already state.                         *)

\* Versions are handed out once and in order.
VersionsAllocated ==
    /\ \A k \in Key : \A v \in Held(k) : v < next_version
    /\ \A v \in txn_active : v < next_version

\* Larger than every version in use.
Fresh(n) ==
    /\ n \in Version
    /\ \A v \in txn_active : v < n
    /\ \A k \in Key : \A v \in Held(k) : v < n

\* Every handle is registered, under a version nobody else holds.
HandlesActive ==
    \A s \in Live :
        /\ txn[s].version \in txn_active
        /\ \A u \in txn[s].active_versions : u < txn[s].version
        /\ \A r \in Live : txn[r].version = txn[s].version => r = s

\* A transaction that is active still and older was active when s began.
OlderActiveKnown ==
    \A s \in Live : \A u \in txn_active :
        u < txn[s].version => u \in txn[s].active_versions

\* Nothing a transaction can see lies on top of a version that was in progress
\* when it began; this is why write_inner may look at the last version only.
NothingSeenOverUnseen ==
    \A s \in Live, k \in Key : \A u, m \in Held(k) :
        (u \in txn[s].active_versions /\ u < m) => ~IsVisible(txn[s], m)

\* What holds also in the middle of an operation, and after one that a crash or
\* an error cut short.
Ordered ==
    /\ TypeOK
    /\ VersionsAllocated
    /\ HandlesActive
    /\ OlderActiveKnown
    /\ OnlyNewestUncommitted
    /\ NothingSeenOverUnseen

\* The inductive invariant: the versions, the active list, the undo log and the
\* handles of all sessions agree with each other after every operation.
Inv == Ordered /\ WriteLogExact

\* While a transaction is open, an answer it gave for a key changes only when
\* it writes that key itself: no unrepeatable read and no phantom.
StableReads ==
    [][\A s \in Live, k \in Key :
          (txn'[s] = txn[s] /\ Get(txn[s], k)' # Get(txn[s], k))
             => versions'[k][txn[s].version] # versions[k][txn[s].version]]_vars

=============================================================================
