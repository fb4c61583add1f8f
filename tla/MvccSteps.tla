----------------------------- MODULE MvccSteps -----------------------------
(***************************************************************************)
(* The operations of src/src/storage/mvcc.rs one engine write at a time.   *)
(* The mutex keeps other sessions out until an operation returns, but not  *)
(* a crash of the process, nor an engine write that answers Err and ends   *)
(* the operation by `?' with the writes before it already in the engine.   *)
(***************************************************************************)
EXTENDS Mvcc, SequencesExt

CONSTANTS
    Idle,          \* nobody holds the engine's mutex
    MayFail,       \* the kinds of operation in which an engine write may fail
    MaxFailures    \* bound on failed engine writes in a behaviour

ASSUME MaxFailuresAssumption == MaxFailures \in Nat

VARIABLES
    op,            \* the operation that holds the mutex and its writes to come
    failures,      \* failed engine writes so far
    rolled_back,   \* versions whose rollback returned Ok (history)
    unlogged       \* keys, with the version, that a commit which then failed had taken
                   \* off the undo log (history)

stepVars == <<next_version, txn_active, txn_write, versions, txn,
              op, failures, rolled_back, unlogged>>

Kind == {"begin", "write", "commit", "rollback"}

ASSUME MayFailAssumption == MayFail \subseteq Kind

\* One engine.set or engine.delete: the kind and fields of its MvccKey, and the
\* data.  The new NextVersion is in the version field.
EngineWrite(kind, k, v, x) == [kind |-> kind, key |-> k, version |-> v, data |-> x]

Writes == [kind : {"SetNextVersion", "SetTxnActive", "SetTxnWrite", "SetVersion",
                   "DeleteTxnActive", "DeleteTxnWrite", "DeleteVersion"},
           key : Key \cup {None}, version : Version, data : Opt]

Operation == [session : Session, kind : Kind, handle : TransactionState \cup {NoTxn},
              todo : Seq(Writes), before : [Key -> [Version -> Opt \cup {Absent}]]]

ASSUME IdleAssumption == Idle \notin Operation

StepsTypeOK ==
    /\ op \in Operation \cup {Idle}
    /\ op # Idle => op.todo # <<>>
    /\ failures \in 0..MaxFailures
    /\ rolled_back \subseteq Version
    /\ unlogged \subseteq Key \X Version

StepsInit ==
    /\ Init
    /\ op = Idle
    /\ failures = 0
    /\ rolled_back = {}
    /\ unlogged = {}

-----------------------------------------------------------------------------
(* Taking the mutex: all reads of the operation are made here, and decide  *)
(* the writes it is going to make.                                         *)

\* The handle and the versions as they were are kept with the operation; the
\* latter is for the refinement mapping only.
Lock(s, kind, handle, todo) ==
    /\ op = Idle
    /\ op' = [session |-> s, kind |-> kind, handle |-> handle,
              todo |-> todo, before |-> versions]
    /\ UNCHANGED <<next_version, txn_active, txn_write, versions, txn,
                   failures, rolled_back, unlogged>>

StartBegin(s) ==
    /\ txn[s] = NoTxn
    /\ next_version < MaxVersion
    /\ Lock(s, "begin",
            [version |-> next_version, active_versions |-> txn_active],
            << EngineWrite("SetNextVersion", None, next_version + 1, None),
               EngineWrite("SetTxnActive", None, next_version, None) >>)

StartWriteInnerDataFirst(s, k, x) ==
    /\ txn[s] # NoTxn
    /\ ~WriteConflict(txn[s], k)
    /\ Lock(s, "write", txn[s],
            << EngineWrite("SetVersion", k, txn[s].version, x),
               EngineWrite("SetTxnWrite", k, txn[s].version, None) >>)
StartWriteInner(s, k, x) ==
    /\ txn[s] # NoTxn
    /\ ~WriteConflict(txn[s], k)
    /\ Lock(s, "write", txn[s],
            << EngineWrite("SetTxnWrite", k, txn[s].version, None),
               EngineWrite("SetVersion", k, txn[s].version, x) >>)

\* The TxnWrite keys come in the order of the scan, whichever that is.
StartCommitActiveFirst(s) ==
    /\ txn[s] # NoTxn
    /\ \E order \in SetToSeqs(txn_write[txn[s].version]) :
          Lock(s, "commit", NoTxn,
               <<EngineWrite("DeleteTxnActive", None, txn[s].version, None)>>
                 \o [i \in DOMAIN order |->
                       EngineWrite("DeleteTxnWrite", order[i], txn[s].version, None)])
StartCommit(s) ==
    /\ txn[s] # NoTxn
    /\ \E order \in SetToSeqs(txn_write[txn[s].version]) :
          Lock(s, "commit", NoTxn,
               Append([i \in DOMAIN order |->
                         EngineWrite("DeleteTxnWrite", order[i], txn[s].version, None)],
                      EngineWrite("DeleteTxnActive", None, txn[s].version, None)))

StartRollbackActiveFirst(s) ==
    /\ txn[s] # NoTxn
    /\ \E order \in SetToSeqs(txn_write[txn[s].version]) :
          Lock(s, "rollback", NoTxn,
               <<EngineWrite("DeleteTxnActive", None, txn[s].version, None)>> \o
               FlattenSeq([i \in DOMAIN order |->
                  << EngineWrite("DeleteVersion", order[i], txn[s].version, None),
                     EngineWrite("DeleteTxnWrite", order[i], txn[s].version, None) >>]))
StartRollbackLogFirst(s) ==
    /\ txn[s] # NoTxn
    /\ \E order \in SetToSeqs(txn_write[txn[s].version]) :
          Lock(s, "rollback", NoTxn,
               Append(FlattenSeq([i \in DOMAIN order |->
                         << EngineWrite("DeleteTxnWrite", order[i], txn[s].version, None),
                            EngineWrite("DeleteVersion", order[i], txn[s].version, None) >>]),
                      EngineWrite("DeleteTxnActive", None, txn[s].version, None)))
StartRollback(s) ==
    /\ txn[s] # NoTxn
    /\ \E order \in SetToSeqs(txn_write[txn[s].version]) :
          Lock(s, "rollback", NoTxn,
               Append(FlattenSeq([i \in DOMAIN order |->
                         << EngineWrite("DeleteVersion", order[i], txn[s].version, None),
                            EngineWrite("DeleteTxnWrite", order[i], txn[s].version, None) >>]),
                      EngineWrite("DeleteTxnActive", None, txn[s].version, None)))

-----------------------------------------------------------------------------
(* While the mutex is held.                                                *)

Apply(w) ==
    /\ next_version' = IF w.kind = "SetNextVersion" THEN w.version ELSE next_version
    /\ txn_active' = CASE w.kind = "SetTxnActive"    -> txn_active \cup {w.version}
                       [] w.kind = "DeleteTxnActive" -> txn_active \ {w.version}
                       [] OTHER                      -> txn_active
    /\ txn_write' = CASE w.kind = "SetTxnWrite"    -> [txn_write EXCEPT ![w.version] = @ \cup {w.key}]
                      [] w.kind = "DeleteTxnWrite" -> [txn_write EXCEPT ![w.version] = @ \ {w.key}]
                      [] OTHER                     -> txn_write
    /\ versions' = CASE w.kind = "SetVersion"    -> [versions EXCEPT ![w.key][w.version] = w.data]
                     [] w.kind = "DeleteVersion" -> [versions EXCEPT ![w.key][w.version] = Absent]
                     [] OTHER                    -> versions

\* The next engine write succeeds; after the last one the operation returns Ok
\* and the session keeps the handle it now has.
EngineStep ==
    /\ op # Idle
    /\ Apply(Head(op.todo))
    /\ IF Len(op.todo) > 1
         THEN /\ op' = [op EXCEPT !.todo = Tail(@)]
              /\ UNCHANGED <<txn, rolled_back>>
         ELSE /\ op' = Idle
              /\ txn' = [txn EXCEPT ![op.session] = op.handle]
              /\ rolled_back' = IF op.kind = "rollback"
                                  THEN rolled_back \cup {txn[op.session].version}
                                  ELSE rolled_back
    /\ UNCHANGED <<failures, unlogged>>

\* The next engine write answers Err: the operation returns it at once, and
\* the session stays with the handle it had.
EngineError ==
    /\ op # Idle
    /\ op.kind \in MayFail
    /\ failures < MaxFailures
    /\ failures' = failures + 1
    /\ op' = Idle
    /\ unlogged' = IF op.kind # "commit" THEN unlogged
                   ELSE LET v == txn[op.session].version
                        IN  unlogged \cup {<<k, v>> : k \in {j \in Key : versions[j][v] # Absent}
                                                              \ txn_write[v]}
    /\ UNCHANGED <<next_version, txn_active, txn_write, versions, txn, rolled_back>>

\* The process dies, in the middle of an operation or between two, and
\* restarts: Mvcc::new takes the engine as it finds it.
Crash ==
    /\ op # Idle \/ Live # {}
    /\ op' = Idle
    /\ txn' = [s \in Session |-> NoTxn]
    /\ UNCHANGED <<next_version, txn_active, txn_write, versions, failures, rolled_back,
                   unlogged>>

\* A connection ends between two requests and takes the handle with it.
Disconnect(s) ==
    /\ op = Idle
    /\ Abandon(s)
    /\ UNCHANGED <<op, failures, rolled_back, unlogged>>

StepsNext ==
    \/ \E s \in Session :
          \/ StartBegin(s)
          \/ \E k \in Key, x \in Opt : StartWriteInner(s, k, x)
          \/ StartCommit(s)
          \/ StartRollback(s)
          \/ Disconnect(s)
    \/ EngineStep
    \/ EngineError
    \/ Crash

StepsSpec == StepsInit /\ [][StepsNext]_stepVars

-----------------------------------------------------------------------------
(* Properties                                                              *)

\* A rollback under way has already lost some of what the transaction wrote,
\* but nobody can look: until it returns, the transaction counts as whole.
StepsOwn ==
    [s \in Session |-> [k \in Key |->
        IF op # Idle /\ op.session = s /\ op.kind = "rollback"
        THEN op.before[k][txn[s].version]
        ELSE AbsOwn[s][k]]]

StepsSI == INSTANCE SnapshotIsolation WITH
             Unwritten <- Absent,
             db <- AbsDb, live <- Live, snapshot <- AbsSnapshot,
             own <- StepsOwn, missed <- AbsMissed, locked <- AbsLocked

\* A crash between any two engine writes is all or nothing: commit takes effect
\* with its last write, the removal of TxnActive, and an operation cut short,
\* by a crash or by an error while beginning or writing, leaves nothing that
\* a later transaction could read.
CrashAtomic == StepsSI!Spec

\* A rollback that returned Ok removed every version its transaction wrote,
\* also when commits and rollbacks fail and are tried again: what it leaves
\* behind is only what a commit that failed before it had taken off the undo
\* log.
RollbackUndoesTheRest ==
    \A v \in rolled_back, k \in Key : versions[k][v] = Absent \/ <<k, v>> \in unlogged

\* Nobody writes data that the undo log does not list: write_inner records the
\* key before the data, so whatever a failure cuts off, a rollback finds it.
UndoLogComplete ==
    \A s \in Live : \A k \in Key :
        (k \in txn_write[txn[s].version])
          \/ (versions[k][txn[s].version] = Absent)
          \/ (op # Idle /\ op.session = s /\ op.kind = "commit")

-----------------------------------------------------------------------------
(* The inductive invariant: what the writes still to come have to do with  *)
(* those already made.                                                     *)

\* Whether i is the place of a deletion of that kind of key.
Deletes(i, kind, k) == i < Len(op.todo) /\ op.todo[i].kind = kind /\ op.todo[i].key = k

\* Between its two writes, the version of a begin is used nowhere yet.
WhileBeginning ==
    LET n == op.handle.version
        activate == EngineWrite("SetTxnActive", None, n, None)
    IN  /\ txn[op.session] = NoTxn
        /\ op.handle = [version |-> n, active_versions |-> txn_active]
        /\ n \in Version
        /\ \/ /\ op.todo = <<EngineWrite("SetNextVersion", None, n + 1, None), activate>>
              /\ next_version = n
           \/ /\ op.todo = <<activate>>
              /\ next_version = n + 1
              /\ Fresh(n)
              /\ \A v \in rolled_back : v < n

\* The conflict check still stands when the data is written, and the key is in
\* the log by then.
WhileWriting ==
    LET v == txn[op.session].version
    IN  /\ op.session \in Live
        /\ op.handle = txn[op.session]
        /\ \E k \in Key, x \in Opt :
              /\ ~WriteConflict(txn[op.session], k)
              /\ LET data == EngineWrite("SetVersion", k, v, x)
                 IN  \/ op.todo = <<EngineWrite("SetTxnWrite", k, v, None), data>>
                     \/ op.todo = <<data>> /\ k \in txn_write[v]

\* An operation that ends its transaction leaves the active list last.
WhileEnding ==
    LET v == txn[op.session].version
    IN  /\ op.session \in Live
        /\ op.handle = NoTxn
        /\ op.todo[Len(op.todo)] = EngineWrite("DeleteTxnActive", None, v, None)
        /\ \A i \in 1 .. Len(op.todo) - 1 :
              /\ op.todo[i].kind \in IF op.kind = "commit" THEN {"DeleteTxnWrite"}
                                     ELSE {"DeleteVersion", "DeleteTxnWrite"}
              /\ op.todo[i].key \in Key
              /\ op.todo[i].version = v

\* A rollback is going to remove every version of its transaction that is there
\* and logged, each before its entry in the log.
WhileRollingBack ==
    LET v == txn[op.session].version
    IN  \A k \in Key :
          /\ versions[k][v] \in {op.before[k][v], Absent}
          /\ \/ versions[k][v] = Absent
             \/ <<k, v>> \in unlogged
             \/ \E i \in DOMAIN op.todo : Deletes(i, "DeleteVersion", k)
          /\ \A i \in DOMAIN op.todo :
                Deletes(i, "DeleteTxnWrite", k) =>
                   \/ versions[k][v] = Absent
                   \/ \E j \in 1 .. i - 1 : Deletes(j, "DeleteVersion", k)

UnderWay ==
    op # Idle => /\ op.kind = "begin" => WhileBeginning
                 /\ op.kind = "write" => WhileWriting
                 /\ op.kind \in {"commit", "rollback"} => WhileEnding
                 /\ op.kind = "rollback" => WhileRollingBack

\* An open transaction's data is in the log, save for what a commit is taking,
\* or has taken before it failed, off the log.
LoggedOrTaken ==
    \A s \in Live, k \in Key :
        LET v == txn[s].version
        IN  \/ k \in txn_write[v]
            \/ versions[k][v] = Absent
            \/ <<k, v>> \in unlogged
            \/ op # Idle /\ op.session = s /\ op.kind = "commit"

\* A version that was rolled back does not come back.
RolledBackOver == \A v \in rolled_back : v < next_version /\ v \notin txn_active

StepsInv ==
    /\ Ordered
    /\ StepsTypeOK
    /\ \A v \in Version : IsFiniteSet(txn_write[v])
    /\ UnderWay
    /\ LoggedOrTaken
    /\ RolledBackOver
    /\ RollbackUndoesTheRest

=============================================================================
