------------------------- MODULE SnapshotIsolation -------------------------
(***************************************************************************)
(* What the transaction layer promises to its callers, with no versions,   *)
(* no active list and no log of written keys: every transaction reads from *)
(* a private snapshot taken when it began, overlaid with its own writes; a *)
(* write is refused when somebody else holds the key or committed it after *)
(* the snapshot; a commit publishes all of a transaction's writes at once. *)
(*                                                                         *)
(* The promise also has its dark corner: a transaction that is abandoned   *)
(* (its handle is dropped, or the process dies) is never cleaned up, and   *)
(* the keys it wrote stay locked for ever.                                 *)
(***************************************************************************)

CONSTANTS
    Session,    \* the holders of transaction handles
    Key,        \* user keys
    Value,      \* user values
    None,       \* the answer for a key that does not exist
    Unwritten   \* marks a key a transaction has not written

VARIABLES
    db,         \* the committed database
    live,       \* sessions with an open transaction
    snapshot,   \* the database as it was when the session's transaction began
    own,        \* what the session's transaction has written itself
    missed,     \* keys committed by others since the session's snapshot
    locked      \* keys held by transactions nobody can end any more

vars == <<db, live, snapshot, own, missed, locked>>

Opt == Value \cup {None}

NoData == [k \in Key |-> None]
NoWrites == [k \in Key |-> Unwritten]

Written(s) == {k \in Key : own[s][k] # Unwritten}

TypeOK ==
    /\ db \in [Key -> Opt]
    /\ live \subseteq Session
    /\ snapshot \in [Session -> [Key -> Opt]]
    /\ own \in [Session -> [Key -> Opt \cup {Unwritten}]]
    /\ missed \in [Session -> SUBSET Key]
    /\ locked \subseteq Key

Init ==
    /\ db = NoData
    /\ live = {}
    /\ snapshot = [s \in Session |-> NoData]
    /\ own = [s \in Session |-> NoWrites]
    /\ missed = [s \in Session |-> {}]
    /\ locked = {}

\* What transaction s answers when asked for key k.
Read(s, k) == IF own[s][k] # Unwritten THEN own[s][k] ELSE snapshot[s][k]

\* Nobody else holds the key, and nobody committed it behind the snapshot.
Free(s, k) ==
    /\ k \notin missed[s]
    /\ k \notin locked
    /\ \A r \in live \ {s} : own[r][k] = Unwritten

\* The session's transaction is over; nothing of it is left.
Forget(s) ==
    /\ live' = live \ {s}
    /\ snapshot' = [snapshot EXCEPT ![s] = NoData]
    /\ own' = [own EXCEPT ![s] = NoWrites]

Begin(s) ==
    /\ s \notin live
    /\ live' = live \cup {s}
    /\ snapshot' = [snapshot EXCEPT ![s] = db]
    /\ UNCHANGED <<db, own, missed, locked>>

Write(s, k, x) ==
    /\ s \in live
    /\ Free(s, k)
    /\ own' = [own EXCEPT ![s][k] = x]
    /\ UNCHANGED <<db, live, snapshot, missed, locked>>

Commit(s) ==
    /\ s \in live
    /\ db' = [k \in Key |-> IF own[s][k] = Unwritten THEN db[k] ELSE own[s][k]]
    /\ missed' = [r \in Session |->
                    IF r \in live \ {s} THEN missed[r] \cup Written(s) ELSE {}]
    /\ Forget(s)
    /\ UNCHANGED locked

Rollback(s) ==
    /\ s \in live
    /\ missed' = [missed EXCEPT ![s] = {}]
    /\ Forget(s)
    /\ UNCHANGED <<db, locked>>

Abandon(s) ==
    /\ s \in live
    /\ locked' = locked \cup Written(s)
    /\ missed' = [missed EXCEPT ![s] = {}]
    /\ Forget(s)
    /\ UNCHANGED db

\* The process dies.  The keys in L stay locked: a rollback that was under
\* way may already have released some of those it had written.
Crash(L) ==
    /\ L \subseteq UNION {Written(s) : s \in live}
    /\ locked' = locked \cup L
    /\ live' = {}
    /\ snapshot' = [s \in Session |-> NoData]
    /\ own' = [s \in Session |-> NoWrites]
    /\ missed' = [s \in Session |-> {}]
    /\ UNCHANGED db

Next ==
    \/ \E s \in Session :
          \/ Begin(s)
          \/ \E k \in Key, x \in Opt : Write(s, k, x)
          \/ Commit(s)
          \/ Rollback(s)
          \/ Abandon(s)
    \/ \E L \in SUBSET Key : Crash(L)

Spec == Init /\ [][Next]_vars

=============================================================================
