------------------------------ MODULE Keycode ------------------------------
(***************************************************************************)
(* src/src/storage/keycode.rs: how keys become the byte strings the engine *)
(* orders, and Engine::scan_prefix (src/src/storage/engine.rs), which      *)
(* finds keys by their first bytes.                                        *)
(*                                                                         *)
(* The engine holds the keys of one map.  That they fall apart into the    *)
(* four kinds of Mvcc, that the versions of a key lie together in order,   *)
(* and which of them a prefix finds, is what the encoding has to provide.  *)
(*                                                                         *)
(* A byte is a number in 0..255; a u64, i64 or f64 takes two bytes here.   *)
(* The value of an i64 or f64 is its bits, as to_be_bytes writes them.     *)
(***************************************************************************)
EXTENDS Integers, FiniteSets, SequencesExt

CONSTANTS
    MvccKey,   \* the keys of storage/mvcc.rs that may be stored
    RawKey,    \* byte strings that reads and scans ask for
    SqlKey,    \* keys of sql/engine/kv.rs; in MvccKey, their versions
    Malformed, \* the result of decoding what is not an encoded key
    MaxKeys    \* bound: keys stored at a time

ASSUME MaxKeysAssumption == MaxKeys \in Nat

Byte == 0..255
\* The largest version, which stands for u64::MAX.
MaxU64 == 256 * 256 - 1
U64 == 0..MaxU64

\* A name has letters, digits and underscores, whose bytes are more than the
\* numbers of the types.
Name == Seq(5..255)
SqlValue ==
    [type : {"Null"}] \cup [type : {"Boolean"}, value : {0, 1}]
      \cup [type : {"Integer", "Float"}, value : U64]
      \cup [type : {"String"}, value : Seq(Byte)]

ASSUME KeysAssumption ==
    /\ \A k \in MvccKey :
          \/ k \in [kind : {"NextVersion"}]
          \/ k \in [kind : {"TxnActive"}, version : U64]
          \/ k \in [kind : {"TxnWrite"}, version : U64, key : Seq(Byte)]
          \/ k \in [kind : {"Version"}, key : Seq(Byte), version : U64]
    /\ RawKey \subseteq Seq(Byte)
    /\ \A k \in SqlKey :
          \/ k \in [kind : {"Table"}, table : Name]
          \/ k \in [kind : {"Row"}, table : Name, value : SqlValue]
          \/ k \in [kind : {"Index"}, table : Name, column : Name, value : SqlValue]
    /\ Malformed \notin [bytes : Seq(Byte), end : Nat]

VARIABLES
    data,   \* the engine: the byte strings that are stored keys
    keys    \* history: the keys they encode

vars == <<data, keys>>

-----------------------------------------------------------------------------
(* Encoding                                                                *)

LittleEndian(n) == << n % 256, n \div 256 >>
BigEndian(n) == << n \div 256, n % 256 >>

SerializeBytesUnescaped(b) == b \o <<0, 0>>
\* A zero is followed by 255, and two zeros end the string.
Escape(x) == IF x = 0 THEN <<0, 255>> ELSE <<x>>
Escaped(b) == FlattenSeq([i \in DOMAIN b |-> Escape(b[i])])
SerializeBytes(b) == Escaped(b) \o <<0, 0>>

\* MvccKey: the number of the variant and its fields.
Encode(k) ==
    CASE k.kind = "NextVersion" -> <<0>>
      [] k.kind = "TxnActive"   -> <<1>> \o BigEndian(k.version)
      [] k.kind = "TxnWrite"    -> <<2>> \o BigEndian(k.version) \o SerializeBytes(k.key)
      [] k.kind = "Version"     -> <<3>> \o SerializeBytes(k.key) \o BigEndian(k.version)

EncodeValueUntagged(x) ==
    CASE x.type = "Null"    -> << >>
      [] x.type = "Boolean" -> <<x.value>>
      [] x.type \in {"Integer", "Float"} -> BigEndian(x.value)
      [] x.type = "String"  -> x.value
\* Value, as part of a key: a string is its bytes and nothing after them.
EncodeValue(x) ==
    CASE x.type = "Null"    -> <<0>>
      [] x.type = "Boolean" -> <<1, x.value>>
      [] x.type = "Integer" -> <<2>> \o BigEndian(x.value)
      [] x.type = "Float"   -> <<3>> \o BigEndian(x.value)
      [] x.type = "String"  -> <<4>> \o x.value

\* Key of kv.rs, likewise: names run into what follows.
EncodeSql(k) ==
    CASE k.kind = "Table" -> <<0>> \o k.table
      [] k.kind = "Row"   -> <<1>> \o k.table \o EncodeValue(k.value)
      [] k.kind = "Index" -> <<2>> \o k.table \o k.column \o EncodeValue(k.value)

-----------------------------------------------------------------------------
(* Decoding                                                                *)

WithByte(x, rest) ==
    IF rest = Malformed THEN Malformed
    ELSE [bytes |-> <<x>> \o rest.bytes, end |-> rest.end]

\* next_bytes: the string that starts a byte string and how many bytes it took.
NextBytes(s) ==
    LET from[i \in Nat] ==
          IF i > Len(s) THEN Malformed
          ELSE IF s[i] # 0 THEN WithByte(s[i], from[i + 1])
          ELSE IF i < Len(s) /\ s[i + 1] = 0 THEN [bytes |-> << >>, end |-> i + 1]
          ELSE IF i < Len(s) /\ s[i + 1] = 255 THEN WithByte(0, from[i + 2])
          ELSE Malformed
    IN  from[1]

\* Two bytes at position i as a number.
U64At(s, i) == 256 * s[i] + s[i + 1]

Decode(s) ==
    CASE s[1] = 0 -> [kind |-> "NextVersion"]
      [] s[1] = 1 -> [kind |-> "TxnActive", version |-> U64At(s, 2)]
      [] s[1] = 2 -> LET b == NextBytes(SubSeq(s, 4, Len(s)))
                     IN  IF b = Malformed THEN Malformed
                         ELSE [kind |-> "TxnWrite", version |-> U64At(s, 2), key |-> b.bytes]
      [] s[1] = 3 -> LET b == NextBytes(Tail(s))
                     IN  IF b = Malformed \/ Len(s) < b.end + 3 THEN Malformed
                         ELSE [kind |-> "Version", key |-> b.bytes,
                               version |-> U64At(s, b.end + 2)]

-----------------------------------------------------------------------------
(* The engine's scans                                                      *)

\* The order of byte strings.
Before(a, b) ==
    \/ IsStrictPrefix(a, b)
    \/ \E i \in DOMAIN a \cap DOMAIN b :
          a[i] < b[i] /\ \A j \in 1..(i - 1) : a[j] = b[j]

\* The elements of a set in an order, by its definition.
InOrder(S, Precedes(_, _)) ==
    CHOOSE seq \in [1..Cardinality(S) -> S] :
        \A i, j \in DOMAIN seq : i < j => Precedes(seq[i], seq[j])

Sorted(strings) == InOrder(strings, Before)

\* from..=to
Scan(from, to) == Sorted({s \in data : ~Before(s, from) /\ ~Before(to, s)})

\* The bound is the prefix with its last byte one up; bytes of 255 at its end
\* carry, and if there are only those there is no bound.
ScanPrefixNoCarry(prefix) ==
    LET bound == [prefix EXCEPT ![Len(prefix)] = (@ + 1) % 256]
    IN  Sorted({s \in data : ~Before(s, prefix) /\ Before(s, bound)})
ScanPrefix(prefix) ==
    LET below == {i \in DOMAIN prefix : prefix[i] # 255}
        bound == [SubSeq(prefix, 1, Max(below)) EXCEPT ![Max(below)] = @ + 1]
    IN  Sorted({s \in data : ~Before(s, prefix) /\ (below # {} => Before(s, bound))})

\* MvccKeyPrefix, and the raw prefix of scan_prefix without its terminator.
TxnActivePrefix == <<1>>
TxnWritePrefix(v) == <<2>> \o BigEndian(v)
VersionPrefixTerminated(p) == <<3>> \o SerializeBytes(p)
VersionPrefix(p) ==
    LET enc == <<3>> \o SerializeBytes(p) IN SubSeq(enc, 1, Len(enc) - 2)

\* KeyPrefix of kv.rs.
TablePrefix == <<0>>
RowPrefix(t) == <<1>> \o t

-----------------------------------------------------------------------------
(* What is stored                                                          *)

Init == data = {} /\ keys = {}

\* engine.set and engine.delete, as mvcc.rs calls them.
Set(k) ==
    /\ Cardinality(keys) < MaxKeys
    /\ data' = data \cup {Encode(k)}
    /\ keys' = keys \cup {k}

Delete(k) ==
    /\ data' = data \ {Encode(k)}
    /\ keys' = keys \ {k}

Next == \/ \E k \in MvccKey : Set(k)
        \/ \E k \in keys : Delete(k)

Spec == Init /\ [][Next]_vars

-----------------------------------------------------------------------------
(* Properties                                                              *)

KeyOf(kind) == {k \in keys : k.kind = kind}
Decoded(strings) == [i \in DOMAIN strings |-> Decode(strings[i])]
Version(r, v) == [kind |-> "Version", key |-> r, version |-> v]
Numbers == {k.version : k \in {j \in MvccKey : j.kind = "TxnActive"}} \cup {0, MaxU64}

\* A stored key decodes to itself, and no two share a byte string: writing a
\* key of one kind, or a version of one key, never overwrites another.
DecodesBack ==
    /\ \A k \in keys : Encode(k) \in data /\ Decode(Encode(k)) = k
    /\ Cardinality(data) = Cardinality(keys)

\* get and write_inner scan from one version of a key to another: they find the
\* versions of that key and no other, in the order of the versions, whatever
\* zeros the key holds or begins another with.
VersionRangeExact ==
    \A r \in RawKey : \A from, to \in Numbers :
        Decoded(Scan(Encode(Version(r, from)), Encode(Version(r, to))))
          = InOrder({k \in KeyOf("Version") : k.key = r /\ k.version \in from..to},
                    LAMBDA j, k : j.version < k.version)

\* scan_prefix finds the versions of the keys that begin with the prefix, none
\* else, and those of one key from the oldest to the newest, as its replay
\* needs; scan_active and rollback find the active transactions and the
\* keys of the transaction, also when a number ends in bytes of 255.
PrefixScanExact ==
    /\ \A p \in RawKey :
          LET found == Decoded(ScanPrefix(VersionPrefix(p)))
          IN  /\ ToSet(found) = {k \in KeyOf("Version") : IsPrefix(p, k.key)}
              /\ \A i, j \in DOMAIN found :
                    i < j /\ found[i].key = found[j].key => found[i].version < found[j].version
    /\ ToSet(Decoded(ScanPrefix(TxnActivePrefix))) = KeyOf("TxnActive")
    /\ \A v \in Numbers :
          ToSet(Decoded(ScanPrefix(TxnWritePrefix(v)))) = {k \in KeyOf("TxnWrite") : k.version = v}

StoredSql == {k \in SqlKey : Version(EncodeSql(k), 1) \in keys}

\* Two keys of the table layer are one key of the store only if both are index
\* entries for the same value and their names run together to the same letters.
SqlKeysApart ==
    \A j, k \in StoredSql :
        EncodeSql(j) = EncodeSql(k) =>
            \/ j = k
            \/ /\ j.kind = "Index" /\ k.kind = "Index"
               /\ j.table \o j.column = k.table \o k.column
               /\ j.value = k.value

\* The scan for the rows of a table finds them all, no key of another kind, and
\* rows of another table only if its name begins with this one's; the
\* scan for tables finds exactly the tables.
RowScanCovers ==
    LET Find(prefix) == {k \in StoredSql : Encode(Version(EncodeSql(k), 1))
                                             \in ToSet(ScanPrefix(VersionPrefix(prefix)))}
        OfKind(kind) == {k \in StoredSql : k.kind = kind}
    IN  /\ Find(TablePrefix) = OfKind("Table")
        /\ \A t \in {k.table : k \in SqlKey} :
              Find(RowPrefix(t)) = {k \in OfKind("Row") : IsPrefix(t, k.table)}

=============================================================================
