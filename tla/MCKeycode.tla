----------------------------- MODULE MCKeycode -----------------------------
(* Byte strings of the bytes that matter to the encoding, and the keys of  *)
(* two tables one of whose names begins with the other's.                  *)
EXTENDS Keycode

CONSTANT MaxLength

MCRawKey == BoundedSeq({0, 1, 255}, MaxLength)
MCVersion == {1, 255, 256, MaxU64}

\* `a' is 97, `b' is 98.
MCName == { <<97>>, <<97, 97>> }
MCSqlValue ==
    { [type |-> "Null"], [type |-> "Boolean", value |-> 1],
      [type |-> "Integer", value |-> 1], [type |-> "Integer", value |-> 97],
      [type |-> "Float", value |-> 97],
      [type |-> "String", value |-> << >>], [type |-> "String", value |-> <<97>>] }
MCSqlKey ==
    [kind : {"Table"}, table : MCName]
      \cup [kind : {"Row"}, table : MCName, value : MCSqlValue]
      \cup [kind : {"Index"}, table : MCName, column : {<<97>>, <<97, 97>>}, value : MCSqlValue]

MCMvccKey ==
    { [kind |-> "NextVersion"] }
      \cup [kind : {"TxnActive"}, version : MCVersion]
      \cup [kind : {"TxnWrite"}, version : MCVersion, key : MCRawKey]
      \cup [kind : {"Version"}, key : MCRawKey, version : MCVersion]
      \cup {[kind |-> "Version", key |-> EncodeSql(k), version |-> 1] : k \in MCSqlKey}
=============================================================================
