------------------------------ MODULE KvEngine ------------------------------
(***************************************************************************)
(* The storage engine as its callers see it: the Engine trait, implemented *)
(* directly by the BTreeMap of src/src/storage/memory.rs.                  *)
(***************************************************************************)

CONSTANTS
    Key,     \* byte strings used as keys
    Value,   \* byte strings used as values
    None     \* what get answers for a key that is not in the map

VARIABLE data   \* data[k] = None: the map has no key k

Init == data = [k \in Key |-> None]

Set(k, x) == data' = [data EXCEPT ![k] = x]

Delete(k) == data' = [data EXCEPT ![k] = None]

\* What an implementation does beside its callers' operations shows them nothing.
Internal == UNCHANGED data

=============================================================================
