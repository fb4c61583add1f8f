------------------------------- MODULE MCMvcc -------------------------------
(* Small instances of the transaction layer for TLC.                       *)
EXTENDS Mvcc, TLC

\* Sessions and keys are interchangeable: no definition names one.
Symmetry == Permutations(Session) \cup Permutations(Key)

=============================================================================
