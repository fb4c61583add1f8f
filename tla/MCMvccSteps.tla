----------------------------- MODULE MCMvccSteps -----------------------------
(* Small instances of the transaction layer, one engine write at a time.   *)
EXTENDS MvccSteps

\* Sessions and keys are interchangeable: no definition names one.
Symmetry == Permutations(Session) \cup Permutations(Key)

=============================================================================
