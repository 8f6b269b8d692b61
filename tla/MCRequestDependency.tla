------------------------ MODULE MCRequestDependency ------------------------
(* Small instances of RequestDependency for TLC.                           *)
EXTENDS RequestDependency, TLC

\* Pool entries and buffers are only compared.
Symmetry == Permutations(Slots) \cup Permutations(Bufs)
=============================================================================
