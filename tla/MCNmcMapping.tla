---------------------------- MODULE MCNmcMapping ----------------------------
(* Small instances of NmcMapping for TLC, with a directory block to skip.  *)
EXTENDS NmcMapping, TLC

CONSTANTS fileA, fileB

\* File names are only compared.
Symmetry == Permutations(Names)
SkipOne == {<<1, 1, 0>>}
=============================================================================
