--------------------------- MODULE MCCachedStore ----------------------------
(* Small instances of CachedStore for TLC.                                 *)
EXTENDS CachedStore, TLC

\* A host buffer in which neighbouring blocks differ: a block that moves from
\* or to the wrong place differs from what belongs there.
MCSources == {[i \in 0 .. 3 |-> i % 2]}
MCData == {0, 1}
MCKeys == 0 .. SLICES - 1

\* Buffers are only compared.
Symmetry == Permutations(Bufs)
=============================================================================
