---------------------------- MODULE MCBlockLinks ----------------------------
(* A small instance of BlockLinks for TLC.                                 *)
EXTENDS BlockLinks, TLC

\* Every block is usable on every die.
AllBlocksFree ==
    [d \in 0 .. USER_CHANNELS * USER_WAYS - 1 |-> [i \in 1 .. USER_BLOCKS_PER_DIE |-> i - 1]]

SliceSymmetry == Permutations(LogicalSlices)
=============================================================================
