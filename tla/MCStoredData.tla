---------------------------- MODULE MCStoredData ----------------------------
(* A small instance of StoredData for TLC.                                 *)
EXTENDS StoredData, TLC

\* Every block is usable but the last one of die 1.
OneBadBlock == [d \in Dies |-> IF d = 1 THEN <<0, 1>> ELSE <<0, 1, 2>>]

Symmetry == Permutations(LogicalSlices) \cup Permutations(Data)
=============================================================================
