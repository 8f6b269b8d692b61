----------------------------- MODULE SliceStore -----------------------------
(***************************************************************************)
(* What the flash translation layer promises: a store of logical slices.   *)
(* A write is a call that starts and finishes; in between its own slice    *)
(* holds nothing, and no write ever changes another slice.                 *)
(***************************************************************************)
CONSTANTS LogicalSlices, Data, NONE

VARIABLES
    store,      \* what a read of each slice returns, NONE if never written
    writing     \* <<slice, data>> of the write under way, or NONE

Init ==
    /\ store = [l \in LogicalSlices |-> NONE]
    /\ writing = NONE

StartWrite(l, x) ==
    /\ writing = NONE
    /\ writing' = <<l, x>>
    /\ store' = [store EXCEPT ![l] = NONE]

FinishWrite ==
    /\ writing # NONE
    /\ store' = [store EXCEPT ![writing[1]] = writing[2]]
    /\ writing' = NONE

Next == FinishWrite \/ \E l \in LogicalSlices, x \in Data : StartWrite(l, x)

Spec == Init /\ [][Next]_<<store, writing>>
=============================================================================
