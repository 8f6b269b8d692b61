----------------------------- MODULE StoredData -----------------------------
(***************************************************************************)
(* AddressTranslation together with the data its requests move: a buffer   *)
(* is written to the page AddrTransWrite returns (EvictDataBufEntry,       *)
(* FlushDataBuf), a collection reads each valid slice of its victim and    *)
(* writes it to its new page, and an erase loses what the block held.      *)
(* Requests take effect in the order they are made, which is what          *)
(* RequestDependency is about.                                             *)
(***************************************************************************)
EXTENDS AddressTranslation

CONSTANT Data               \* what the host writes

ASSUME DataAssumption == NONE \notin LogicalSlices \X Data

VARIABLES
    flash,                  \* the data in each page
    incoming                \* the data of the write under way

storedVars == <<vars, flash, incoming>>

StoredInit ==
    /\ Init
    /\ flash = [v \in Slices |-> NONE]
    /\ incoming = NONE

\* EvictDataBufEntry and FlushDataBuf: ask for a page, then write it.
Evict ==
    /\ \E l \in LogicalSlices, x \in Data : AddrTransWrite(l) /\ incoming' = x
    /\ UNCHANGED flash

WritePage ==
    /\ Allocate
    /\ flash' = [flash EXCEPT ![l2v'[lsa]] = incoming]
    /\ incoming' = NONE

\* The read and the write request of one copied slice.
CopyPage ==
    /\ GcCopy
    /\ flash' = [flash EXCEPT ![l2v'[v2l[GcSlice]]] = flash[GcSlice]]
    /\ UNCHANGED incoming

EraseFlash ==
    /\ EraseBlock
    /\ flash' = [v \in Slices |-> IF v[1] = targetDie /\ v[2] = victim THEN NONE ELSE flash[v]]
    /\ UNCHANGED incoming

MoveNothing ==
    /\ StartGarbageCollection \/ GcSkip
    /\ UNCHANGED <<flash, incoming>>

StoredNext == Evict \/ WritePage \/ CopyPage \/ EraseFlash \/ MoveNothing

\* Under the condition of SpecUnlessCurrentErased.
StoredSpec == StoredInit /\ [][StoredNext /\ ~ErasesCurrentBlock']_storedVars

-----------------------------------------------------------------------------
\* AddrTransRead, and the read request DataReadFromNand makes of its answer.
AddrTransRead(l) == l2v[l]
DataReadFromNand(l) == IF AddrTransRead(l) = NONE THEN NONE ELSE flash[AddrTransRead(l)]

Store == INSTANCE SliceStore WITH
            store   <- [l \in LogicalSlices |-> DataReadFromNand(l)],
            writing <- IF pc = "idle" THEN NONE ELSE <<lsa, incoming>>

\* Whatever is copied and erased, a logical slice reads as it was last written
\* and no write disturbs another slice (AddrTransWrite, GarbageCollection).
ImplementsSliceStore == Store!Spec
=============================================================================
