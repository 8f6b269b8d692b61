------------------------- MODULE AddressTranslation -------------------------
(***************************************************************************)
(* The page-level flash translation layer of the firmware: the logical to  *)
(* virtual slice maps, the free block list and current block of each die,  *)
(* the garbage-collection victim lists, and the one operation that changes *)
(* them at run time, AddrTransWrite with everything it calls               *)
(* (InvalidateOldVsa, FindFreeVirtualSlice, GarbageCollection,             *)
(* FindFreeVirtualSliceForGc, EraseBlock).                                 *)
(*                                                                         *)
(* AddrTransWrite is sequential code, but its garbage collector hands      *)
(* requests to the scheduler from inside the copy loop, so what holds in   *)
(* the middle of a collection matters.  The call is therefore cut into its *)
(* steps: `pc' is where the call stands, and one step is one iteration of  *)
(* the copy loop.  Until the call returns no other step is enabled.        *)
(*                                                                         *)
(* A virtual slice address is its location <<die, block, page>>, the       *)
(* triple Vorg2VsaTranslation packs into an integer.  The two kinds of     *)
(* doubly linked lists are sequences, which they are as long as no block   *)
(* is on a free and a victim list at once: the lists share the links of a  *)
(* block.  That is so in SpecUnlessCurrentErased, the specification of     *)
(* this module; BlockLinks has the links, and what happens otherwise.      *)
(* Block interleaving for NMC files is off, as it is at boot and whenever  *)
(* no NMC file is being written.                                           *)
(* Where the code asserts that a block is found, no step is enabled if     *)
(* none is; VictimExists and BlockAvailable say whether that happens.      *)
(***************************************************************************)
EXTENDS Integers, Sequences, FiniteSets, LinkedLists

CONSTANTS
    USER_CHANNELS,          \* number of channels
    USER_WAYS,              \* number of ways of a channel
    USER_BLOCKS_PER_DIE,    \* number of virtual blocks of a die
    USER_PAGES_PER_BLOCK,   \* pages, hence slices, of a block
    LogicalSlices,          \* the logical slices the host may write
    FreeAtBoot,             \* for each die, the free block list InitBlockMap builds
    NONE                    \* VSA_NONE, LSA_NONE, BLOCK_NONE

RESERVED_FREE_BLOCK_COUNT == 1
SLICES_PER_BLOCK == USER_PAGES_PER_BLOCK
USER_DIES == USER_CHANNELS * USER_WAYS

Dies   == 0 .. USER_DIES - 1
Blocks == 0 .. USER_BLOCKS_PER_DIE - 1
Pages  == 0 .. USER_PAGES_PER_BLOCK - 1
Slices == Dies \X Blocks \X Pages          \* virtual slice addresses

ASSUME GeometryAssumption ==
    /\ USER_CHANNELS \in Nat \ {0}
    /\ USER_WAYS \in Nat \ {0}
    /\ USER_DIES \in Nat \ {0}
    /\ USER_BLOCKS_PER_DIE \in Nat \ {0}
    /\ USER_PAGES_PER_BLOCK \in Nat \ {0}

ASSUME NoneAssumption ==
    /\ NONE \notin Slices
    /\ NONE \notin LogicalSlices
    /\ NONE \notin Blocks

\* InitBlockMap lists every usable block once; InitCurrentBlockOfDieMap
\* asserts that a block is left above the reserve.
ASSUME FreeAtBootAssumption ==
    /\ FreeAtBoot \in [Dies -> Seq(Blocks)]
    /\ \A d \in Dies :
        /\ Len(FreeAtBoot[d]) > RESERVED_FREE_BLOCK_COUNT
        /\ \A i, j \in 1 .. Len(FreeAtBoot[d]) :
              FreeAtBoot[d][i] = FreeAtBoot[d][j] => i = j

VARIABLES
    l2v,            \* logicalSliceMap: LSA -> VSA or NONE
    v2l,            \* virtualSliceMap: VSA -> LSA or NONE
    currentPage,    \* block[die][block].currentPage
    invalidCnt,     \* block[die][block].invalidSliceCnt
    fbList,         \* the free block list of each die, head first
    currentBlock,   \* die[die].currentBlock
    victimList,     \* gcVictimList[die][invalidSliceCnt], head first
    targetCh, targetWay, targetDie,   \* where the next slices are allocated
    pc,             \* where AddrTransWrite stands
    lsa,            \* the logical slice it writes
    victim,         \* victimBlockNo of GarbageCollection
    gcPage          \* pageNo of its copy loop

maps  == <<l2v, v2l>>
lists == <<fbList, currentBlock, victimList>>
die   == <<targetCh, targetWay, targetDie>>
gc    == <<victim, gcPage>>
vars  == <<maps, currentPage, invalidCnt, lists, die, pc, lsa, gc>>

PCs == {"idle", "alloc", "copy", "erase", "realloc"}

-----------------------------------------------------------------------------
IsMapped(v) == v2l[v] # NONE
IsValid(v) == v2l[v] # NONE /\ l2v[v2l[v]] = v

\* GetFromFbList refuses a normal request once only the reserve is left.
NormalBlockAvailable(d) == Len(fbList[d]) > RESERVED_FREE_BLOCK_COUNT

\* GetFromGcVictimList: the block at the head of the longest-invalid list.
VictimCountsBelowFull(d) == {n \in 1 .. SLICES_PER_BLOCK - 1 : victimList[d][n] # <<>>}
VictimCounts(d) == {n \in 1 .. SLICES_PER_BLOCK : victimList[d][n] # <<>>}
MostInvalid(d)  == CHOOSE n \in VictimCounts(d) : \A m \in VictimCounts(d) : m <= n

InitSliceMap ==
    /\ l2v = [l \in LogicalSlices |-> NONE]
    /\ v2l = [v \in Slices |-> NONE]

InitBlockMap ==
    /\ currentPage = [d \in Dies |-> [b \in Blocks |-> 0]]
    /\ invalidCnt = [d \in Dies |-> [b \in Blocks |-> 0]]

InitCurrentBlockOfDieMap ==
    /\ fbList = [d \in Dies |-> Tail(FreeAtBoot[d])]
    /\ currentBlock = [d \in Dies |-> Head(FreeAtBoot[d])]

InitGcVictimMap == victimList = [d \in Dies |-> [n \in 0 .. SLICES_PER_BLOCK |-> <<>>]]

\* InitAddressMap has called FindDieForFreeSliceAllocation once.
Init ==
    /\ InitSliceMap
    /\ InitBlockMap
    /\ InitCurrentBlockOfDieMap
    /\ InitGcVictimMap
    /\ targetCh = IF USER_CHANNELS = 1 THEN 0 ELSE 1
    /\ targetWay = IF USER_CHANNELS = 1 THEN 1 % USER_WAYS ELSE 0
    /\ targetDie = 0
    /\ pc = "idle"
    /\ lsa = NONE
    /\ victim = NONE
    /\ gcPage = 0

-----------------------------------------------------------------------------
(* AddrTransWrite(l), up to and including InvalidateOldVsa: the old slice  *)
(* of l, if the two maps agree on it, becomes invalid and its block moves  *)
(* to the next victim list.                                                *)

TargetDieOf(v) == targetDie
Vsa2VdieTranslation(v) == v[1]
Vsa2VblockTranslation(v) == v[2]

InvalidateOldVsa(l) ==
    LET v == l2v[l]
        d == Vsa2VdieTranslation(v)
        b == Vsa2VblockTranslation(v)
        n == invalidCnt[d][b]
    IN  /\ l2v' = [l2v EXCEPT ![l] = NONE]
        /\ invalidCnt' = [invalidCnt EXCEPT ![d][b] = n + 1]
        /\ victimList' = [victimList EXCEPT
                            ![d][n] = Unlink(@, b),
                            ![d][n + 1] = Append(@, b)]
        /\ UNCHANGED v2l

AddrTransWrite(l) ==
    /\ pc = "idle"
    /\ pc' = "alloc"
    /\ lsa' = l
    /\ IF l2v[l] # NONE /\ v2l[l2v[l]] = l
       THEN InvalidateOldVsa(l)
       ELSE UNCHANGED <<maps, invalidCnt, victimList>>
    /\ UNCHANGED <<currentPage, fbList, currentBlock, die, gc>>

\* FindDieForFreeSliceAllocation: round robin over channels, then ways.
FindDieForFreeSliceAllocation ==
    /\ targetDie' = targetCh + targetWay * USER_CHANNELS
    /\ IF targetCh # USER_CHANNELS - 1
       THEN targetCh' = targetCh + 1 /\ UNCHANGED targetWay
       ELSE targetCh' = 0 /\ targetWay' = (targetWay + 1) % USER_WAYS

\* The next page of block b is given to l, in both maps.
Program(d, b, l) ==
    LET v == <<d, b, currentPage[d][b]>>
    IN  /\ currentPage' = [currentPage EXCEPT ![d][b] = @ + 1]
        /\ l2v' = [l2v EXCEPT ![l] = v]
        /\ v2l' = [v2l EXCEPT ![v] = l]

\* The last lines of FindFreeVirtualSlice and of AddrTransWrite.
FinishWrite(b) ==
    /\ Program(targetDie, b, lsa)
    /\ FindDieForFreeSliceAllocation
    /\ pc' = "idle"
    /\ lsa' = NONE
    /\ UNCHANGED <<invalidCnt, victimList, gc>>

-----------------------------------------------------------------------------
(* FindFreeVirtualSlice, before and after the collection it may need.      *)

CurrentIsFull == currentPage[targetDie][currentBlock[targetDie]] = USER_PAGES_PER_BLOCK

\* The current block of the target die has a page left.
AllocFromCurrent ==
    /\ pc \in {"alloc", "realloc"}
    /\ ~CurrentIsFull
    /\ FinishWrite(currentBlock[targetDie])
    /\ UNCHANGED <<fbList, currentBlock>>

\* The current block is full and a free block above the reserve replaces it.
AllocFromNewBlock ==
    /\ pc \in {"alloc", "realloc"}
    /\ CurrentIsFull
    /\ NormalBlockAvailable(targetDie)
    /\ currentBlock' = [currentBlock EXCEPT ![targetDie] = Head(fbList[targetDie])]
    /\ fbList' = [fbList EXCEPT ![targetDie] = Tail(@)]
    /\ FinishWrite(Head(fbList[targetDie]))

\* Only the reserve is left: GarbageCollection takes a victim, and copies
\* unless every slice of the victim is invalid.
StartGarbageCollection ==
    /\ pc = "alloc"
    /\ CurrentIsFull
    /\ ~NormalBlockAvailable(targetDie)
    /\ VictimCounts(targetDie) # {}
    /\ LET n == MostInvalid(targetDie)
           b == Head(victimList[targetDie][n])
       IN  /\ victim' = b
           /\ victimList' = [victimList EXCEPT ![targetDie][n] = Tail(@)]
           /\ pc' = IF invalidCnt[targetDie][b] # SLICES_PER_BLOCK THEN "copy" ELSE "erase"
    /\ gcPage' = 0
    /\ UNCHANGED <<maps, currentPage, invalidCnt, fbList, currentBlock, die, lsa>>

-----------------------------------------------------------------------------
(* The copy loop of GarbageCollection and EraseBlock.                      *)

GcSlice == <<targetDie, victim, gcPage>>
NextGcPageButLast ==
    /\ gcPage' = gcPage + 1
    /\ pc' = IF gcPage + 2 >= USER_PAGES_PER_BLOCK THEN "erase" ELSE "copy"
NextGcPage ==
    /\ gcPage' = gcPage + 1
    /\ pc' = IF gcPage + 1 = USER_PAGES_PER_BLOCK THEN "erase" ELSE "copy"

\* An invalid or never written slice of the victim is passed over.
GcSkip ==
    /\ pc = "copy"
    /\ ~IsValid(GcSlice)
    /\ NextGcPage
    /\ UNCHANGED <<maps, currentPage, invalidCnt, lists, die, lsa, victim>>

\* FindFreeVirtualSliceForGc: leave the victim if it is the current block,
\* then leave a full block; both may use the reserve.
GcLeavesVictim == victim = currentBlock[targetDie]
GcList1 == IF GcLeavesVictim THEN Tail(fbList[targetDie]) ELSE fbList[targetDie]
GcBlock1 == IF GcLeavesVictim THEN Head(fbList[targetDie]) ELSE currentBlock[targetDie]
GcLeavesFull == currentPage[targetDie][GcBlock1] = USER_PAGES_PER_BLOCK
GcList2 == IF GcLeavesFull THEN Tail(GcList1) ELSE GcList1
GcBlock2 == IF GcLeavesFull THEN Head(GcList1) ELSE GcBlock1
GcNormalBlockAvailable ==
    /\ GcLeavesVictim => Len(fbList[targetDie]) > RESERVED_FREE_BLOCK_COUNT
    /\ GcLeavesFull => Len(GcList1) > RESERVED_FREE_BLOCK_COUNT
GcBlockAvailable ==
    /\ GcLeavesVictim => fbList[targetDie] # <<>>
    /\ GcLeavesFull => GcList1 # <<>>

\* A valid slice is read and rewritten to a new page of the same die.
GcCopy ==
    /\ pc = "copy"
    /\ IsValid(GcSlice)
    /\ GcBlockAvailable
    /\ currentBlock' = [currentBlock EXCEPT ![targetDie] = GcBlock2]
    /\ fbList' = [fbList EXCEPT ![targetDie] = GcList2]
    /\ Program(targetDie, GcBlock2, v2l[GcSlice])
    /\ NextGcPage
    /\ UNCHANGED <<invalidCnt, victimList, die, lsa, victim>>

\* The two counts an erase resets.
ResetPageOnly(d, b) ==
    /\ currentPage' = [currentPage EXCEPT ![d][b] = 0]
    /\ UNCHANGED invalidCnt
ResetCounts(d, b) ==
    /\ currentPage' = [currentPage EXCEPT ![d][b] = 0]
    /\ invalidCnt' = [invalidCnt EXCEPT ![d][b] = 0]

\* EraseBlock: the victim goes to the tail of the free list and its slices
\* forget their logical address.
EraseBlock ==
    /\ pc = "erase"
    /\ ResetCounts(targetDie, victim)
    /\ fbList' = [fbList EXCEPT ![targetDie] = Append(@, victim)]
    /\ v2l' = [v \in Slices |->
                 IF v[1] = targetDie /\ v[2] = victim THEN NONE ELSE v2l[v]]
    /\ pc' = "realloc"
    /\ victim' = NONE
    /\ UNCHANGED <<l2v, currentBlock, victimList, die, lsa, gcPage>>

-----------------------------------------------------------------------------
Allocate == AllocFromCurrent \/ AllocFromNewBlock
Collect  == StartGarbageCollection \/ GcSkip \/ GcCopy \/ EraseBlock

Next == (\E l \in LogicalSlices : AddrTransWrite(l)) \/ Allocate \/ Collect

\* The collector is about to erase the block the die still writes to.  It
\* happens when every slice of the full current block is invalid: there is
\* nothing to copy, so FindFreeVirtualSliceForGc never replaces the block.
ErasesCurrentBlock == pc = "erase" /\ victim = currentBlock[targetDie]

\* The behaviours in which that never happens: no block is overwritten as a
\* whole while it is the current block of a die without spare free blocks.
\* Up to there, sequences are what the linked lists are.
SpecUnlessCurrentErased == Init /\ [][Next /\ ~ErasesCurrentBlock']_vars
-----------------------------------------------------------------------------
(* Properties.                                                             *)

TypeOK ==
    /\ l2v \in [LogicalSlices -> Slices \cup {NONE}]
    /\ v2l \in [Slices -> LogicalSlices \cup {NONE}]
    /\ currentPage \in [Dies -> [Blocks -> 0 .. USER_PAGES_PER_BLOCK]]
    /\ invalidCnt \in [Dies -> [Blocks -> 0 .. SLICES_PER_BLOCK]]
    /\ fbList \in [Dies -> Seq(Blocks)]
    /\ currentBlock \in [Dies -> Blocks]
    /\ victimList \in [Dies -> [0 .. SLICES_PER_BLOCK -> Seq(Blocks)]]
    /\ targetCh \in 0 .. USER_CHANNELS - 1
    /\ targetWay \in 0 .. USER_WAYS - 1
    /\ targetDie \in Dies
    /\ pc \in PCs
    /\ lsa \in LogicalSlices \cup {NONE}
    /\ victim \in Blocks \cup {NONE}
    /\ gcPage \in 0 .. USER_PAGES_PER_BLOCK

\* The pages of a block that hold the current data of a logical slice.
ValidPages(d, b) == {p \in Pages : IsValid(<<d, b, p>>)}

\* A block the collector has unlinked but not yet erased.
BeingCollected(d, b) == pc \in {"copy", "erase"} /\ d = targetDie /\ b = victim

\* The two maps agree on every mapped logical slice, and the slice it maps to
\* has been programmed since its block was last erased.  Hence no two logical
\* slices share a flash page, whatever collections came in between
\* (AddrTransWrite, GarbageCollection, EraseBlock).
MapsAgree ==
    \A l \in LogicalSlices : l2v[l] # NONE =>
        /\ v2l[l2v[l]] = l
        /\ l2v[l][3] < currentPage[l2v[l][1]][l2v[l][2]]

\* invalidSliceCnt, which the code only ever increments and resets, is the
\* number of programmed pages of the block whose data has been superseded.
\* GarbageCollection trusts it to skip copying altogether.
InvalidCountExact ==
    \A d \in Dies, b \in Blocks : ~BeingCollected(d, b) =>
        invalidCnt[d][b] + Cardinality(ValidPages(d, b)) = currentPage[d][b]

\* Every block with an invalid slice is on exactly one victim list, once, and
\* on the one its count names; SelectiveGetFromGcVictimList relies on it to
\* find the head and tail it must fix.
VictimListsExact ==
    \A d \in Dies, b \in Blocks, n \in 0 .. SLICES_PER_BLOCK :
        Cardinality({i \in 1 .. Len(victimList[d][n]) : victimList[d][n][i] = b}) =
            IF n > 0 /\ n = invalidCnt[d][b] /\ ~BeingCollected(d, b) THEN 1 ELSE 0

\* A block on the free list is on it once, is erased, holds no live data and
\* is not the block the die writes to.
FreeBlocksUnused ==
    \A d \in Dies : \A i \in 1 .. Len(fbList[d]) :
        LET b == fbList[d][i]
        IN  /\ \A j \in 1 .. Len(fbList[d]) : fbList[d][j] = b => j = i
            /\ currentPage[d][b] = 0
            /\ ValidPages(d, b) = {}
            /\ b # currentBlock[d]

\* Between collections a die never uses up its reserve block, which is what
\* lets the next collection copy at all (RESERVED_FREE_BLOCK_COUNT).
ReserveKept ==
    pc \in {"idle", "alloc", "realloc"} =>
        \A d \in Dies : Len(fbList[d]) >= RESERVED_FREE_BLOCK_COUNT

\* The assertions "There is no available block" never fire: the collector finds
\* a block to copy to, and a collection leaves a block to write to
\* (FindFreeVirtualSliceForGc, FindFreeVirtualSlice).
BlockAvailable ==
    /\ pc = "copy" /\ IsValid(GcSlice) => GcBlockAvailable
    /\ pc = "realloc" /\ CurrentIsFull => NormalBlockAvailable(targetDie)

\* The assertion "There are no free blocks. Abort terminate this ssd" does not
\* fire: a die that must be collected has a block with an invalid slice
\* (GetFromGcVictimList).  With several dies that can be false, because
\* FindDieForFreeSliceAllocation does not ask how full a die is.
VictimExists ==
    pc = "alloc" /\ CurrentIsFull /\ ~NormalBlockAvailable(targetDie) =>
        VictimCounts(targetDie) # {}

\* The logical slices whose data is on die d.
LiveOn(d) == {l \in LogicalSlices : \E b \in Blocks, p \in Pages : l2v[l] = <<d, b, p>>}

\* The live slices of die d leave a page of its usable blocks, without the
\* reserve, over.
Room(d) == USER_PAGES_PER_BLOCK * (Len(FreeAtBoot[d]) - RESERVED_FREE_BLOCK_COUNT)
DieHasRoom(d) == IsFiniteSet(LiveOn(d)) /\ Cardinality(LiveOn(d)) < Room(d)

\* The round robin over the dies is the only way to that assertion: as long as
\* the live slices of the target die leave a page of it over, there is a
\* victim, whatever the other dies hold (GetFromGcVictimList).
VictimWhileRoom == DieHasRoom(targetDie) => VictimExists
=============================================================================
