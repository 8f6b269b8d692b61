----------------------------- MODULE BlockLinks -----------------------------
(***************************************************************************)
(* AddressTranslation with its lists as the firmware has them.  The free   *)
(* list of a die and its victim lists are doubly linked through the same   *)
(* two fields of a block, prevBlock and nextBlock.  That is sound while a  *)
(* block is on one list at most.  A current block that is collected        *)
(* without having been left is on the free list and, once a page of it is  *)
(* overwritten, on a victim list too: the second list then rewrites the    *)
(* links of the first.                                                     *)
(*                                                                         *)
(* The steps are those of AddressTranslation; what it does besides its     *)
(* lists is taken from there.  Where the code asserts, takes the block     *)
(* after the last one of an empty list, or programs behind the last page   *)
(* of a block, no step is enabled: what follows is not modelled.           *)
(***************************************************************************)
EXTENDS Integers, Sequences, SequencesExt

CONSTANTS
    USER_CHANNELS, USER_WAYS, USER_BLOCKS_PER_DIE, USER_PAGES_PER_BLOCK,
    LogicalSlices, FreeAtBoot, NONE     \* as in AddressTranslation

VARIABLES
    l2v, v2l, currentPage, invalidCnt, currentBlock,
    targetCh, targetWay, targetDie, pc, lsa, victim, gcPage,    \* as in AddressTranslation
    list            \* for each die, the links of its blocks and the ends of its lists

call   == <<targetCh, targetWay, targetDie, lsa, victim, gcPage>>
vars   == <<l2v, v2l, currentPage, invalidCnt, currentBlock, pc, call, list>>

\* The blocks from b on, along nextBlock; a ring is followed once around.
Along(x, b) ==
    LET walk[n \in 0 .. USER_BLOCKS_PER_DIE, c \in DOMAIN x.nextBlock \cup {NONE}] ==
            IF n = 0 \/ c = NONE THEN <<>> ELSE <<c>> \o walk[n - 1, x.nextBlock[c]]
    IN  walk[USER_BLOCKS_PER_DIE, b]

T == INSTANCE AddressTranslation WITH
        fbList     <- [d \in DOMAIN list |-> Along(list[d], list[d].headFreeBlock)],
        victimList <- [d \in DOMAIN list |->
                          [n \in DOMAIN list[d].headBlock |-> Along(list[d], list[d].headBlock[n])]]

Counts == 0 .. T!SLICES_PER_BLOCK

-----------------------------------------------------------------------------
(* The list functions of address_translation.c and garbage_collection.c.    *)
(* They take the lists x of a die and return them changed.                  *)

\* Block b behind block t, the last one of a list, or alone if t is NONE.
LinkedBehind(x, t, b) ==
    [x EXCEPT !.prevBlock[b] = t,
              !.nextBlock = IF t = NONE THEN [@ EXCEPT ![b] = NONE]
                            ELSE [@ EXCEPT ![b] = NONE, ![t] = b]]

PutToFbList(x, b) ==
    [LinkedBehind(x, x.tailFreeBlock, b) EXCEPT
        !.headFreeBlock = IF x.tailFreeBlock = NONE THEN b ELSE @,
        !.tailFreeBlock = b,
        !.freeBlockCnt = @ + 1]

\* GetFromFbList: what it asks for a normal request and for a collection, and
\* the list without its first block.
NormalBlock(x) == x.freeBlockCnt > T!RESERVED_FREE_BLOCK_COUNT
GcBlock(x) == x.headFreeBlock # NONE
GetFromFbList(x) ==
    LET b == x.headFreeBlock
        n == x.nextBlock[b]
    IN  [x EXCEPT !.headFreeBlock = n,
                  !.tailFreeBlock = IF n = NONE THEN NONE ELSE @,
                  !.freeBlockCnt = (@ - 1) % 2^16,
                  !.prevBlock = IF n = NONE THEN [@ EXCEPT ![b] = NONE]
                                ELSE [@ EXCEPT ![n] = NONE, ![b] = NONE],
                  !.nextBlock[b] = NONE]

PutToGcVictimList(x, b, n) ==
    [LinkedBehind(x, x.tailBlock[n], b) EXCEPT
        !.headBlock[n] = IF x.tailBlock[n] = NONE THEN b ELSE @,
        !.tailBlock[n] = b]

\* The first block of list n leaves it and keeps its own links.
GetFromGcVictimList(x, n) ==
    LET m == x.nextBlock[x.headBlock[n]]
    IN  [x EXCEPT !.headBlock[n] = m,
                  !.tailBlock[n] = IF m = NONE THEN NONE ELSE @,
                  !.prevBlock = IF m = NONE THEN @ ELSE [@ EXCEPT ![m] = NONE]]

\* Block b leaves the list n it is on: its neighbours are linked, or one of
\* them becomes an end of list n.
SelectiveGetFromGcVictimList(x, b, n) ==
    LET p == x.prevBlock[b]
        m == x.nextBlock[b]
    IN  [x EXCEPT !.nextBlock = IF p = NONE THEN @ ELSE [@ EXCEPT ![p] = m],
                  !.prevBlock = IF m = NONE THEN @ ELSE [@ EXCEPT ![m] = p],
                  !.headBlock[n] = IF p = NONE THEN m ELSE @,
                  !.tailBlock[n] = IF m = NONE THEN p ELSE @]

-----------------------------------------------------------------------------
\* InitDieMap, InitGcVictimMap, and InitBlockMap, which lists the usable blocks.
NoList ==
    [prevBlock |-> [b \in T!Blocks |-> NONE], nextBlock |-> [b \in T!Blocks |-> NONE],
     headFreeBlock |-> NONE, tailFreeBlock |-> NONE, freeBlockCnt |-> 0,
     headBlock |-> [n \in Counts |-> NONE], tailBlock |-> [n \in Counts |-> NONE]]

Init ==
    /\ T!InitSliceMap
    /\ T!InitBlockMap
    /\ LET boot == [d \in T!Dies |-> FoldLeft(PutToFbList, NoList, FreeAtBoot[d])]
       IN  /\ currentBlock = [d \in T!Dies |-> boot[d].headFreeBlock]
           /\ list = [d \in T!Dies |-> GetFromFbList(boot[d])]
    /\ targetCh = IF USER_CHANNELS = 1 THEN 0 ELSE 1
    /\ targetWay = IF USER_CHANNELS = 1 THEN 1 % USER_WAYS ELSE 0
    /\ targetDie = 0
    /\ pc = "idle"
    /\ lsa = NONE
    /\ victim = NONE
    /\ gcPage = 0

-----------------------------------------------------------------------------
(* AddrTransWrite, as in AddressTranslation.                               *)

InvalidateOldVsa(l) ==
    LET v == l2v[l]
        d == v[1]
        b == v[2]
        n == invalidCnt[d][b]
    IN  /\ l2v' = [l2v EXCEPT ![l] = NONE]
        /\ invalidCnt' = [invalidCnt EXCEPT ![d][b] = n + 1]
        /\ list' = [list EXCEPT ![d] =
                       PutToGcVictimList(SelectiveGetFromGcVictimList(@, b, n), b, n + 1)]
        /\ UNCHANGED v2l

AddrTransWrite(l) ==
    /\ pc = "idle"
    /\ pc' = "alloc"
    /\ lsa' = l
    /\ IF l2v[l] # NONE /\ v2l[l2v[l]] = l
       THEN InvalidateOldVsa(l)
       ELSE UNCHANGED <<l2v, v2l, invalidCnt, list>>
    /\ UNCHANGED <<currentPage, currentBlock, targetCh, targetWay, targetDie, victim, gcPage>>

HasPage(b) == currentPage[targetDie][b] < USER_PAGES_PER_BLOCK

FinishWrite(b) ==
    /\ HasPage(b)
    /\ T!Program(targetDie, b, lsa)
    /\ T!FindDieForFreeSliceAllocation
    /\ pc' = "idle"
    /\ lsa' = NONE
    /\ UNCHANGED <<invalidCnt, victim, gcPage>>

AllocFromCurrent ==
    /\ pc \in {"alloc", "realloc"}
    /\ ~T!CurrentIsFull
    /\ FinishWrite(currentBlock[targetDie])
    /\ UNCHANGED <<currentBlock, list>>

AllocFromNewBlock ==
    /\ pc \in {"alloc", "realloc"}
    /\ T!CurrentIsFull
    /\ NormalBlock(list[targetDie]) /\ list[targetDie].headFreeBlock # NONE
    /\ currentBlock' = [currentBlock EXCEPT ![targetDie] = list[targetDie].headFreeBlock]
    /\ list' = [list EXCEPT ![targetDie] = GetFromFbList(@)]
    /\ FinishWrite(list[targetDie].headFreeBlock)

StartGarbageCollection ==
    /\ pc = "alloc"
    /\ T!CurrentIsFull
    /\ ~NormalBlock(list[targetDie])
    /\ \E n \in 1 .. T!SLICES_PER_BLOCK :
          /\ list[targetDie].headBlock[n] # NONE
          /\ \A m \in n + 1 .. T!SLICES_PER_BLOCK : list[targetDie].headBlock[m] = NONE
          /\ victim' = list[targetDie].headBlock[n]
          /\ list' = [list EXCEPT ![targetDie] = GetFromGcVictimList(@, n)]
    /\ pc' = IF invalidCnt[targetDie][victim'] # T!SLICES_PER_BLOCK THEN "copy" ELSE "erase"
    /\ gcPage' = 0
    /\ UNCHANGED <<l2v, v2l, currentPage, invalidCnt, currentBlock, targetCh, targetWay, targetDie, lsa>>

GcSkip ==
    /\ pc = "copy"
    /\ ~T!IsValid(T!GcSlice)
    /\ T!NextGcPage
    /\ UNCHANGED <<l2v, v2l, currentPage, invalidCnt, currentBlock, list, targetCh, targetWay,
                   targetDie, lsa, victim>>

\* FindFreeVirtualSliceForGc: the lists and the current block after the die has
\* left block b of lists x.
Leave(x) == [list |-> GetFromFbList(x), block |-> x.headFreeBlock]
GcStays == [list |-> list[targetDie], block |-> currentBlock[targetDie]]
GcLeft1 == IF T!GcLeavesVictim THEN Leave(list[targetDie]) ELSE GcStays
GcLeavesFull == currentPage[targetDie][GcLeft1.block] = USER_PAGES_PER_BLOCK
GcLeft2 == IF GcLeavesFull THEN Leave(GcLeft1.list) ELSE GcLeft1
GcBlockAvailable ==
    /\ T!GcLeavesVictim => GcBlock(list[targetDie])
    /\ GcLeavesFull => GcBlock(GcLeft1.list)

GcCopy ==
    /\ pc = "copy"
    /\ T!IsValid(T!GcSlice)
    /\ GcBlockAvailable /\ HasPage(GcLeft2.block)
    /\ currentBlock' = [currentBlock EXCEPT ![targetDie] = GcLeft2.block]
    /\ list' = [list EXCEPT ![targetDie] = GcLeft2.list]
    /\ T!Program(targetDie, GcLeft2.block, v2l[T!GcSlice])
    /\ T!NextGcPage
    /\ UNCHANGED <<invalidCnt, targetCh, targetWay, targetDie, lsa, victim>>

EraseBlock ==
    /\ pc = "erase"
    /\ T!ResetCounts(targetDie, victim)
    /\ list' = [list EXCEPT ![targetDie] = PutToFbList(@, victim)]
    /\ v2l' = [v \in T!Slices |-> IF v[1] = targetDie /\ v[2] = victim THEN NONE ELSE v2l[v]]
    /\ pc' = "realloc"
    /\ victim' = NONE
    /\ UNCHANGED <<l2v, currentBlock, targetCh, targetWay, targetDie, lsa, gcPage>>

Next ==
    \/ \E l \in LogicalSlices : AddrTransWrite(l)
    \/ AllocFromCurrent \/ AllocFromNewBlock
    \/ StartGarbageCollection \/ GcSkip \/ GcCopy \/ EraseBlock

Spec == Init /\ [][Next]_vars
SpecUnlessCurrentErased == Init /\ [][Next /\ ~T!ErasesCurrentBlock']_vars

-----------------------------------------------------------------------------
\* The assertions "There is no available block" do not fire: the free list has
\* a block whenever a collection must copy (FindFreeVirtualSliceForGc) and when
\* a collection is over (FindFreeVirtualSlice).
NoBlockMissing ==
    /\ pc = "copy" /\ T!IsValid(T!GcSlice) => GcBlockAvailable
    /\ pc = "realloc" /\ T!CurrentIsFull => NormalBlock(list[targetDie])

\* As long as the current block is not erased, no block is on two lists, and
\* the links are the sequences of AddressTranslation (PutToFbList, GetFromFbList,
\* PutToGcVictimList, GetFromGcVictimList, SelectiveGetFromGcVictimList).
ImplementsSequences == T!SpecUnlessCurrentErased
=============================================================================
