----------------------------- MODULE BadBlocks -----------------------------
(***************************************************************************)
(* Which physical block stands behind a virtual block of a die, and how    *)
(* that survives a power cycle: the bad block table of                     *)
(* address_translation.c in block 0 of every die, the scan that rebuilds   *)
(* it, the remapping of bad blocks to spare ones, and the blocks that go   *)
(* bad at run time.                                                        *)
(*                                                                         *)
(* The table is all that is read back at the next start.  It is erased     *)
(* before it is written again, and the power may fail between any two      *)
(* flash operations.  Dies share nothing here: the model is one of them,   *)
(* on a drive without near-memory files (NmcMapping has those).            *)
(***************************************************************************)
EXTENDS Naturals, FiniteSets, FiniteSetsExt

CONSTANTS
    USER_BLOCKS_PER_LUN,
    TOTAL_BLOCKS_PER_LUN,   \* with the spare blocks, which follow the user blocks
    LUNS_PER_DIE,
    OVER_PROVISION,         \* blocks held back of a die, a tenth of them in the code
    NoTable,                \* what is read where no table is
    MaxFactoryBad, MaxWorn  \* bounds for TLC: blocks that are bad, and that go bad

ASSUME SizeAssumption ==
    /\ {USER_BLOCKS_PER_LUN, TOTAL_BLOCKS_PER_LUN, LUNS_PER_DIE} \subseteq Nat \ {0}
    /\ USER_BLOCKS_PER_LUN <= TOTAL_BLOCKS_PER_LUN
    /\ OVER_PROVISION \in Nat

Luns  == 0 .. LUNS_PER_DIE - 1
PBlks == 0 .. LUNS_PER_DIE * TOTAL_BLOCKS_PER_LUN - 1
VBlks == 0 .. LUNS_PER_DIE * USER_BLOCKS_PER_LUN - 1
TableBlock == 0                 \* bbtInfo.phyBlock
NMC_MAPPING_DIR_PBLKS == {1}    \* nmc_mapping.h:32

ASSUME BlockAssumption ==
    /\ {TableBlock} \cup NMC_MAPPING_DIR_PBLKS \subseteq PBlks
    /\ \A S \in SUBSET PBlks : S # NoTable

VARIABLES
    factory,    \* blocks with the bad block mark of the factory
    worn,       \* blocks whose programs and erases fail
    written,    \* blocks whose mark bytes do not read 0xFF because of data
    table,      \* the table on the flash: the blocks it calls bad
    bad,        \* PHY_BLOCK_ENTRY.bad
    booked,     \* bbtInfo.grownBadUpdate is BOOKED
    remap,      \* PHY_BLOCK_ENTRY.remappedPhyBlock
    vbad,       \* VIRTUAL_BLOCK_ENTRY.bad
    lost,       \* badBlockCount, bad user blocks without a spare one
    image,      \* the table about to be programmed
    pc,         \* where the firmware is
    reported,   \* history: blocks that failed since the start
    kept        \* history: blocks that failed before a shutdown that was finished

flash == <<factory, worn, written, table>>
ram   == <<bad, booked, remap, vbad, lost, image>>
vars  == <<flash, ram, pc, reported, kept>>

TypeOK ==
    /\ {factory, worn, written, bad, reported, kept} \subseteq SUBSET PBlks
    /\ table = NoTable \/ table \subseteq PBlks
    /\ image = NoTable \/ image \subseteq PBlks
    /\ booked \in BOOLEAN
    /\ remap \in [PBlks -> PBlks]
    /\ vbad \subseteq VBlks
    /\ lost \in 0 .. Cardinality(VBlks)
    /\ pc \in {"off", "recover", "scanErase", "scanProgram", "remap", "up",
               "saveErase", "saveProgram", "saved", "assertion"}

\* The memory as InitAddressMap leaves it, or before anything is read from it.
Fresh(b, u, r, v, l, i) ==
    b = {} /\ u = FALSE /\ r = [p \in PBlks |-> p] /\ v = {} /\ l = 0 /\ i = NoTable

\* A drive that was never started.
Init ==
    /\ factory \in {f \in SUBSET (PBlks \ {TableBlock}) : Cardinality(f) <= MaxFactoryBad}
    /\ worn = {} /\ written = {} /\ table = NoTable
    /\ Fresh(bad, booked, remap, vbad, lost, image)
    /\ pc = "off" /\ reported = {} /\ kept = {}

(***************************************************************************)
(* RemapBadBlock: the bad user blocks of a LUN, in order, take its spare   *)
(* blocks, in order, skipping the bad ones.  The code takes the LUNs in    *)
(* turn; they share nothing, so here one comes after the other.            *)
(***************************************************************************)
LunOf(v) == v \div USER_BLOCKS_PER_LUN
Vblock2PblockOfTbs(v) == LunOf(v) * TOTAL_BLOCKS_PER_LUN + (v % USER_BLOCKS_PER_LUN)

\* Wrong: the spare blocks end one too late.
SparesTooFar(l, next) == next .. (l + 1) * TOTAL_BLOCKS_PER_LUN
SparesFrom(l, next) == next .. (l + 1) * TOTAL_BLOCKS_PER_LUN - 1

\* next[l] is reservedBlockOfLun0 or reservedBlockOfLun1.
Unremapped ==
    [next |-> [l \in Luns |-> l * TOTAL_BLOCKS_PER_LUN + USER_BLOCKS_PER_LUN],
     remap |-> remap, lost |-> 0]

\* Wrong: the spare block is not passed over once it is taken.
TakeSpareAgain(s, b, l, spare) == [s EXCEPT !.remap[b] = spare]
\* Wrong: a block that finds no spare one is not counted.
NoSpareUncounted(s, l) == [s EXCEPT !.next[l] = (l + 1) * TOTAL_BLOCKS_PER_LUN]

TakeSpare(s, b, l, spare) == [s EXCEPT !.remap[b] = spare, !.next[l] = spare + 1]
NoSpare(s, l) == [s EXCEPT !.lost = @ + 1, !.next[l] = (l + 1) * TOTAL_BLOCKS_PER_LUN]

RemapBlock(s, v, isBad) ==
    LET b == Vblock2PblockOfTbs(v)
        l == LunOf(v)
        spares == SparesFrom(l, s.next[l]) \ isBad
    IN  IF b \notin isBad THEN s
        ELSE IF spares = {} THEN NoSpare(s, l)
        ELSE TakeSpare(s, b, l, Min(spares))

\* The remapping after each number of blocks.
Remapping(isBad) ==
    LET after[n \in 0 .. LUNS_PER_DIE * USER_BLOCKS_PER_LUN] ==
            IF n = 0 THEN Unremapped ELSE RemapBlock(after[n - 1], n - 1, isBad)
    IN  after

RemapBadBlock(isBad) ==
    LET all == Remapping(isBad)[LUNS_PER_DIE * USER_BLOCKS_PER_LUN]
    IN  remap' = all.remap /\ lost' = all.lost

\* InitBlockMap: Vblock2PblockOfTbsTranslation and the remapping.
Physical(v) == remap[Vblock2PblockOfTbs(v)]

(***************************************************************************)
(* Start-up.                                                               *)
(***************************************************************************)
\* EraseTotalBlockSpace runs if the operator asked for it with an 'X'.  A
\* failed erase leaves data behind; what it booked is overwritten later.
EraseTotalBlockSpace ==
    /\ \E left \in SUBSET (written \cap worn) : written' = left
    /\ table' = NoTable
    /\ kept' = {}

PowerOn ==
    /\ pc = "off"
    /\ EraseTotalBlockSpace \/ UNCHANGED <<written, table, kept>>
    /\ pc' = "recover"
    /\ UNCHANGED <<factory, worn, ram, reported>>

\* FindBadBlock: data in the first or last page looks like a mark.
Marked == factory \cup written

RecoverBadBlockTable ==
    /\ pc = "recover"
    /\ \/ /\ table # NoTable
          /\ bad' = table
          /\ pc' = "remap"
          /\ UNCHANGED image
       \/ /\ table = NoTable
          /\ bad' = Marked
          /\ image' = Marked
          /\ pc' = "scanErase"
    /\ UNCHANGED <<flash, booked, remap, vbad, lost, reported, kept>>

\* SaveBadBlockTable, in two flash operations.  Their failure books the
\* table block like any other and is not noticed here.
Failed(fails) == IF fails THEN {TableBlock} ELSE {}

EraseTable ==
    /\ pc \in {"scanErase", "saveErase"}
    /\ table' = NoTable
    /\ pc' = IF pc = "scanErase" THEN "scanProgram" ELSE "saveProgram"
    /\ UNCHANGED <<factory, worn, written, ram, reported, kept>>

\* A start-up ends with nothing booked, a shutdown leaves the mark alone.
ProgramTable ==
    /\ pc \in {"scanProgram", "saveProgram"}
    /\ \E fails \in (IF TableBlock \in worn THEN BOOLEAN ELSE {FALSE}) :
          /\ table' = IF fails THEN NoTable ELSE image
          /\ bad' = bad \cup Failed(fails)
          /\ booked' = (pc = "saveProgram")
          /\ reported' = reported \cup Failed(fails)
          /\ kept' = IF fails THEN {} ELSE IF pc = "saveProgram" THEN kept \cup reported ELSE kept
    /\ image' = NoTable
    /\ pc' = IF pc = "scanProgram" THEN "remap" ELSE "saved"
    /\ UNCHANGED <<factory, worn, written, remap, vbad, lost>>

\* InitBlockDieMap from there on: the table block and the directory blocks are
\* out of bounds, then RemapBadBlock, InitBlockMap and InitCurrentBlockOfDieMap,
\* which asserts that GetFromFbList finds a block beside the reserve.
Remap ==
    /\ pc = "remap"
    /\ bad' = bad \cup {TableBlock} \cup NMC_MAPPING_DIR_PBLKS
    /\ RemapBadBlock(bad')
    /\ vbad' = {v \in VBlks : Physical(v)' \in bad'}
    /\ pc' = IF Cardinality(VBlks \ vbad') > 1 THEN "up" ELSE "assertion"
    /\ UNCHANGED <<flash, booked, image, reported, kept>>

(***************************************************************************)
(* Run time.                                                               *)
(***************************************************************************)
Used == {Physical(v) : v \in VBlks \ vbad}

Program(b) ==
    /\ pc = "up" /\ b \in Used
    /\ written' = written \cup {b}
    /\ UNCHANGED <<factory, worn, table, ram, pc, reported, kept>>

Erase(b) ==
    /\ pc = "up" /\ b \in Used
    /\ written' = written \ {b}
    /\ UNCHANGED <<factory, worn, table, ram, pc, reported, kept>>

\* Wrong: only the flag of the block is set.
UpdatePhyBlockMapUnbooked(b) == bad' = bad \cup {b} /\ UNCHANGED booked
UpdatePhyBlockMapForGrownBadBlock(b) == bad' = bad \cup {b} /\ booked' = TRUE

\* A request fails, or its block is about to (REQ_STATUS_WARNING).
Fails(b) ==
    /\ pc = "up" /\ b \in Used \cup {TableBlock} \cup NMC_MAPPING_DIR_PBLKS
    /\ \/ Cardinality(worn) < MaxWorn /\ worn' = worn \cup {b}
       \/ b \in worn /\ UNCHANGED worn
    /\ UpdatePhyBlockMapForGrownBadBlock(b)
    /\ reported' = reported \cup {b}
    /\ UNCHANGED <<factory, written, table, remap, vbad, lost, image, pc, kept>>

\* NVME_TASK_SHUTDOWN: UpdateBadBlockTableForGrownBadBlock.
Shutdown ==
    /\ pc = "up"
    /\ \/ /\ booked
          /\ image' = bad \ {TableBlock}
          /\ pc' = "saveErase"
          /\ UNCHANGED kept
       \/ /\ ~booked
          /\ pc' = "saved"
          /\ kept' = kept \cup reported
          /\ UNCHANGED image
    /\ UNCHANGED <<flash, bad, booked, remap, vbad, lost, reported>>

\* NVME_TASK_WAIT_RESET and the next CC.EN: the host goes on without a power cycle.
Resume ==
    /\ pc = "saved"
    /\ pc' = "up"
    /\ UNCHANGED <<flash, ram, reported, kept>>

\* The power fails or is switched off.  A table that is erased and not yet
\* programmed is lost, and with it what earlier shutdowns recorded.
PowerOff ==
    /\ pc # "off"
    /\ kept' = IF pc = "saveProgram" THEN {} ELSE kept
    /\ reported' = {}
    /\ Fresh(bad', booked', remap', vbad', lost', image')
    /\ pc' = "off"
    /\ UNCHANGED flash

Next ==
    \/ PowerOn \/ RecoverBadBlockTable \/ EraseTable \/ ProgramTable \/ Remap
    \/ \E b \in PBlks : Program(b) \/ Erase(b) \/ Fails(b)
    \/ Shutdown \/ Resume \/ PowerOff

Spec == Init /\ [][Next]_vars
-----------------------------------------------------------------------------
(* Properties.                                                             *)

\* No two virtual blocks in use share a physical block, and none is behind the
\* bad block table, a directory block, or a block the factory marked, whatever
\* was lost in power failures before (RemapBadBlock, InitBlockDieMap).
MappedApart ==
    pc = "up" => \A v \in VBlks \ vbad :
        /\ Physical(v) \notin {TableBlock} \cup NMC_MAPPING_DIR_PBLKS \cup factory
        /\ \A w \in VBlks \ (vbad \cup {v}) : Physical(v) # Physical(w)

\* A block that failed before a shutdown that was finished is not used after
\* the next power cycle, as long as the table itself was not lost
\* (UpdateBadBlockTableForGrownBadBlock, RecoverBadBlockTable).
GrownBadKept ==
    pc = "up" => Used \cap (kept \ reported) = {}

\* storageCapacity_L of InitFTL in blocks of a die, and what it leaves for the
\* collector: the reserve block and the over-provision.  On a die with fewer
\* good blocks than those the unsigned difference wraps around.
StorageCapacity == Cardinality(VBlks) - (1 + lost + OVER_PROVISION)
CapacityBacked ==
    pc = "up" /\ Cardinality(VBlks \ vbad) > OVER_PROVISION =>
        StorageCapacity + 1 + OVER_PROVISION = Cardinality(VBlks \ vbad)
=============================================================================
