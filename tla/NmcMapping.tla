----------------------------- MODULE NmcMapping -----------------------------
(***************************************************************************)
(* Files of the near-memory computing (NMC) extension: nmc/nmc_mapping.c,  *)
(* nmc/nmc_file_table.c, nmc/nmc_requests.c, the allocation of their pages *)
(* in address_translation.c, and the commands NMC_ALLOC and NMC_FLUSH of   *)
(* nvme/nvme_io_cmd.c.                                                     *)
(*                                                                         *)
(* While a file is open its pages are striped over the channels, block by  *)
(* block, and the firmware records the blocks they fill in one table per   *)
(* channel.  NMC_FLUSH programs the tables, one channel after the other,   *)
(* into directory blocks; the next start reads these from the beginning,   *)
(* rebuilds the file table and keeps the recorded blocks off the free      *)
(* lists.  The power may fail at any step.                                 *)
(*                                                                         *)
(* The data buffer is left out: a page is handed out when its buffer is    *)
(* evicted, which may be any time after the command.  Blocks are virtual   *)
(* and physical at once (BadBlocks has the difference), and the sessions   *)
(* are short enough for the collector to have nothing to do.               *)
(***************************************************************************)
EXTENDS Naturals, FiniteSets, Sequences, FiniteSetsExt, SequencesExt

CONSTANTS
    USER_CHANNELS, USER_WAYS,
    PAGES,              \* USER_PAGES_PER_BLOCK
    BLOCKS,             \* user blocks of a die
    DIRS,               \* NMC_MAPPING_DIR_PBLK_PER_DIE, directory blocks of a die
    SkipList,           \* directory blocks not to use, <<channel, way, dir>>
    Names,              \* files, at most NMC_FILE_TABLE_MAX_ENTRIES of them
    Limits,             \* numbers of blocks a host asks for
    MaxPages, MaxStarts,    \* bounds for TLC: pages between two starts, and starts
    Erased, Torn        \* what is read of a page never programmed, or only partly

ASSUME NmcAssumption ==
    /\ {USER_CHANNELS, USER_WAYS, PAGES, BLOCKS, DIRS} \subseteq Nat \ {0}
    /\ Limits \subseteq Nat /\ {MaxPages, MaxStarts} \subseteq Nat

Chs  == 0 .. USER_CHANNELS - 1
Ways == 0 .. USER_WAYS - 1
Blks == 0 .. BLOCKS - 1
Dies == Chs \X Ways
Locs == Ways \X (0 .. DIRS - 1) \X (0 .. PAGES - 1)     \* NMC_MAPPING_LOC
ZeroLoc == <<0, 0, 0>>
NoFile == [title |-> "", list |-> <<>>]
Tables == [title : Names \cup {""}, list : Seq(Ways \X Blks)]

\* A page is read with the magic number of a table only if one was programmed.
ASSUME ReadAssumption == Erased # Torn /\ Erased \notin Tables /\ Torn \notin Tables

VARIABLES
    dirs,       \* the directory blocks: what every page of a channel holds
    phase,      \* off, idle, flushing, stopped in an assertion
    flushCh,    \* the channel whose table NMC_FLUSH programs next
    pending,    \* nmcPendingNewMappingReq: the name and the blocks asked for
    received,   \* the name has come and the command has been answered
    open,       \* nmcRecordMapping
    limit,      \* post_info.limit of the tables
    nmcTable,   \* nmcMappingTablePtr: title and block list of every channel
    newLoc,     \* nmcNewMappingLoc
    files,      \* the file table: name -> location on every channel
    target,     \* sliceAllocationTargetDie
    targetCh, targetWay,
    interleaving, pagesUsed,    \* nmcInterleaving, nmcPagesUsed
    current,    \* current block of every die
    page,       \* its currentPage
    free,       \* free blocks of every die, taken in order
    handedOut, starts,      \* pages handed out since the start, and starts
    fileBlks,   \* history: blocks with pages of the open file
    answered    \* history: files whose NMC_FLUSH was answered, and their blocks

flushVars == <<phase, flushCh>>
hostVars  == <<pending, received>>
fileVars  == <<open, limit, nmcTable>>
allocVars == <<target, targetCh, targetWay, interleaving, pagesUsed, current, page, free, handedOut>>
nmcVars == <<dirs, flushVars, hostVars, fileVars, newLoc, files, allocVars, starts, fileBlks, answered>>

NoRequest == [title |-> "", nblks |-> 0]

NmcTypeOK ==
    /\ \A c \in Chs, l \in Locs : dirs[c][l] \in {Erased, Torn} \/ dirs[c][l] \in Tables
    /\ phase \in {"off", "idle", "flushing", "stopped"}
    /\ flushCh \in 0 .. USER_CHANNELS
    /\ pending \in [title : Names, nblks : Limits] \cup {NoRequest}
    /\ {received, open, interleaving} \subseteq BOOLEAN
    /\ limit \in Limits \cup {0}
    /\ nmcTable \in [Chs -> Tables]
    /\ newLoc \in [Chs -> Locs]
    /\ DOMAIN files \subseteq Names /\ \A n \in DOMAIN files : files[n] \in [Chs -> Locs]
    /\ target \in Chs \X (0 .. USER_WAYS)
    /\ targetCh \in Chs /\ targetWay \in 0 .. USER_WAYS
    /\ pagesUsed \in 0 .. PAGES - 1
    /\ current \in [Dies -> Blks] /\ page \in [Dies -> 0 .. PAGES] /\ free \in [Dies -> SUBSET Blks]
    /\ handedOut \in 0 .. MaxPages /\ starts \in 0 .. MaxStarts
    /\ fileBlks \subseteq Dies \X Blks

\* The memory before a start; a drive that was never used has empty directories.
Blank(pe, re, op, li, ta, nl, fi, tg, tc, tw, il, pu, cu, pg, fr, ho, fb) ==
    /\ pe = NoRequest /\ re = FALSE
    /\ op = FALSE /\ li = 0 /\ ta = [c \in Chs |-> NoFile]
    /\ nl = [c \in Chs |-> ZeroLoc] /\ fi = <<>>
    /\ tg = <<0, 0>> /\ tc = 0 /\ tw = 0 /\ il = FALSE /\ pu = 0
    /\ cu = [d \in Dies |-> 0] /\ pg = [d \in Dies |-> 0] /\ fr = [d \in Dies |-> {}]
    /\ ho = 0 /\ fb = {}

NmcInit ==
    /\ dirs = [c \in Chs |-> [l \in Locs |-> Erased]]
    /\ phase = "off" /\ flushCh = 0 /\ starts = 0
    /\ Blank(pending, received, open, limit, nmcTable, newLoc, files, target, targetCh, targetWay,
             interleaving, pagesUsed, current, page, free, handedOut, fileBlks)
    /\ answered = <<>>

-----------------------------------------------------------------------------
(* Start-up: nmcInitMapping and nmcRecoverMappingDir.                      *)

nmcSkippedDirBlk(c, l) == <<c, l[1], l[2]>> \in SkipList

\* The scan goes through the ways, in each through the directory blocks.
ScanIndex(l) == (l[1] * DIRS + l[2]) * PAGES + l[3]
Scanned(c) == {l \in Locs : ~nmcSkippedDirBlk(c, l)}
EmptyPages(c) == {l \in Scanned(c) : dirs[c][l] = Erased}
FirstEmpty(c) == CHOOSE l \in EmptyPages(c) : \A m \in EmptyPages(c) : ScanIndex(l) <= ScanIndex(m)
\* Pages with the magic number before the first empty one.
UsedPages(c) ==
    LET empty == {ScanIndex(l) : l \in EmptyPages(c)}
    IN  {l \in Scanned(c) : dirs[c][l] \notin {Erased, Torn} /\ \A i \in empty : ScanIndex(l) < i}

\* nmcFileTableUpdate for every page: the last one with a title counts.  Where
\* a channel has none, memset has left the first page.
Newest(c, n) ==
    LET mine == {l \in UsedPages(c) : dirs[c][l].title = n}
    IN  IF mine = {} THEN ZeroLoc
        ELSE CHOOSE l \in mine : \A m \in mine : ScanIndex(m) <= ScanIndex(l)
RecoveredNames == UNION {{dirs[c][l].title : l \in UsedPages(c)} : c \in Chs}
RecoveredFiles == [n \in RecoveredNames |-> [c \in Chs |-> Newest(c, n)]]

\* Wrong: only the tables of the files that can be found keep their blocks.
UsedByNewest(c, w) ==
    {b \in Blks : \E n \in RecoveredNames : Newest(c, n) \in UsedPages(c)
        /\ <<w, b>> \in ToSet(SubSeq(dirs[c][Newest(c, n)].list, 2, Len(dirs[c][Newest(c, n)].list)))}
\* nmcRecordFileBlks: blocks of every version of every file (nmcPhyBlockUsed).
UsedBlocks(c, w) == {b \in Blks : \E l \in UsedPages(c) : <<w, b>> \in ToSet(dirs[c][l].list)}

\* InitBlockMap, InitCurrentBlockOfDieMap, sliceAllocationTargetDie.
NmcPowerOn ==
    /\ phase = "off" /\ starts < MaxStarts
    /\ starts' = starts + 1
    /\ LET unused == [d \in Dies |-> Blks \ UsedBlocks(d[1], d[2])]
           recovers == (\A c \in Chs : EmptyPages(c) # {})
                        /\ \A d \in Dies : Cardinality(unused[d]) > 1
       IN  IF recovers
           THEN /\ newLoc' = [c \in Chs |-> FirstEmpty(c)]
                /\ files' = RecoveredFiles
                /\ current' = [d \in Dies |-> Min(unused[d])]
                /\ free' = [d \in Dies |-> unused[d] \ {Min(unused[d])}]
                /\ phase' = "idle"
           ELSE /\ phase' = "stopped"
                /\ UNCHANGED <<newLoc, files, current, free>>
    /\ targetCh' = 1 % USER_CHANNELS
    /\ UNCHANGED <<dirs, flushCh, hostVars, fileVars, target, targetWay, interleaving, pagesUsed,
                   page, handedOut, fileBlks, answered>>

-----------------------------------------------------------------------------
(* Writing pages.                                                          *)

Idle == phase = "idle"

\* Wrong: the pages of a block are counted on without end.
FindDieCountingOn ==
    /\ target' = <<targetCh, targetWay>>
    /\ targetCh' = (targetCh + 1) % USER_CHANNELS
    /\ UNCHANGED targetWay
    /\ pagesUsed' = IF targetCh = USER_CHANNELS - 1 /\ interleaving THEN pagesUsed + 1 ELSE pagesUsed
\* In a file the way changes only when the blocks are full, and does not wrap.
FindDieForFreeSliceAllocation ==
    /\ target' = <<targetCh, targetWay>>
    /\ targetCh' = (targetCh + 1) % USER_CHANNELS
    /\ CASE targetCh # USER_CHANNELS - 1 -> UNCHANGED <<targetWay, pagesUsed>>
         [] targetCh = USER_CHANNELS - 1 /\ ~interleaving ->
              targetWay' = (targetWay + 1) % USER_WAYS /\ UNCHANGED pagesUsed
         [] OTHER ->
              /\ pagesUsed' = (pagesUsed + 1) % PAGES
              /\ targetWay' = IF pagesUsed + 1 = PAGES THEN targetWay + 1 ELSE targetWay

\* nmcRecordBlock appends the block unless the list is beyond its limit.
nmcRecordBlock(d, b) == [nmcTable EXCEPT ![d[1]].list = Append(@, <<d[2], b>>)]
BeyondLimit(d) == open /\ Len(nmcTable[d[1]].list) > limit

\* A page of the open file, or of the host's other data, is handed out
\* (FindFreeVirtualSlice).  Beyond the last way there is no die; a block beyond
\* the limit ends in the assertion of nmcRecordBlock.
FindFreeVirtualSlice(ofFile) ==
    /\ Idle /\ handedOut < MaxPages
    /\ ofFile => open
    /\ target \in Dies
    /\ LET d == target
           full == page[d] = PAGES
           b == IF full THEN Min(free[d]) ELSE current[d]
       IN  /\ full => Cardinality(free[d]) > 1
           /\ phase' = IF full /\ BeyondLimit(d) THEN "stopped" ELSE phase
           /\ current' = [current EXCEPT ![d] = b]
           /\ free' = [free EXCEPT ![d] = @ \ {b}]
           /\ page' = [page EXCEPT ![d] = IF full THEN 1 ELSE @ + 1]
           /\ nmcTable' = IF full /\ open THEN nmcRecordBlock(d, b) ELSE nmcTable
           /\ fileBlks' = IF ofFile THEN fileBlks \cup {<<d, b>>} ELSE fileBlks
    /\ FindDieForFreeSliceAllocation
    /\ handedOut' = handedOut + 1
    /\ UNCHANGED <<dirs, starts, flushCh, hostVars, open, limit, newLoc, files, interleaving, answered>>

-----------------------------------------------------------------------------
(* NMC_ALLOC.                                                              *)

\* nmcRegisterNewMappingReqInit and nmcRegisterNewMappingReqDone.
Alloc(n, nblks) ==
    /\ Idle /\ pending = NoRequest
    /\ pending' = [title |-> n, nblks |-> nblks]
    /\ UNCHANGED <<dirs, starts, flushVars, received, fileVars, newLoc, files, allocVars, fileBlks,
                   answered>>

\* The DMA brings the name and answers the command on its own.
DmaDone ==
    /\ Idle /\ pending # NoRequest /\ ~received
    /\ received' = TRUE
    /\ UNCHANGED <<dirs, starts, flushVars, pending, fileVars, newLoc, files, allocVars, fileBlks,
                   answered>>

\* nmcNewMapping asserts that every current block is empty and records those of way 0.
nmcNewMapping(title, nblks) ==
    /\ open' = TRUE /\ limit' = nblks
    /\ interleaving' = TRUE /\ pagesUsed' = 0
    /\ LET empty == \A d \in Dies : page[d] = 0
       IN  /\ phase' = IF empty THEN phase ELSE "stopped"
           /\ nmcTable' = [c \in Chs |->
                  [title |-> title, list |-> IF empty THEN <<<<0, current[<<c, 0>>]>>>> ELSE <<>>]]

\* nmcReqScheduling, when the main loop finds the DMA queue empty.  Another file
\* while one is open (REOPENED) is refused, but the host was answered before.
nmcReqScheduling ==
    /\ Idle /\ received
    /\ pending' = NoRequest /\ received' = FALSE
    /\ IF open THEN UNCHANGED <<phase, open, limit, nmcTable, interleaving, pagesUsed>>
               ELSE nmcNewMapping(pending.title, pending.nblks)
    /\ UNCHANGED <<dirs, starts, flushCh, newLoc, files, target, targetCh, targetWay, current, page,
                   free, handedOut, fileBlks, answered>>

-----------------------------------------------------------------------------
(* NMC_FLUSH: nmcFreeMapping, after FlushDataBuf has handed out the rest.   *)

Flush ==
    /\ Idle /\ open
    /\ phase' = "flushing" /\ flushCh' = 0
    /\ answered' = [n \in DOMAIN answered \ {nmcTable[0].title} |-> answered[n]]
    /\ UNCHANGED <<dirs, starts, hostVars, fileVars, newLoc, files, allocVars, fileBlks>>

\* nmcUpdateNewMappingLoc: the pages, then the ways, then the directories.
NextBlk(l) == IF l[1] + 1 < USER_WAYS THEN <<l[1] + 1, l[2], 0>> ELSE <<0, l[2] + 1, 0>>
\* Wrong: a block to be skipped is taken.
AnyNextBlk(c, l) == NextBlk(l)
NextUsableBlk(c, l) ==
    LET f[m \in Ways \X (0 .. DIRS) \X {0}] ==
            IF nmcSkippedDirBlk(c, m) /\ m[2] < DIRS THEN f[NextBlk(m)] ELSE m
    IN  f[NextBlk(l)]
NextLoc(c, l) ==
    IF l[3] + 1 < PAGES THEN <<l[1], l[2], l[3] + 1>> ELSE NextUsableBlk(c, l)

\* Wrong: a file that is written again keeps its first location.
FileTableKeepsFirst(n, c, l) ==
    IF n \in DOMAIN files /\ files[n][c] # ZeroLoc THEN files
    ELSE [m \in DOMAIN files \cup {n} |->
            [(IF m \in DOMAIN files THEN files[m] ELSE [d \in Chs |-> ZeroLoc])
                EXCEPT ![c] = IF m = n THEN l ELSE @]]
nmcFileTableUpdate(n, c, l) ==
    [m \in DOMAIN files \cup {n} |->
        [(IF m \in DOMAIN files THEN files[m] ELSE [d \in Chs |-> ZeroLoc])
            EXCEPT ![c] = IF m = n THEN l ELSE @]]

\* The assertion that a next page exists comes after the table is programmed.
nmcFlushMapping ==
    /\ phase = "flushing" /\ flushCh < USER_CHANNELS
    /\ LET c == flushCh
           l == newLoc[c]
           next == NextLoc(c, l)
       IN  /\ dirs' = [dirs EXCEPT ![c][l] = nmcTable[c]]
           /\ files' = nmcFileTableUpdate(nmcTable[c].title, c, l)
           /\ IF next \in Locs
              THEN newLoc' = [newLoc EXCEPT ![c] = next] /\ UNCHANGED phase
              ELSE phase' = "stopped" /\ UNCHANGED newLoc
    /\ flushCh' = flushCh + 1
    /\ UNCHANGED <<starts, hostVars, fileVars, allocVars, fileBlks, answered>>

\* nmcClearMapping, nmcDisableBlkInterleaving and the answer.
Close ==
    /\ phase = "flushing" /\ flushCh = USER_CHANNELS
    /\ phase' = "idle" /\ flushCh' = 0
    /\ open' = FALSE /\ limit' = 0
    /\ nmcTable' = [c \in Chs |-> NoFile]
    /\ interleaving' = FALSE /\ pagesUsed' = 0
    /\ answered' = [n \in DOMAIN answered \cup {nmcTable[0].title} |->
                        IF n = nmcTable[0].title THEN [blks |-> fileBlks, table |-> nmcTable, old |-> FALSE]
                        ELSE answered[n]]
    /\ fileBlks' = {}
    /\ UNCHANGED <<dirs, starts, hostVars, newLoc, files, target, targetCh, targetWay, current, page, free,
                   handedOut>>

\* The power fails, perhaps while a table is being programmed.
NmcPowerOff ==
    /\ phase # "off"
    /\ \/ UNCHANGED dirs
       \/ /\ phase = "flushing" /\ flushCh < USER_CHANNELS
          /\ dirs' = [dirs EXCEPT ![flushCh][newLoc[flushCh]] = Torn]
    /\ phase' = "off" /\ flushCh' = 0
    /\ Blank(pending', received', open', limit', nmcTable', newLoc', files', target', targetCh',
             targetWay', interleaving', pagesUsed', current', page', free', handedOut', fileBlks')
    /\ answered' = [n \in DOMAIN answered |-> [answered[n] EXCEPT !.old = TRUE]]
    /\ UNCHANGED starts

NmcNext ==
    \/ NmcPowerOn \/ NmcPowerOff
    \/ \E ofFile \in BOOLEAN : FindFreeVirtualSlice(ofFile)
    \/ \E n \in Names, nblks \in Limits : Alloc(n, nblks)
    \/ DmaDone \/ nmcReqScheduling
    \/ Flush \/ nmcFlushMapping \/ Close

NmcSpec == NmcInit /\ [][NmcNext]_nmcVars
-----------------------------------------------------------------------------
(* Properties.                                                             *)

\* Losing the memory at any moment loses nothing the directory is for: the
\* file table and the place for the next table are what the scan would find,
\* between two channels of a flush as well (nmcFlushMapping, nmcRecoverMappingDir).
RecoverMatches ==
    phase \in {"idle", "flushing"} =>
        /\ files = RecoveredFiles
        /\ \A c \in Chs : EmptyPages(c) # {} /\ newLoc[c] = FirstEmpty(c)

\* Once NMC_FLUSH is answered the file table leads to the file's own table on
\* every channel, until a file of that name is flushed again: through restarts,
\* torn tables and flushes of other files that were cut short.
FlushedFilesKept ==
    phase = "idle" => \A n \in DOMAIN answered :
        n \in DOMAIN files /\ \A c \in Chs : dirs[c][files[n][c]] = answered[n].table[c]

\* After a restart no block with pages of a flushed file is handed out again
\* (nmcRecordFileBlks, nmcPhyBlockUsed, InitBlockMap).
FilesKeepBlocks ==
    phase = "idle" => \A n \in DOMAIN answered : answered[n].old =>
        \A x \in answered[n].blks : x[2] \notin free[x[1]] \cup {current[x[1]]}

\* "If a new block is chosen to serve a request and the fw is in NMC mode, we
\* should record the physical address [of] that block" (nmcRecordBlock).
FileBlocksRecorded ==
    phase = "idle" /\ open => \A x \in fileBlks : <<x[1][2], x[2]>> \in ToSet(nmcTable[x[1][1]].list)
=============================================================================
