# Cosmos+ OpenSSD firmware: verification development

This directory specifies the core of the firmware in TLA+, model-checks the
specifications with TLC on small instances and proves part of what they promise
with TLAPS for every instance.

## 1. The system

The firmware runs on one ARM core without an operating system: `nvme_main` is a
polling loop. There is one interrupt handler, `dev_irq_handler` (`host_lld.c`),
which assigns the state of the NVMe controller (`g_nvmeTask.status`) and touches
nothing else. The loop assigns the same state, so the two race. Two kinds of hardware work at the same time as the CPU: the NVMe
DMA engine, which moves 4 KB blocks between the host and DRAM, and eight flash
channel controllers with eight dies each. All concurrency on the data path is
between the CPU and these engines, and all of it is visible to the CPU only
where it polls.

A command travels so:

    nvme_io_cmd.c            ReqTransNvmeToSlice: one slice request per 16 KB
      -> sliceReqQ
    request_transform.c      ReqTransSliceToLowLevel: find or evict a data buffer
                             (data_buffer.c), write back what it held
                             (AddrTransWrite, maybe GarbageCollection), read what it
                             needs (AddrTransRead), transfer to or from the host
      -> SelectLowLevelReqQ: nvmeDmaReqQ, nandReqQ[ch][way], or one of the two
                             queues of blocked requests
    request_schedule.c       SchedulingNandReq: run each die's queue
    request_transform.c      CheckDoneNvmeDmaReq, ReleaseBlockedBy*: completions
                             release blocked requests, entries return to freeReqQ

### Components

| component | state it keeps | operations | hard behaviour | correct when |
|---|---|---|---|---|
| address translation (`address_translation.c`) | logical and virtual slice maps; per block current page, invalid count, list links; per die current block and free list; allocation target | `AddrTransRead`, `AddrTransWrite`, `EraseBlock`, `FindFreeVirtualSlice(ForGc)` | long sequences of legal writes | maps agree, counts exact, free blocks hold no data, a reserve block is kept |
| garbage collection (`garbage_collection.c`) | victim lists per die and invalid count | `GarbageCollection`, `PutTo/GetFromGcVictimList` | runs inside an allocation, allocates itself | live data survives; there is a victim and room to copy |
| request dependencies (`request_transform.c`) | chain per data buffer, row address dependency table | `ReqTransSliceToLowLevel`, `EvictDataBufEntry`, `SelectLowLevelReqQ`, `CheckRowAddrDep`, `ReleaseBlockedBy*`, `CheckDoneNvmeDmaReq` | completions interleave with the CPU; nested polling loops | conflicting requests complete in order; nobody waits for ever |
| request pool and queues (`request_allocation.c`) | pool of 8192 entries on doubly linked queues | `PutTo*ReqQ`, `(Selective)GetFrom*ReqQ` | removal from the middle of a queue | every entry on exactly one queue |
| NAND scheduler (`request_schedule.c`) | way state, seven way lists per channel, status and retry tables | `SchedulingNandReqPerCh`, `ExecuteNandReq`, `CheckReqStatus`, `Sync*` | asynchronous status, retries, priorities | every way on one list; trigger and transfer adjacent; no way starves |
| data buffer cache (`data_buffer.c`) | LRU list, hash buckets, dirty flags | `CheckDataBufHit`, `AllocateDataBuf`, `FlushDataBuf`, hash list operations | key changes while linked | every cached slice found, once |
| NVMe auto DMA (`nvme/host_lld.c`) | wrapped tails, lap counters, last head read | `set_auto_tx/rx_dma`, `check_auto_*_dma_(partial_)done` | engine moves between two reads; 8 bit wrap | no transfer is taken for done before it is |
| NVMe I/O commands (`nvme/nvme_io_cmd.c`) | none of its own | read, write, flush, NMC commands | answered by the DMA engine or at once | every slot is returned |
| NVMe controller (`nvme/nvme_main.c`, `dev_irq_handler`) | enable, running, shutdown, reset states; queues | main loop and handler | host enables, stops and resets at any time | the host is answered; nothing of a session is left |
| NVMe admin (`nvme/nvme_admin_cmd.c`, `nvme_identify.c`) | queue valid flags, features | identify, features, create and delete queues | 20 branches that answer, release or do neither | every slot is returned |
| bad blocks (`address_translation.c`) | bad block table on the flash, physical block map, spare blocks | scan, save, remap, grown bad blocks | power cycles, also while the table is saved | no block in use is bad or shared; the capacity is there |
| NMC files (`nmc/*`) | directory on the flash, file table, block lists, interleaving flag | allocate, write, flush, recover; inference | power cycles, also while a file is flushed | flushed files and their blocks survive |
| flash driver (`nsc_driver.c`), monitor, `cdma`, configuration | registers; debug output; constants | pure I/O | | |

The hazards of each component, with the property meant to catch it or the reason
none does yet, are listed in `PROJECT.json` under `hazards`.

## 2. Modules

| module | models | uses |
|---|---|---|
| `BlockStore` | abstract: read and write commands on a store of NVMe blocks | |
| `CachedStore` | splitting commands into slices, and serving each through the cache; implements `BlockStore` | `LruCache`, `BlockStore` |
| `LruCache` | abstract: buffers in order of use, each holding one slice, with dirty marks | |
| `DataBuffer` | the LRU list and the hash buckets, link by link; implements `LruCache` | `LruCache` |
| `RequestDependency` | request pool, buffer chains, row address table, DMA and flash completions, the waiting loops | `LinkedLists` |
| `NandScheduler` | the scheduler of a flash channel: way lists, priorities, status polling, retries | `LinkedLists` |
| `HostDma` | the FIFO bookkeeping of the auto DMA engine | `LinkedLists` |
| `SliceStore` | abstract: a store of logical slices with atomic writes | |
| `StoredData` | `AddressTranslation` with the data its pages hold; implements `SliceStore` | `AddressTranslation`, `SliceStore` |
| `AddressTranslation` | the flash translation layer: `AddrTransWrite` and all it calls | `LinkedLists` |
| `BlockLinks` | the free and victim lists of `AddressTranslation`, link by link; they are its sequences as long as no block is on two lists | `AddressTranslation` |
| `LinkedLists` | removal from the middle of the firmware's doubly linked lists, as sequences | |
| `NvmeController` | the controller's states, main loop against interrupt handler and host | |
| `BadBlocks` | which physical block stands behind a virtual one, over power cycles | |
| `NmcMapping` | near-memory files: allocation, directory, recovery, over power cycles | |
| `MC*` | instances for TLC | |
| `PowerCycles_proofs` | theorems about what the flash keeps over power cycles | `BadBlocks`, `NmcMapping` |
| `DataPath_proofs` | theorems about the lists of the data buffers and the FIFO of the DMA engine | `DataBuffer`, `HostDma` |
| `*_proofs` | theorems; `StoredData_proofs` has those of `AddressTranslation` too | the module of that name |

The modules meet at three seams. `CachedStore` stands on `LruCache` above a store
of slices: `DataBuffer` shows that the linked structures are such a cache, and
`StoredData` that the translation layer is such a store. Both take the requests
created for a slice to have their effect in the order of creation;
`RequestDependency` is about that order, and takes from below only that the DMA
engine and the dies finish what they were given, which `HostDma` and
`NandScheduler` are about. `AddressTranslation` starts with free lists of blocks that
may be missing some: which, is the subject of `BadBlocks` and, for blocks of files, of
`NmcMapping`. `NvmeController` decides when commands are taken at all.

### AddressTranslation

`l2v`, `v2l`, `currentPage`, `invalidCnt`, `fbList`, `currentBlock`, `victimList`
and the three targets are the fields of the code with the list links replaced by
sequences. A virtual slice address is its triple of die, block and page; packing
the triple into an integer (`Vorg2VsaTranslation`) is injective and left out.

`AddrTransWrite` is one C call. It is cut into steps because the collector inside
it is long and because what holds halfway is what the next iteration reads:
`AddrTransWrite(l)` (the call up to `InvalidateOldVsa`), `AllocFromCurrent` and
`AllocFromNewBlock` (`FindFreeVirtualSlice`), `StartGarbageCollection`
(`GetFromGcVictimList`), `GcSkip` and `GcCopy` (one iteration, with
`FindFreeVirtualSliceForGc`), `EraseBlock`. `pc` says which may come next; the
host cannot start another write in between, as in the code.

Assertions of the code are not guards that hide a failure: where the code asserts,
no step is enabled, and `BlockAvailable` says that those about free blocks are not
reached. The one about victims can be (Skew, section 4): `VictimWhileRoom` says when.
That is why these configurations say `CHECK_DEADLOCK FALSE`: the firmware halts in an
assertion.

`Init` is the state after `InitAddressMap`: nothing mapped, `FreeAtBoot` the list
`InitBlockMap` builds (any list without repetitions longer than the reserve, so
bad blocks may be missing from it).

The specification of the module is `SpecUnlessCurrentErased`, and `StoredSpec` on top of it.
The collector can erase the block the die still writes to, which then is on the free list
and, once a page of it is invalidated, on a victim list too. Both kinds of list use
`prevBlock` and `nextBlock` of a block (`address_translation.h:242`), so sequences would be
wrong from there on.

### BlockLinks

`list[d]` has the links of the blocks of a die and the ends and the counter of its lists. The
operators with the names of C functions take and return such a record;
`InvalidateOldVsa`, the steps of the allocation and `EraseBlock` are those of
`AddressTranslation` with these functions for its sequences, and what has nothing to do with
lists is taken from there (`T!...`). `Along` follows the links from the head of a list, which
gives `T` its sequences: `ImplementsSequences` says that under `SpecUnlessCurrentErased` every
step is a step of `AddressTranslation`. TLC confirms it for one die of 3 and of 4 blocks and for
two dies of 3 blocks; no run repeats it. `Spec` goes on after the current block was
erased. It stops where the code asserts, follows an empty list or programs behind the last
page of a block.

### StoredData and SliceStore

`SliceStore` is what the layers above assume of the translation layer: reading a
slice returns what was last written. `StoredData` adds to every action of
`AddressTranslation` what the requests it issues do to the flash, in the order of
issue (that they take effect in that order is the subject of `RequestDependency`),
and a variable for the data being written. The refinement maps the abstract store
to the data reached through `l2v`; while a slice is being written its old data is
already unreachable, and the mapping accounts for that.

### RequestDependency

`queue[s]` is `reqQueueType`; the four queues whose order matters are sequences.
The CPU side is a small machine: a command of up to `MaxSlices` slices is split
(`SplitSlice`), each slice picks a buffer (`BufferHit`, `BufferMiss`) which fixes
the list `todo` of requests it will create, each is created (`CreateRequest`, the
chain) and selected (`Select*`). Which buffer is hit or evicted, which page is
read and which pages a victim still holds are free choices, so the model covers
every replacement policy and mapping; `FlushDataBuf` takes each buffer that is dirty when it
starts once, in any order; which page is *written* follows
`FindFreeVirtualSlice` and `FindFreeVirtualSliceForGc`, because the dependency
table relies on pages of a block being handed out in order. Pages read are pages
that were handed out and not erased since.

The scheduler is enabled exactly where the code calls it: between commands, in
`GetFromFreeReqQ` when the pool is empty (`WaitsForEntry`) and in
`SyncReleaseEraseReq` (`WaitsForErase`). `CheckDoneNvmeDmaReq` and
`ReleaseBlockedByRowAddrDepReq` are walks over a queue during which the hardware
moves on; they are walked one entry per step. Passes that would change nothing
are not steps. The hardware may finish a DMA at any time, in order for each
direction; a die completes the head of its queue when the scheduler looks.

### HostDma

One direction of the auto DMA: `SetAutoDma` (both directions have the same code),
`PartialDone` (the test `CheckDoneNvmeDmaReq` uses), `AutoDone` (the waiting
loops), and the walk of `CheckDoneNvmeDmaReq` over its requests, where the answer
for a newer request is applied to older ones. `POSITIONS` is 256 in the code and
`LAPS` is 2^32; the history variables count what was really issued and moved.

### NandScheduler

One channel. `nandReqQ`, `dieState`, `reqStatusCheckOpt`, `completeFlag`,
`statusReport` and `retryLimit` are the tables of `request_schedule.c`; `way[n]` is
the list `n` of `WAY_PRIORITY_ENTRY`. A pass of `SchedulingNandReqPerCh` is cut at
each read of the hardware: `at` and `wayNo` say which loop the pass is in and which
way it looks at. The controller (`QUEUE_DEPTH` commands, those of one way executed in
the order of issue, those of different ways in any order) and the dies are external code,
modelled from how `nsc_driver.c` and `request_schedule.c` use them; they move
between any two steps of the CPU. A status word can be written late, and the
result of an operation is a free choice. Each loop reads `nextWay` where the code
does: the loops of part 3 read it after the way has been moved to the tail of
another list, so each serves one way of its list in a pass. The queue being full
ends the pass.

Of a request only its code is kept. `RESET` and `SET_FEATURE` (start-up) and the
marking of a block as bad after a failure are left out. An erase takes the path
of a write from a list of its own, so the instance has reads and writes.

### DataBuffer, LruCache

`dataBuf`, `lruList` and `hashTable` are the tables of `data_buffer.c` with all
links. The operators that bear the names of C functions take and return the table,
so that an action can be the whole of what `ReqTransSliceToLowLevel` does to an
entry: `CheckDataBufHit`, or `AllocateDataBuf` with `EvictDataBufEntry`, the new
address and `PutToDataBufHashList`, then the dirty flag. Logical and physical
(OCSSD) addresses are kept apart by `phyReq` as in the code. Entries that receive
the file name of an NMC command have no address; they are in `BufSpec` and not in
`SpecWithoutFileNames`. `LruCache` says what all this is for, without links; the loops
along links are the recursive function `Walk`. `LinksExact` joins `LruLinksAgree` and
`BucketsExact`.

### CachedStore, BlockStore

`BlockStore` is what the host may expect: the blocks of a command move once each,
a write puts them in their place and changes no other, a read delivers what was
last written. `CachedStore` has the arithmetic of `ReqTransNvmeToSlice` and, per
slice request, the case distinction of `ReqTransSliceToLowLevel`: hit or miss,
write-back of a dirty victim, reading the slice, transfer. `below` is the store of
slices. Commands stay inside the capacity; blocks the host never wrote promise
nothing (`written`), since the code leaves in the buffer what was there.

### NvmeController

`status` is `g_nvmeTask.status`. The branch of the main loop for each status is cut
where it writes a register the host polls and where it assigns `status`; `pc` is the
place inside the branch. The handler is two steps: it clears the interrupt register and
remembers the causes (`EnterHandler`), then looks at them one after the other and
assigns `status` (`LeaveHandler`); the loop does not run in between. Commands are
taken from their slots, change queues and features (`HandleAdminCommand`,
`HandleIoCommand`) and give the slot back at once, or when the DMA engine has moved
their data. The host is a driver that obeys the protocol, may reset the controller
while commands are in progress, and may lose the link.

`Settled` is an assumption about time. A branch first writes the register the host waits
for and assigns `status` a few instructions later, with no lock. An event of the
host between the two is recorded by the handler and then overwritten by the branch:
the controller would never react. The model lets the host *react to an answer* only after the
branch and the interrupts before it are over, which is milliseconds against
microseconds; what the host does unasked may come at any time. Without `Settled`
`HostAnswered` fails. After `pcie_async_reset`, which writes the status register from an
uninitialised local, the bits the host sees take any value.

### BadBlocks

One die: dies share nothing in this part of the code. `table` is what a start would read
from block 0, `bad`, `remap` and `vbad` are the fields of the physical and virtual block
entries, `lost` the count that `mbPerbadBlockSpace` is made of. `RemapBadBlock` is a
recursive function over the user blocks, LUN after LUN (the code takes the LUNs in turn, which
share nothing), with `TakeSpare` and `NoSpare` for the two outcomes. `SaveBadBlockTable`
is two flash operations, an erase and a program (the table fits a page), and the power
may fail before each. A scan (`Marked`) sees the marks of the factory and every block
whose mark bytes hold data. What the flash does with a block is external: a worn block
may fail any operation. `reported` and `kept` are history.

### NmcMapping

`dirs` is the content of the directory blocks, page by page; `nmcTable` the tables of the
open file in DRAM; `files` the file table; `newLoc` the place for the next table.
`FindFreeVirtualSlice` hands out a page of the open file or of other data, with the
die chosen as `FindDieForFreeSliceAllocation` does inside and outside of files.
`nmcFlushMapping` programs the table of one channel; a power failure may leave the
page torn. `NmcPowerOn` is the scan of `nmcRecoverMappingDir` in closed form: pages up to
the first empty one of each channel. The data buffer is left out, so a page may be handed
out any time after its command, or never. (`Nmc` marks the names that `BadBlocks` has as well,
so that one module can hold the theorems of both.)

## 3. Runs

| run | instance | shows |
|---|---|---|
| `stored_data` | 2 dies of 3 blocks of 2 pages, one block bad, 4 slices (the capacity `InitFTL` reports), 2 values | maps, counts and victim lists through every order of overwrites and collections; no assertion on free blocks fires; only a die filled up lacks a victim; the layer implements `SliceStore` |
| `block_links` | 1 die, 3 blocks of 2 pages, 4 slices (its capacity) | (violation) a current block on the free list is cut off it, and no block is left for a collection |
| `request_order` | 5 entries, 2 buffers, 2 blocks of 2 pages, reads with dirty buffers and flushes | exclusive use of buffers, counts of blocked reads, program order, the waited-for erase, completion in order of conflict, with collections in the way |
| `request_drains` | 5 entries, 1 buffer, 2 blocks of 2 pages, 5 calls: writes, reads and a flush, of 1 or 2 slices | reads and writes keep their order; everything accepted completes, through waits for a free entry and for an erase |
| `nand_schedule` | 2 ways, 1 retry, a queue of 2 commands | one list per way, the status read is the right one, trigger and transfer adjacent, a request is done only when it was executed, no die starves |
| `data_buffer` | 3 entries, hence 3 buckets; addresses 0, 3 and 4, logical and physical | links agree in both directions, buckets exact, implements `LruCache` |
| `cached_store` | 2 buffers, 3 slices of 2 blocks, commands of 1 and 4 blocks | clean buffers match the flash, implements `BlockStore`, reads deliver |
| `host_dma` | 4 positions, 4 laps, 3 requests | the waiting loops and early release, and that a full FIFO is relieved |
| `nvme_controller` | 2 queue pairs, 2 slots, all standard commands | sessions end clean, slots are returned, the host is answered |
| `bad_blocks` | 2 LUNs of 2 user and 2 spare blocks, up to 1 bad from the factory, 2 that wear out | mapping apart, grown bad blocks remembered, capacity backed, over any number of power cycles and resets |
| `nmc_mapping` | 2 channels, 3 ways, 4 blocks of 2 pages, 2 file names, 3 power cycles, one directory block to skip | the directory is recoverable at any moment; flushed files keep tables and blocks |
| `nmc_files_recorded` | the same, 5 pages in one session | (violation) a file's block on the second way is not recorded |

Bounds. Blocks of 2 pages, 3 of them, reach every branch of the allocator and the
collector: partial and full victims, the victim being the current block, the copy
filling the reserve block, the free list at its reserve. In `stored_data` the two dies have 6
blocks; `InitFTL` holds back the reserve of each and, per die, as many blocks as the
worst die lost, and its share of over-provision rounds to none: 2 blocks, 4 slices. All of
them fit on the whole die and fill it; two fill the die with the bad block. So skew occurs,
and `DieHasRoom` is false in some states and true in others, in which the other die is
filled. With 5 pool entries the pool is exhausted in the
middle of a command, a collection and an eviction; with fewer the longest chain of
one slice does not fit, which `PoolAssumption` excludes as the code's 8192 entries
do. `HostCodes` restricts what the host sends in `request_order` to reads;
its buffers start dirty, so evictions and flushes program and erase, and the fifth
entry lets a collection wait behind a blocked read. In `request_drains` the calls of the
host are a script (`WaitingScript` of `MCRequestDrains`), because the shortest way into
`SyncReleaseEraseReq` is long: both pages of a block are written, a flush collects the block and
leaves its erase waiting, and a read of that block comes whose buffer is still in use. The
script leaves open how many slices a command has and whether it reads; buffers, pages,
collections and the hardware are as free as before. Entries of the pool are interchangeable, so
the lowest free one is taken. In `nand_schedule` two dies can
have two commands each, so a queue of 2 fills up in the middle of a pass; a request at a time on each die
is enough, since only the head is looked at and what arrives behind it only keeps
the queue from being empty. Three data buffers make a middle entry in the LRU
list; 0 and 3 share a bucket and 4 has another. Commands of 4 blocks on slices of
2 have a first, a middle and a last slice or none of them, depending on alignment.
`MaxBlocks` and `MaxRequests` in `HostDma` bound the history; 4 positions are
passed several times, so every wrap occurs.

In `bad_blocks` the factory block and the two that wear out exhaust the spare blocks, hit
the table block, a directory block, a spare and blocks in use, in any order; whatever
happens after the second failure happens with these. In `nmc_mapping` 4 pages in
a session fill the blocks of the first way on both channels, which is the largest file
whose blocks are recorded; 3 starts allow a file to be flushed, lost in a torn flush,
flushed again and read back. Directory blocks of 2 pages overflow into the next way,
over the skipped one and to the end of the last.

Constrained specifications. Where a finding or a known disagreement (section 4) destroys
what a property is about, the run is restricted to the behaviours before it:
`StoredSpec` to those in which the collector never erases the block the die still
writes to (`block_links`), `SpecUnlessRefilled` to those in which no block
is handed out again while a request of its last filling waits,
`StoreSpecUnlessHalted` to those in which no partial write misses, `SpecWithoutFileNames`
to those without file names. A restriction may leave a state without successor, which is
why the first three say `CHECK_DEADLOCK FALSE`; `block_links` says it
because the firmware halts in an assertion there, `request_drains` because its host falls
silent, and the two runs of `NmcMapping` because
of the bound on starts and because the firmware halts in assertions. All other runs
check deadlock.

Fairness. `Fairness` of `RequestDependency`, which `ScriptedSpec` uses, assumes the CPU proceeds, the DMA engine
finishes what it was given and every die finishes the request it runs; the main
loop and the waiting loops visit all channels in each turn, so each scheduler
action is weakly fair by itself. Nothing is assumed of the host: `Drains` speaks
of behaviours in which it falls silent. `HostDma` assumes the same of its engine.
`FairSpec` of `NandScheduler` assumes that the main loop calls the scheduler for
ever, that the controller executes the next command of each way once its die can,
and that an operation of a die ends. It does not assume that the queue has room when
a way of low priority is looked at: that follows from at
most two commands per way and a queue of 32 for 8 ways. With a queue of one command `DiesServed` fails.
`NvmeController` assumes that the one core runs the main loop and, when an interrupt is
raised, the handler; nothing of the host or the link, which `HostAnswered` takes to stay up.

## 4. Findings

* `block_links`: `GarbageCollection` leaves the current block only when it
  copies something. A full current block whose slices are all invalid is
  collected without a copy, erased, appended to the free list behind the reserve block, and
  remains the current block. It is written again. When one of its pages is overwritten,
  `SelectiveGetFromGcVictimList` takes its place on the free list for one on a victim list
  and sets `nextBlock` of the reserve block to `BLOCK_NONE` (`garbage_collection.c:206`): the
  current block is no longer on the free list, though `freeBlockCnt` counts it. So the
  reserve block is handed out for a normal write, the free list is empty, and the next
  collection that has to copy ends in "There is no available block"
  (`address_translation.c:1072`). With 3 slices TLC also reaches a
  state in which a normal write needs a block and the head of the free list is a full one; the
  code then programs the page after its last one. The model stops there.
* `nmc_files_recorded`: `FindFreeVirtualSlice` records a block of the open file when it
  replaces a full current block. `nmcNewMapping` insists that all current blocks are empty
  and records those of way 0. When these are full the file goes on in the empty current
  blocks of way 1, and nothing records them: after a restart they are free, and
  their data is overwritten. Only files of one block a channel are safe.

Three more disagreements were found and are kept as definitions that no run checks; TLC
violates each under the specification named.

* `ReadAfterProgram` (`Spec` of `RequestDependency`): `CheckRowAddrDep` lets a selected read
  pass for page `permittedProgPage` itself (`<=`, commented `TEST`,
  `request_transform.c:805`), a page whose program may still be waiting for its buffer,
  although `request_transform.c:766` says pending writes are finished first. It needs a
  dirty buffer that is evicted while its own transfer from the host is in flight and a
  read of the same slice right after.
* `PartialWritesServed` (`StoreSpec` of `CachedStore`): `ReqTransSliceToLowLevel`
  calls `DataReadFromNand` for a write that misses and covers only a part of its slice
  (`request_transform.c:604`), and `DataReadFromNand` has no case for a write: it ends in
  `ASSERT(0)` (`request_transform.c:494`), which loops for ever.
* `EvictedEntriesLeave` (`BufSpec` of `DataBuffer`): a buffer that holds a file name is linked
  in a bucket without an address; `SelectiveGetFromDataBufHashList` (`data_buffer.c:469`)
  skips such entries, so the buffer stays linked when it is reused, and the chains of two
  buckets cross.

Limits were seen with instances not kept as runs, or while reading.

* Skew. The target die is chosen round robin and the capacity counts the drive as a
  whole, so overwrites can gather live slices on one die: `VictimExists`, which states the
  assertion in `garbage_collection.c:187`, fails in the instance of `stored_data`.
  `VictimWhileRoom` and `VictimsStayAvailable` say that this is the only way. The real
  configuration keeps 10 % in reserve, so it takes a strong skew, but nothing rules it out.
* Refilled blocks. `CheckRowAddrDep` knows pages by their number only. When a block is
  erased and filled again while a request of its last filling still waits, a
  request of the new filling passes first: `InOrder` fails under `Spec` with 5
  entries, 2 buffers, 2 blocks of 2 pages and writes. A second erase can clear
  `blockedEraseReqFlag` of the first for the same reason. It takes a die with very few
  free blocks.
* Bad block table. It is erased before it is written again, so a power failure in
  between loses what earlier shutdowns recorded, and the scan that replaces it takes
  data for marks. A die left with fewer good blocks than `InitFTL` holds back makes the
  unsigned capacity wrap around (`CapacityBacked` says nothing there).
* One file per power cycle. `NMC_ALLOC` is answered before `nmcNewMapping` runs, and
  that asserts that no page was written since the start. `NMC_FLUSH` sent before the main
  loop has seen the name is refused. Inside a file the way never wraps
  (`address_translation.c:1108`).
* Abrupt shutdown (`CC.SHN = 2`) is ignored by the handler (`host_lld.c:151`).

## 5. Proofs

TLAPS proves the following for every number of dies, blocks, pages and slices, and
every boot-time free list longer than the reserve. It assumes the named
assumptions of the modules and, where a theorem says so, one more (`Board`, `Announced`).

`LinkedLists_proofs`. Removal from the middle, appending and taking the head, for
lists without repetitions: what they contain afterwards and that nothing repeats.

`StoredData_proofs`, first part, about `AddressTranslation` under
`SpecUnlessCurrentErased`. The properties the run
checks are not inductive: that a free block holds no data depends on the counts,
the counts on the maps agreeing, and during a collection on how far the copy loop
has come. The inductive invariant `IInv` adds to `TypeOK` and `MapsAgree`

* `CountInv`: invalid slices and mapped slices of a block add up to `currentPage`;
* `ListInv`, `FreeInv`: victim lists by exact count, free blocks without data;
* `CallInv`: what the variables of a call in progress mean;
* `NothingLeftBehind`: every page the copy loop has passed is unmapped, so the block
  is empty when it is erased.

One lemma per action (`AddrTransWriteInv` ... `EraseBlockInv`) shows that it keeps
`IInv`. A second layer, `ReserveInv`, shows that the copies of a collection fit into the
reserve block because the victim has an invalid slice. (`FreeBlocksUnused` and `ReserveKept`
are proved and no longer run.) A third, `FilledInv`, shows that a usable block is free, current
or full, so that when a collection starts all but the reserve are full; had none an invalid
slice, all their pages would be live. Hence `VictimsStayAvailable`: a victim exists as long as
the live slices of the die (`LiveOn`) are fewer than the pages of its usable blocks without
the reserve (`DieHasRoom`), whatever the other dies hold. The condition speaks of the die alone and
is not one on the constants: with several dies skew can break it (section 4). The other theorems are
`TypeCorrect`, `MapsStayAgreed`, `InvalidCountIsExact`, `VictimListsStayExact`,
`FreeBlocksStayUnused`, `ReserveStaysKept` and `BlocksStayAvailable`.

`StoredData_proofs`, second part. `StoredInv` adds that each mapped page holds the data the abstract
store has; every step of `StoredSpec` is a step of `SliceStore` or leaves it unchanged
(`TranslationImplementsStore`).

`PowerCycles_proofs`, about `BadBlocks`, for every size of the die. The loop of `RemapBadBlock` is a recursive
function. `ComputeAll` shows that its definition has a solution for any number of blocks
and `RemappingProgress` that the loop's invariant `Progress` holds after each of them, both by
least counterexample, which needs no induction rule: the next spare block lies in
the spare part of its LUN, a block is its own or has a good spare block behind the ones
looked at, no two blocks have the same, and `lost` counts the bad ones that have none.
`MappingInv` carries that over power cycles, with the marks of the factory, which
every table, image and scan contains. Hence `TypeCorrect`, `BlocksMappedApart` and
`CapacityIsBacked`. `IInv` adds, for each `pc`, which of `kept` the table, the memory or
the image about to be programmed holds. From it follow
`BadBlocksRemembered` (a finished shutdown leaves every block that failed in the table)
and `GrownBadBlocksKept`.

`PowerCycles_proofs`, about `NmcMapping`, for any number of channels, ways, blocks, files and
directory blocks to skip, under `Board`: one directory block on each die, as
`NMC_MAPPING_DIR_PBLK_PER_DIE` has it, and more than one page in a block. None of the
properties is inductive. `FileInv` adds to the types that what is programmed of a directory
is a prefix of the scan (`PrefixInv`), so that a torn page hides nothing and the next table
cannot overwrite one; that the file table and the next places are what the scan finds
(`PlaceInv`); that the last table with the name of an answered file is its own, and during
a flush also that of the new file on the channels that are done (`AnsweredInv`); and that no
block such a table lists is free or current (`BlocksInv`). `NextLocIs` says that
`nmcUpdateNewMappingLoc` returns the next page the scan will read; its walk over the
blocks to skip is a recursive function, which `WalkExists` and `WalkEnds` determine by
least counterexample. A start whose scan ignores a torn page therefore finds what was in
memory: `RestartFindsFiles`, `AnsweredFilesStay` and `FilesTypeCorrect`. That no page of an
answered file is handed out again is false in general, because blocks on the later ways are
not recorded (section 4); `RecordedBlocksStay` shows that nothing else can break it:
`FilesKeepBlocks` holds as long as the tables list the blocks of their files
(`AnsweredRecorded`).

`NvmeController_proofs`. `SessionEndsClean` speaks of what the host reads, but it rests on
which interrupt causes can still be pending when a session ends: a late one would take a
controller that has reported the end back into a branch that reopens it. `IInv` joins
`NotReadyInv` (what `RDY = 0` leaves), `ShutdownInv` (what `SHST` leaves, and that the
host's shutdown is worked off once) and `SessionInv` (causes and statuses possible in each
phase of the host); none is inductive without the others. Hence `ControllerTypes`, `SessionEnds`, and, under
the assumption `Announced` that the host sends only commands the controller announces,
`SlotsDoNotLeak`. Both take `Settled` for granted, as the model does. They hold for any number
of queues and command slots.

`DataPath_proofs`, about `DataBuffer`, for any number of entries and any addresses. The
firmware changes up to four entries and both ends of a list at a time, and no property of
`DataBuffer` survives that by itself. A `Chain` is a sequence whose neighbours are linked
in both directions; the lemmas `Chain...` say that taking an entry out, putting it first or
last, and the two together give a chain again. `Linked`, the types and that the LRU list is
a chain of all entries, is kept by every step of `BufSpec`, file names included
(`DataBufferTypeCorrect`, `LruListAgrees`): they cross the chains of buckets only.
`LinkedAndFiled` adds that each bucket is a chain of exactly the entries with its addresses.
It is inductive under `SpecWithoutFileNames` only: an entry that holds a file name stays in
a bucket it does not belong to (`EvictedEntriesLeave`, section 4). `WalkType` and
`WalkMeetsChain` tie the recursive walks to the chains, by least counterexample, so the code
finds what is on the chain (`BucketRead`, `OrderRead`). `HitStep` and `MissStep` say what
a command does to both structures. Hence `LinksAreExact`, and with `HitIsCacheHit`,
`MissIsCacheMiss` and `FlushIsCacheFlush`, that each step is a step of `LruCache`
(`DataBufferImplementsLruCache`). `CommandsImplementBlockStore` takes over from there: it
shows what a host reads through such a cache. That the two meet at `LruCache` is no theorem.

`DataPath_proofs`, about `HostDma`. The lap counters determine what was issued and moved as long as
less than a lap is outstanding; hence `PartialDoneIsExact`, `AutoDoneIsExact` and
`ReleasedRequestsHaveMoved`, for every FIFO size, 256 among them.

`CachedStore_proofs`, about `StoreSpecUnlessHalted`. First the arithmetic of
`ReqTransNvmeToSlice`: the code computes the first, the middle and the last slice with
different formulas, `SplitShape` gives the i-th request in closed form, and
`SplitFits`, `SplitOrdered` and `SplitCovers` show that the requests stay inside slice
and command, do not overlap and leave nothing out. `StoreInv` then joins the types,
the queue (`QueueInv`: what is left of one command, in order) and three invariants
that need one another: `CachedOnce`, `CleanBuffersMatch` and `WrittenKept` (no run
checks the last by itself: data dropped would break `ImplementsBlockStore`). With
`ServedContent` (serving one slice leaves the content of the others) every step is a
step of `BlockStore` or leaves it unchanged: `CommandsImplementBlockStore`, and
`ReadsAreRight` for the data a read delivers. They hold for every capacity, slice size,
number of buffers and alignment.

`NandScheduler_proofs`. The firmware keeps the state of a way at three places (its list,
`dieState` and `reqStatusCheckOpt`), sets them at different lines of `ExecuteNandReq` and
its callers, and works through the lists while it changes them. `IInv` joins the lists
(`OnOneList`, `ListState`), the position of the pass (`PassInv`: the way it looks at is
still on its list, and `waitWayCnt` is the number of ways before it) and, for each way, its
request, its commands in the controller's queue and its die (`RequestOf`, `CommandsOf`,
`FlashOf`). None is inductive without the others: that a report is current rests on no
other command of the way being queued, and this on the list the way is on. A step changes
one way; the lemmas `Untouched...` dispose of the others. Hence `ListsCorrect`,
`ReportsCorrect`, `TransfersCorrect`, `DoneCorrect` and `TypeCorrect`, for every number of ways, depth
of the command queue, number of retries and set of request codes. `IInv` was checked with
TLC before it was proved.

`RequestDependency_proofs`. An action of this module goes through several functions of the
code, and `SelectLowLevelReqQ` alone has several ends. The proofs therefore do not go by
action but by what happens to one request, which is one of five things (`StepIs`): nothing,
the CPU creates it, the CPU puts it on a queue, it is released to its die, or it ends and
the next of its buffer is released. `RowMoves` says for all of them what becomes of
`rowAddrDependencyTable`. On this stand two inductive invariants.

* `IInv`, under `Spec`: types and tags (`Base`), the counts of blocked reads, `ChainInv`
  (the requests of a buffer form one chain in the order of creation, those that left it
  are its first) and `RowInv`: what is queued at a die leads each block, page by page and
  through its erases, from what the flash has programmed to `permittedProgPage`
  (`Turns`). Hence `OneRequestPerBuffer`, `BlockedReadsCounted`, `PagesInOrder` and
  `TypeCorrect`.
* `OrderedInv`, under `SpecUnlessRefilled`: `WaitInv` continues the argument from
  `permittedProgPage` over what waits, in the order of creation, to what the mapping has
  handed out; `WaitDistinct` says that a page number names one waiting program or erase of a
  block; `FlagInv` that a set `blockedEraseReqFlag` stands for an erase on the queue that
  is walked; `ReadsFirst` that the reads an erase waits for were created before it; and
  `FlashOrder` that conflicting requests are queued at their die in the order of creation.
  Hence `ErasesAreFound` and `RequestsInOrder`.

`SpecUnlessRefilled` is needed: `CheckRowAddrDep` compares page numbers only, so without it
`WaitDistinct`, and then `InOrder`, is false (Refilled blocks, section 4). The first four
theorems do not assume it. All hold for any number of entries, buffers, dies, blocks, pages and
slices of a command, within `PoolAssumption`.

Only model-checked. Liveness (`Drains`, `DiesServed`, `QueueRelieved`, `HostAnswered`), which is
out of the prover's reach. Every other property of a run that passes is stated by a
theorem, some under the condition given above (`SlotsReturned`,
`FilesKeepBlocks`, `InOrder`). Proved and in no run, because
the theorem says more than the run would: `TypeOK`, `FreeBlocksUnused` and `ReserveKept` of
`AddressTranslation`, `TypeOK` and `CachedOnce` of `CachedStore`, `TypeOK` and
`PartialDoneExact` of `HostDma`, `BufTypeOK` of `DataBuffer`.

## 6. Not modelled

* Contents of admin answers (identify pages, feature values), completion statuses, and the
  vendor commands that call into the monitor.
* What becomes of the data of a failed program: the code forgets it, and no property could
  say otherwise.
* NMC: inference and image verification, which read and print; mapping queries; a forced
  `NMC_FLUSH` without an open file, which asserts in `nmcDisableBlkInterleaving`; the effect
  of garbage collection on a file's recorded blocks.
* The links and counters of the request queues in `request_allocation.c` (sequences here).
* Physical-address (OCSSD) commands, apart from their entries in `DataBuffer`.
* The channel information beside the bad block table (`recordChannelInfo`), of which the start
  only prints whether it is there.
* Start-up of the board, formatting, the monitor, `cdma` and the register accesses of
  `nsc_driver.c`: input and output without state of their own.

## 7. Plan

Models: the linked queues of the pool, refining the sequences of `RequestDependency`;
physical-address commands in `CachedStore`; a composition of `NmcMapping` with
`AddressTranslation`, for what a collection does to a file. A new question replaces or
joins a run of the same module where it can, so that the whole check stays short.
