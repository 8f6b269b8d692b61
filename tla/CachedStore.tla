----------------------------- MODULE CachedStore -----------------------------
(***************************************************************************)
(* Read and write commands of the host, from the NVMe blocks they name to  *)
(* the data that moves: ReqTransNvmeToSlice splits a command into slice    *)
(* requests, and ReqTransSliceToLowLevel serves each from the data buffer  *)
(* cache, writing back what a buffer held and reading what it needs.       *)
(*                                                                         *)
(* The cache is LruCache, which DataBuffer implements; below it is a store *)
(* of slices, which StoredData implements; that the requests made here     *)
(* take effect in the order they are made is what RequestDependency is     *)
(* about.  NMC and physical-address commands are left out.                 *)
(***************************************************************************)
EXTENDS LruCache

CONSTANTS
    SLICES,                 \* logical slices, numbered from 0
    NVME_BLOCKS_PER_SLICE,
    Lengths,                \* of commands, in blocks
    Sources,                \* host buffers of write commands
    Data, UNWRITTEN, NoCommand

Offsets == 0 .. NVME_BLOCKS_PER_SLICE - 1
Lbas    == 0 .. SLICES * NVME_BLOCKS_PER_SLICE - 1

ASSUME StoreAssumption ==
    /\ SLICES \in Nat \ {0}
    /\ NVME_BLOCKS_PER_SLICE \in Nat \ {0}
    /\ Lengths \subseteq Nat \ {0}
    /\ Keys = 0 .. SLICES - 1
    /\ \A s \in Sources, n \in Lengths : \A i \in 0 .. n - 1 : i \in DOMAIN s /\ s[i] \in Data
    /\ UNWRITTEN \notin Data
    /\ NONE \notin [Offsets -> Data \cup {UNWRITTEN}]

VARIABLES
    data,           \* what each buffer contains
    below,          \* what the flash holds of each slice, NONE if unmapped
    command,        \* the command under way
    sliceReqQ,      \* its slice requests that have not been served
    halted,         \* an assertion has failed
    written         \* history: the blocks the host has written

storeVars == <<cacheVars, data, below, command, sliceReqQ, halted, written>>

StoreInit ==
    /\ CacheInit
    /\ data = [b \in Bufs |-> [o \in Offsets |-> UNWRITTEN]]
    /\ below = [k \in Keys |-> NONE]
    /\ command = NoCommand
    /\ sliceReqQ = <<>>
    /\ halted = FALSE
    /\ written = {}

-----------------------------------------------------------------------------
(* ReqTransNvmeToSlice: the slice requests of a command for n blocks from   *)
(* block start.  Request i moves the blocks from startIndex of the command  *)
(* on, to or from nvmeBlockOffset of its slice on.                          *)

SliceRequest(lsa, startIndex, offset, n) ==
    [lsa |-> lsa, startIndex |-> startIndex, nvmeBlockOffset |-> offset, numOfNvmeBlock |-> n]

Offset(start)  == start % NVME_BLOCKS_PER_SLICE
Loop(start, n) == (Offset(start) + n) \div NVME_BLOCKS_PER_SLICE

\* Wrong: the first request fills a slice wherever it starts.
FirstBlocksWhole(start, n) == IF Loop(start, n) > 0 THEN NVME_BLOCKS_PER_SLICE ELSE n
FirstBlocks(start, n) == IF Loop(start, n) > 0 THEN NVME_BLOCKS_PER_SLICE - Offset(start) ELSE n

LastBlocks(start, n)  == IF Loop(start, n) > 0 THEN (start + n) % NVME_BLOCKS_PER_SLICE ELSE 0

SliceRequests(start, n) ==
    LET lsa    == start \div NVME_BLOCKS_PER_SLICE
        loop   == Loop(start, n)
        first  == FirstBlocks(start, n)
        last   == LastBlocks(start, n)
        before(i) == first + (i - 1) * NVME_BLOCKS_PER_SLICE
    IN  <<SliceRequest(lsa, 0, Offset(start), first)>>
        \o [i \in 1 .. loop - 1 |-> SliceRequest(lsa + i, before(i), 0, NVME_BLOCKS_PER_SLICE)]
        \o IF last = 0 THEN <<>> ELSE <<SliceRequest(lsa + loop, before(loop), 0, last)>>

HostCommands ==
    {c \in [code : {"read"}, start : Lbas, n : Lengths]
           \cup [code : {"write"}, start : Lbas, n : Lengths, source : Sources] :
        c.start + c.n <= SLICES * NVME_BLOCKS_PER_SLICE}

\* The main loop takes a command when the one before has been turned into
\* low-level requests.
ReqTransNvmeToSlice(c) ==
    /\ sliceReqQ = <<>> /\ ~halted
    /\ command' = c
    /\ sliceReqQ' = SliceRequests(c.start, c.n)
    /\ UNCHANGED <<cacheVars, data, below, halted, written>>

-----------------------------------------------------------------------------
(* ReqTransSliceToLowLevel, for the slice request r in buffer b.            *)

IsWrite     == command.code = "write"
Whole(r)    == r.numOfNvmeBlock = NVME_BLOCKS_PER_SLICE
Covered(r)  == r.nvmeBlockOffset .. r.nvmeBlockOffset + r.numOfNvmeBlock - 1
LbasOf(r)   == {r.lsa * NVME_BLOCKS_PER_SLICE + o : o \in Covered(r)}

\* The transfer, when the buffer contains c.
Transfer(r, b, c) ==
    IF IsWrite
    THEN /\ data' = [data EXCEPT ![b] = [o \in Offsets |->
                        IF o \in Covered(r)
                        THEN command.source[r.startIndex + o - r.nvmeBlockOffset] ELSE c[o]]]
         /\ written' = written \cup LbasOf(r)
    ELSE data' = [data EXCEPT ![b] = c] /\ UNCHANGED written

\* EvictDataBufEntry and FlushDataBuf: dirty buffers among bs are written back.
WrittenBack(bs) ==
    [k \in Keys |-> IF \E b \in bs \cap dirty : held[b] = k
                    THEN data[CHOOSE b \in bs \cap dirty : held[b] = k] ELSE below[k]]

ServeHit(r, b) ==
    /\ Hit(b, r.lsa, IsWrite)
    /\ Transfer(r, b, data[b])
    /\ UNCHANGED <<below, halted>>

\* DataReadFromNand finds nothing to read for an unmapped slice.
NothingRead(k, b) == data[b]         \* wrong
DataReadFromNand(k, b) == IF below[k] = NONE THEN data[b] ELSE below[k]

ServeMiss(r, b) ==
    /\ IsWrite => Whole(r)
    /\ Miss(b, r.lsa, IsWrite)
    /\ below' = WrittenBack({b})
    /\ Transfer(r, b, IF IsWrite THEN data[b] ELSE DataReadFromNand(r.lsa, b))
    /\ UNCHANGED halted

\* For a write of a part of its slice DataReadFromNand knows no request code.
FailPartialWrite(r, b) ==
    /\ IsWrite /\ ~Whole(r)
    /\ Miss(b, r.lsa, FALSE)
    /\ below' = WrittenBack({b})
    /\ halted' = TRUE
    /\ UNCHANGED <<data, written>>

ReqTransSliceToLowLevel ==
    /\ ~halted
    /\ sliceReqQ # <<>>
    /\ \E b \in Bufs : LET r == Head(sliceReqQ)
                       IN  ServeHit(r, b) \/ ServeMiss(r, b) \/ FailPartialWrite(r, b)
    /\ sliceReqQ' = Tail(sliceReqQ)
    /\ command' = IF sliceReqQ' = <<>> THEN NoCommand ELSE command

FlushDataBuf ==
    /\ sliceReqQ = <<>> /\ ~halted
    /\ dirty # {}
    /\ Flush
    /\ below' = WrittenBack(Bufs)
    /\ UNCHANGED <<data, command, sliceReqQ, halted, written>>

StoreNext ==
    \/ \E c \in HostCommands : ReqTransNvmeToSlice(c)
    \/ ReqTransSliceToLowLevel
    \/ FlushDataBuf

StoreSpec == StoreInit /\ [][StoreNext]_storeVars

\* Without partial writes of slices that are not cached.
StoreSpecUnlessHalted == StoreInit /\ [][StoreNext /\ ~halted']_storeVars
-----------------------------------------------------------------------------
(* Properties.                                                             *)

TypeOK ==
    /\ lru \in Orders
    /\ held \in [Bufs -> Keys \cup {NONE}]
    /\ dirty \in SUBSET Bufs
    /\ data \in [Bufs -> [Offsets -> Data \cup {UNWRITTEN}]]
    /\ below \in [Keys -> [Offsets -> Data \cup {UNWRITTEN}] \cup {NONE}]
    /\ command \in HostCommands \cup {NoCommand}
    /\ \A i \in DOMAIN sliceReqQ : sliceReqQ[i] \in
          [lsa : Keys, startIndex : Nat, nvmeBlockOffset : Offsets,
           numOfNvmeBlock : 1 .. NVME_BLOCKS_PER_SLICE]
    /\ halted \in BOOLEAN
    /\ written \in SUBSET Lbas

\* No slice is in two buffers, and a clean buffer holds what the flash holds of
\* its slice: eviction may drop it (AllocateDataBuf, EvictDataBufEntry).
CachedOnce == \A a, b \in Bufs : held[a] = held[b] /\ held[a] # NONE => a = b
CleanBuffersMatch ==
    \A b \in Bufs : held[b] # NONE /\ b \notin dirty /\ below[held[b]] # NONE =>
        data[b] = below[held[b]]

\* What the host has written is on the flash or in a buffer that will be written
\* back, whatever is evicted, flushed or read in between (EvictDataBufEntry).
WrittenKept ==
    \A a \in written : LET k == a \div NVME_BLOCKS_PER_SLICE
                       IN  below[k] # NONE \/ \E b \in dirty : held[b] = k

\* Where a read of slice k would find it.
Content(k) == IF Holds(k) = {} THEN below[k] ELSE data[CHOOSE b \in Bufs : held[b] = k]

\* What a read of block a would deliver.
Stored(a) ==
    IF a \notin written THEN UNWRITTEN
    ELSE Content(a \div NVME_BLOCKS_PER_SLICE)[a % NVME_BLOCKS_PER_SLICE]
Moved(r) == r.startIndex .. r.startIndex + r.numOfNvmeBlock - 1

Host == INSTANCE BlockStore WITH
            BLOCKS <- SLICES * NVME_BLOCKS_PER_SLICE,
            store  <- [a \in Lbas |-> Stored(a)],
            left   <- UNION {Moved(sliceReqQ[i]) : i \in DOMAIN sliceReqQ}

\* Every block of a command moves once, and a write puts it in its place and
\* changes no other, however commands are aligned and whatever is cached,
\* evicted or flushed (ReqTransNvmeToSlice, ReqTransSliceToLowLevel).
ImplementsBlockStore == Host!Spec

\* A read delivers to block i of the host's buffer what was last written to block
\* start + i: the transfer is from the buffer now in front of the LRU list.
ReadsDeliver ==
    [][command # NoCommand /\ ~IsWrite =>
          LET r == Head(sliceReqQ)
          IN  \A i \in Moved(r) : command.start + i \in written =>
                 data'[lru'[1]][r.nvmeBlockOffset + i - r.startIndex] = Stored(command.start + i)]_storeVars

\* A write of a part of a slice first reads the slice (comment in
\* ReqTransSliceToLowLevel): it does not stop the firmware.
PartialWritesServed == ~halted
=============================================================================
