------------------------- MODULE RequestDependency --------------------------
(***************************************************************************)
(* How the firmware orders its low-level requests.  The CPU turns each     *)
(* slice of a command into NVMe DMA and NAND requests (ReqTransSlice-      *)
(* ToLowLevel and what it calls), and SelectLowLevelReqQ puts each request *)
(* on a queue: requests of one data buffer form a chain and only its head  *)
(* may run; requests of one flash block are kept in order by the row       *)
(* address dependency table.  The DMA engine and the flash dies work at    *)
(* the same time, and the scheduler, called from the main loop and from    *)
(* three waiting loops, releases what their completions unblock.           *)
(*                                                                         *)
(* The CPU is sequential.  A step is a stretch of code that reads the      *)
(* hardware at most once; the scheduler's steps are enabled only where the *)
(* code calls it (`Polling').  The mapping of AddressTranslation is        *)
(* reduced to what a request can see of it: which page a write is given,   *)
(* what a collection reads, writes and erases, which pages may be read.    *)
(* Requests of physical addresses (OCSSD) and requests whose buffer is a   *)
(* bare address (NMC results) are left out.                                *)
(***************************************************************************)
EXTENDS Integers, Sequences, FiniteSets, LinkedLists

CONSTANTS
    Slots,          \* entries of the request pool
    Bufs,           \* data buffer entries
    Dies,           \* dies; the temporary buffer of a die is named by the die
    Blocks,         \* blocks of a die
    PAGES,          \* pages of a block
    HostCodes,      \* what slices transfer: "rx" those of writes, "tx" of reads
    MaxSlices,      \* slices of the longest command
    NONE            \* REQ_SLOT_TAG_NONE, DATA_BUF_NONE

AllBufs == Bufs \cup Dies
Pages   == 0 .. PAGES - 1

\* A command's slice requests wait in the pool together; the last one is
\* turned into low-level requests with one entry for its evicted data and one
\* for each request of a collection.
ASSUME PoolAssumption ==
    /\ IsFiniteSet(Slots)
    /\ MaxSlices \in Nat \ {0}
    /\ HostCodes \subseteq {"rx", "tx"}
    /\ Cardinality(Slots) >= MaxSlices + 2

ASSUME GeometryAssumption ==
    /\ PAGES \in Nat \ {0}
    /\ Bufs \cap Dies = {}
    /\ NONE \notin Slots \cup AllBufs \cup Blocks

VARIABLES
    queue,          \* reqQueueType of each entry; "cpu" while none holds it
    req,            \* what each entry asks for
    prevBlockingReq, nextBlockingReq,   \* the chain of the entry's buffer
    blockingReqTail,                    \* the last entry of a buffer's chain
    nvmeDmaReqQ,    \* issued DMA requests, oldest first
    nandReqQ,       \* for each die, requests ready for the flash
    blockedByRowAddrDepReqQ,            \* for each die
    rowDep,         \* rowAddrDependencyTable
    hwDone,         \* DMA requests the engine has finished
    dmaWalk,        \* the position CheckDoneNvmeDmaReq looks at, 0 outside it
    rowWalk,        \* <<die, position>> of ReleaseBlockedByRowAddrDepReq, or <<>>
    toSplit,        \* slices the command at hand still has to create
    sliceReqQ,      \* slice requests
    slice,          \* the slice request being transformed
    held,           \* entry EvictDataBufEntry took before AddrTransWrite
    todo,           \* low-level requests the CPU is about to create
    selecting,      \* the request SelectLowLevelReqQ is called for
    bufBlocked,     \* what CheckBufDep reported of it
    toFlush,        \* dirty buffers FlushDataBuf has still to meet on the LRU list
    dirty,          \* dirty data buffers
    currentBlock, currentPage, freeBlocks,  \* of AddressTranslation
    order,          \* history: the live requests in order of creation
    programmed      \* the flash: programmed pages of each block

chains == <<prevBlockingReq, nextBlockingReq, blockingReqTail>>
queues == <<nvmeDmaReqQ, nandReqQ, blockedByRowAddrDepReqQ>>
walks  == <<dmaWalk, rowWalk>>
cpu    == <<toSplit, sliceReqQ, slice, held, todo, selecting, bufBlocked, toFlush>>
ftl    == <<dirty, currentBlock, currentPage, freeBlocks>>
vars   == <<queue, req, chains, queues, rowDep, hwDone, walks, cpu, ftl, order, programmed>>

NoReq == [code |-> "none"]

\* A low-level request.  `page' of an erase is its programmedPageCnt; `from'
\* says where its pool entry comes from.
Request(code, buf, d, b, p, from) ==
    [code |-> code, buf |-> buf, die |-> d, block |-> b, page |-> p, from |-> from]
Hold == [code |-> "hold", from |-> "new"]

IsDma(s)  == req[s].code \in {"rx", "tx"}
IsRead(s) == req[s].code = "read"
Row(s)    == rowDep[req[s].die][req[s].block]
Free      == {s \in Slots : queue[s] = "free"}

CpuIdle == toSplit = 0 /\ sliceReqQ = <<>> /\ todo = <<>> /\ selecting = NONE /\ toFlush = {}

Without(q, s) == Unlink(q, s)

\* The firmware between bursts of commands: all requests done, any buffers
\* dirty, full blocks behind the current block, at least the reserve free.
Init ==
    /\ queue = [s \in Slots |-> "free"]
    /\ req = [s \in Slots |-> NoReq]
    /\ prevBlockingReq = [s \in Slots |-> NONE]
    /\ nextBlockingReq = [s \in Slots |-> NONE]
    /\ blockingReqTail = [b \in AllBufs |-> NONE]
    /\ nvmeDmaReqQ = <<>>
    /\ nandReqQ = [d \in Dies |-> <<>>]
    /\ blockedByRowAddrDepReqQ = [d \in Dies |-> <<>>]
    /\ hwDone = {}
    /\ dmaWalk = 0
    /\ rowWalk = <<>>
    /\ toSplit = 0
    /\ sliceReqQ = <<>>
    /\ slice = NONE
    /\ held = NONE
    /\ todo = <<>>
    /\ selecting = NONE
    /\ bufBlocked = FALSE
    /\ toFlush = {}
    /\ order = <<>>
    /\ dirty \in SUBSET Bufs
    /\ currentBlock \in [Dies -> Blocks]
    /\ freeBlocks \in [Dies -> SUBSET Blocks \ {{}}]
    /\ \A d \in Dies : currentBlock[d] \notin freeBlocks[d]
    /\ \E used \in [Dies -> 0 .. PAGES] :
          currentPage = [d \in Dies |-> [b \in Blocks |->
                            IF b = currentBlock[d] THEN used[d]
                            ELSE IF b \in freeBlocks[d] THEN 0 ELSE PAGES]]
    /\ programmed = currentPage
    /\ rowDep = [d \in Dies |-> [b \in Blocks |->
                    [permittedProgPage |-> currentPage[d][b],
                     blockedReadReqCnt |-> 0,
                     blockedEraseReqFlag |-> FALSE]]]

-----------------------------------------------------------------------------
(* CheckRowAddrDep: whether a NAND request may run, and the row it leaves.  *)

\* A read of page p, asked for by SelectLowLevelReqQ or by a release; a program
\* of page p; an erase of a block that had p programmed pages.
ReadPasses(row, p, opt) ==
    IF opt = "select" THEN p <= row.permittedProgPage ELSE p < row.permittedProgPage
WritePassesAhead(row, p) == p >= row.permittedProgPage
WritePasses(row, p) == p = row.permittedProgPage
ErasePassesReads(row, p) == p = row.permittedProgPage
ErasePasses(row, p) == p = row.permittedProgPage /\ row.blockedReadReqCnt = 0

CheckRowAddrDep(s, opt) ==
    LET r == Row(s)
        p == req[s].page
        verdict(pass, passed, blocked) ==
            IF pass THEN [pass |-> TRUE, row |-> passed] ELSE [pass |-> FALSE, row |-> blocked]
    IN  CASE req[s].code = "read" /\ opt = "select" ->
               verdict(ReadPasses(r, p, opt), r, [r EXCEPT !.blockedReadReqCnt = @ + 1])
          [] req[s].code = "read" /\ opt = "release" ->
               verdict(ReadPasses(r, p, opt), [r EXCEPT !.blockedReadReqCnt = @ - 1], r)
          [] req[s].code = "write" ->
               verdict(WritePasses(r, p), [r EXCEPT !.permittedProgPage = @ + 1], r)
          [] req[s].code = "erase" ->
               verdict(ErasePasses(r, p),
                       [r EXCEPT !.permittedProgPage = 0, !.blockedEraseReqFlag = FALSE],
                       [r EXCEPT !.blockedEraseReqFlag = @ \/ opt = "select"])

SetRow(s, row) == [rowDep EXCEPT ![req[s].die][req[s].block] = row]
NandQueueOfBuffer(pass) == IF pass THEN "nand" ELSE "bufDep"
NandQueue(pass) == IF pass THEN "nand" ELSE "rowDep"

\* The queues once s is put on queue q, starting from dma0, nand0 and row0.
PutOn(q, s, dma0, nand0, row0) ==
    /\ nvmeDmaReqQ' = IF q = "dma" THEN Append(dma0, s) ELSE dma0
    /\ nandReqQ' = IF q = "nand" THEN [nand0 EXCEPT ![req[s].die] = Append(@, s)] ELSE nand0
    /\ blockedByRowAddrDepReqQ' =
          IF q = "rowDep" THEN [row0 EXCEPT ![req[s].die] = Append(@, s)] ELSE row0

-----------------------------------------------------------------------------
(* Completion: PutToFreeReqQ and ReleaseBlockedByBufDepReq, which gives the *)
(* buffer to the next request of the chain.                                 *)

ReleaseBlockedByBufDepReq(s, dma0, nand0) ==
    LET t == nextBlockingReq[s]
        b == req[s].buf
        released == t # NONE /\ queue[t] = "bufDep"
        check == CheckRowAddrDep(t, "release")
        q == IF IsDma(t) THEN "dma" ELSE NandQueue(check.pass)
    IN  /\ nextBlockingReq' = [nextBlockingReq EXCEPT ![s] = NONE]
        /\ prevBlockingReq' = IF t = NONE THEN prevBlockingReq
                              ELSE [prevBlockingReq EXCEPT ![t] = NONE]
        /\ blockingReqTail' = IF b # NONE /\ blockingReqTail[b] = s
                              THEN [blockingReqTail EXCEPT ![b] = NONE]
                              ELSE blockingReqTail
        /\ queue' = IF released THEN [queue EXCEPT ![s] = "free", ![t] = q]
                    ELSE [queue EXCEPT ![s] = "free"]
        /\ IF released THEN PutOn(q, t, dma0, nand0, blockedByRowAddrDepReqQ)
           ELSE PutOn("free", s, dma0, nand0, blockedByRowAddrDepReqQ)
        /\ rowDep' = IF released /\ ~IsDma(t) THEN SetRow(t, check.row) ELSE rowDep
        /\ req' = [req EXCEPT ![s] = NoReq]
        /\ order' = Without(order, s)

-----------------------------------------------------------------------------
(* The scheduler runs in the main loop and in the loops that wait for a     *)
(* free entry (SyncAvailFreeReq) and for an erase to be released            *)
(* (SyncReleaseEraseReq).                                                   *)

WaitsForEntry ==
    /\ Free = {}
    /\ selecting = NONE
    /\ toSplit > 0 \/ (todo # <<>> /\ Head(todo).from = "new")
WaitsForErase == selecting # NONE /\ IsRead(selecting) /\ Row(selecting).blockedEraseReqFlag
Walking == dmaWalk # 0 \/ rowWalk # <<>>
PollingForEntries == ~Walking /\ (CpuIdle \/ WaitsForEntry)
Polling == ~Walking /\ (CpuIdle \/ WaitsForEntry \/ WaitsForErase)

\* The DMA engine finishes the transfers of one direction in order.
DmaEngine(i) ==
    LET s == nvmeDmaReqQ[i]
    IN  /\ s \notin hwDone
        /\ \A j \in 1 .. i - 1 :
              req[nvmeDmaReqQ[j]].code = req[s].code => nvmeDmaReqQ[j] \in hwDone
        /\ hwDone' = hwDone \cup {s}
        /\ UNCHANGED <<queue, req, chains, queues, rowDep, walks, cpu, ftl, order, programmed>>

\* CheckDoneNvmeDmaReq walks from the tail to the head.  A walk that finds
\* nothing done changes nothing and is not a step.
StartCheckDone ==
    /\ Polling
    /\ \E i \in 1 .. Len(nvmeDmaReqQ) : nvmeDmaReqQ[i] \in hwDone
    /\ dmaWalk' = Len(nvmeDmaReqQ)
    /\ UNCHANGED <<queue, req, chains, queues, rowDep, hwDone, rowWalk, cpu, ftl, order, programmed>>

CheckDoneNvmeDmaReq ==
    /\ dmaWalk # 0
    /\ dmaWalk' = dmaWalk - 1
    /\ LET s == nvmeDmaReqQ[dmaWalk]
       IN  IF s \in hwDone
           THEN /\ ReleaseBlockedByBufDepReq(s, Without(nvmeDmaReqQ, s), nandReqQ)
                /\ hwDone' = hwDone \ {s}
           ELSE UNCHANGED <<queue, req, chains, queues, rowDep, hwDone, order>>
    /\ UNCHANGED <<rowWalk, cpu, ftl, programmed>>

\* A die finishes the request at the head of its queue and SchedulingNandReq
\* sees it (GetFromNandReqQ).
NandDone(d) ==
    /\ Polling
    /\ nandReqQ[d] # <<>>
    /\ LET s == Head(nandReqQ[d])
           b == req[s].block
       IN  /\ ReleaseBlockedByBufDepReq(s, nvmeDmaReqQ, [nandReqQ EXCEPT ![d] = Tail(@)])
           /\ programmed' = CASE req[s].code = "read"  -> programmed
                              [] req[s].code = "write" -> [programmed EXCEPT ![d][b] = req[s].page + 1]
                              [] req[s].code = "erase" -> [programmed EXCEPT ![d][b] = 0]
    /\ UNCHANGED <<hwDone, walks, cpu, ftl>>

\* ReleaseBlockedByRowAddrDepReq, called for a die that has nothing to do;
\* again only walks that release something are steps.
StartReleaseRow(d) ==
    /\ Polling
    /\ nandReqQ[d] = <<>>
    /\ \E i \in 1 .. Len(blockedByRowAddrDepReqQ[d]) :
          CheckRowAddrDep(blockedByRowAddrDepReqQ[d][i], "release").pass
    /\ rowWalk' = <<d, 1>>
    /\ UNCHANGED <<queue, req, chains, queues, rowDep, hwDone, dmaWalk, cpu, ftl, order, programmed>>

ReleaseBlockedByRowAddrDepReq ==
    /\ rowWalk # <<>>
    /\ LET d == rowWalk[1]
           i == rowWalk[2]
           q == blockedByRowAddrDepReqQ[d]
           check == CheckRowAddrDep(q[i], "release")
       IN  IF i > Len(q)
           THEN rowWalk' = <<>> /\ UNCHANGED <<queue, nandReqQ, blockedByRowAddrDepReqQ, rowDep>>
           ELSE /\ rowDep' = SetRow(q[i], check.row)
                /\ IF check.pass
                   THEN /\ queue' = [queue EXCEPT ![q[i]] = "nand"]
                        /\ nandReqQ' = [nandReqQ EXCEPT ![d] = Append(@, q[i])]
                        /\ blockedByRowAddrDepReqQ' =
                              [blockedByRowAddrDepReqQ EXCEPT ![d] = Without(@, q[i])]
                        /\ UNCHANGED rowWalk
                   ELSE /\ rowWalk' = <<d, i + 1>>
                        /\ UNCHANGED <<queue, nandReqQ, blockedByRowAddrDepReqQ>>
    /\ UNCHANGED <<req, chains, nvmeDmaReqQ, hwDone, dmaWalk, cpu, ftl, order, programmed>>

-----------------------------------------------------------------------------
(* What AddrTransWrite does to a die, as the requests see it: the page it   *)
(* returns and the requests of the collection it may need.                  *)

Allocation(d, gc, b, p, page, free) ==
    [die |-> d, gc |-> gc, block |-> b, page |-> p, currentPage |-> page, free |-> free]

FromCurrent(d) ==
    LET b == currentBlock[d]
        p == currentPage[d][b]
    IN  IF p < PAGES
        THEN {Allocation(d, <<>>, b, p, [currentPage[d] EXCEPT ![b] = p + 1], freeBlocks[d])}
        ELSE {}

FromNewBlock(d) ==
    IF currentPage[d][currentBlock[d]] = PAGES /\ Cardinality(freeBlocks[d]) > 1
    THEN {Allocation(d, <<>>, b, 0, [currentPage[d] EXCEPT ![b] = 1], freeBlocks[d] \ {b}) :
             b \in freeBlocks[d]}
    ELSE {}

\* The valid pages of a victim, in the order GarbageCollection copies them.
CopyOrders == {c \in UNION {[1 .. n -> Pages] : n \in 0 .. PAGES - 1} :
                  \A i, j \in DOMAIN c : i < j => c[i] < c[j]}

\* GarbageCollection copies through the temporary buffer of the die to the
\* reserve block b, then EraseBlock.
Collection(d, victim, copies, b) ==
    [i \in 1 .. 2 * Len(copies) |->
        IF i % 2 = 1 THEN Request("read", d, d, victim, copies[(i + 1) \div 2], "new")
        ELSE Request("write", d, d, b, i \div 2 - 1, "new")]
    \o <<Request("erase", NONE, d, victim, currentPage[d][victim], "new")>>

\* Some victim has an invalid page; a fully invalid one is not the current
\* block (see ErasesCurrentBlock of AddressTranslation).
AfterCollection(d) ==
    IF currentPage[d][currentBlock[d]] = PAGES /\ Cardinality(freeBlocks[d]) = 1
    THEN {Allocation(d, Collection(d, m[1], m[2], m[3]), m[3], Len(m[2]),
                     [currentPage[d] EXCEPT ![m[1]] = 0, ![m[3]] = Len(m[2]) + 1], {m[1]}) :
             m \in {x \in (Blocks \ freeBlocks[d]) \X CopyOrders \X freeBlocks[d] :
                       /\ currentPage[d][x[1]] = PAGES
                       /\ x[1] = currentBlock[d] => x[2] # <<>>}}
    ELSE {}

AddrTransWrite == UNION {FromCurrent(d) \cup FromNewBlock(d) \cup AfterCollection(d) : d \in Dies}

-----------------------------------------------------------------------------
(* The CPU.  Handling a slice fixes the requests it will create; they are   *)
(* then created and selected one by one.                                    *)

\* EvictDataBufEntry (and one turn of FlushDataBuf): the write of a dirty
\* buffer, after the collection its page needed.
EvictDataBufEntry(b, a) ==
    <<Hold>> \o a.gc \o <<Request("write", b, a.die, a.block, a.page, "held")>>

Remap(a) ==
    /\ currentBlock' = [currentBlock EXCEPT ![a.die] = a.block]
    /\ currentPage' = [currentPage EXCEPT ![a.die] = a.currentPage]
    /\ freeBlocks' = [freeBlocks EXCEPT ![a.die] = a.free]

\* DataReadFromNand reads a page of the mapping, or nothing if the slice was
\* never written.
Reads(b) ==
    {<<>>} \cup
    {<<Request("read", b, m[1], m[2], m[3], "new")>> :
        m \in {x \in Dies \X Blocks \X Pages : x[3] < currentPage'[x[1]][x[2]]}}

Transfer(b, code) == <<Request(code, b, NONE, NONE, NONE, "slice")>>

\* ReqTransNvmeToSlice for a command of k slices.
StartCommand(k) ==
    /\ CpuIdle /\ ~Walking
    /\ toSplit' = k
    /\ UNCHANGED <<queue, req, chains, queues, rowDep, hwDone, walks, sliceReqQ, slice, held, todo,
                   selecting, bufBlocked, toFlush, ftl, order, programmed>>

SplitSlice ==
    /\ ~Walking
    /\ toSplit > 0
    /\ \E s \in Free :
          /\ queue' = [queue EXCEPT ![s] = "slice"]
          /\ sliceReqQ' = Append(sliceReqQ, s)
    /\ toSplit' = toSplit - 1
    /\ UNCHANGED <<req, chains, queues, rowDep, hwDone, walks, slice, held, todo, selecting,
                   bufBlocked, toFlush, ftl, order, programmed>>

TakeSlice ==
    /\ ~Walking
    /\ toSplit = 0 /\ sliceReqQ # <<>> /\ todo = <<>> /\ selecting = NONE
    /\ slice' = Head(sliceReqQ)
    /\ sliceReqQ' = Tail(sliceReqQ)
    /\ queue' = [queue EXCEPT ![Head(sliceReqQ)] = "cpu"]
    /\ UNCHANGED <<req, chains, queues, rowDep, hwDone, walks, toSplit, held, selecting,
                   bufBlocked, toFlush, order, programmed>>

\* The slice is in buffer b already.
BufferHit(b, code) ==
    /\ TakeSlice
    /\ todo' = Transfer(b, code)
    /\ dirty' = IF code = "rx" THEN dirty \cup {b} ELSE dirty
    /\ UNCHANGED <<currentBlock, currentPage, freeBlocks>>

\* Buffer b is taken from another slice.  A read fetches its slice from the
\* flash.  A write of a part of a slice should too, but stops in an assertion
\* of DataReadFromNand (see CachedStore); a write here covers its slice.
Fetch(b, code) == IF code = "tx" THEN Reads(b) ELSE {<<>>}
BufferMiss(b, code) ==
    /\ TakeSlice
    /\ dirty' = IF code = "rx" THEN dirty \cup {b} ELSE dirty \ {b}
    /\ \/ /\ b \notin dirty
          /\ UNCHANGED <<currentBlock, currentPage, freeBlocks>>
          /\ \E r \in Fetch(b, code) : todo' = r \o Transfer(b, code)
       \/ /\ b \in dirty
          /\ \E a \in AddrTransWrite :
                /\ Remap(a)
                /\ \E r \in Fetch(b, code) :
                      todo' = EvictDataBufEntry(b, a) \o r \o Transfer(b, code)

\* FlushDataBuf walks the LRU list once, in an order left open here.
StartFlush ==
    /\ CpuIdle /\ ~Walking
    /\ dirty # {}
    /\ toFlush' = dirty
    /\ UNCHANGED <<queue, req, chains, queues, rowDep, hwDone, walks, toSplit, sliceReqQ, slice, held,
                   todo, selecting, bufBlocked, ftl, order, programmed>>

FlushDataBuf ==
    /\ toFlush # {} /\ ~Walking
    /\ todo = <<>> /\ selecting = NONE
    /\ \E b \in toFlush, a \in AddrTransWrite :
          /\ Remap(a)
          /\ todo' = EvictDataBufEntry(b, a)
          /\ dirty' = dirty \ {b}
          /\ toFlush' = toFlush \ {b}
    /\ UNCHANGED <<queue, req, chains, queues, rowDep, hwDone, walks, toSplit, sliceReqQ, slice, held,
                   selecting, bufBlocked, order, programmed>>

\* GetFromFreeReqQ for the entry EvictDataBufEntry will use later.
HoldEntry ==
    /\ ~Walking
    /\ selecting = NONE /\ todo # <<>> /\ Head(todo) = Hold
    /\ \E s \in Free : held' = s /\ queue' = [queue EXCEPT ![s] = "cpu"]
    /\ todo' = Tail(todo)
    /\ UNCHANGED <<req, chains, queues, rowDep, hwDone, walks, toSplit, sliceReqQ, slice, selecting,
                   bufBlocked, toFlush, ftl, order, programmed>>

\* A request is filled in and appended to the chain of its buffer
\* (UpdateDataBufEntryInfoBlockingReq); SelectLowLevelReqQ begins with CheckBufDep.
CreateRequest(s) ==
    /\ ~Walking
    /\ selecting = NONE /\ todo # <<>> /\ Head(todo) # Hold
    /\ s = CASE Head(todo).from = "held" -> held
             [] Head(todo).from = "slice" -> slice
             [] OTHER -> IF queue[s] = "free" THEN s ELSE NONE
    /\ LET b == Head(todo).buf
           t == IF b = NONE THEN NONE ELSE blockingReqTail[b]
       IN  /\ blockingReqTail' = IF b = NONE THEN blockingReqTail ELSE [blockingReqTail EXCEPT ![b] = s]
           /\ prevBlockingReq' = IF t = NONE THEN prevBlockingReq ELSE [prevBlockingReq EXCEPT ![s] = t]
           /\ nextBlockingReq' = IF t = NONE THEN nextBlockingReq ELSE [nextBlockingReq EXCEPT ![t] = s]
    /\ queue' = [queue EXCEPT ![s] = "cpu"]
    /\ req' = [req EXCEPT ![s] = Head(todo)]
    /\ held' = IF s = held THEN NONE ELSE held
    /\ slice' = IF s = slice THEN NONE ELSE slice
    /\ todo' = Tail(todo)
    /\ selecting' = s
    /\ bufBlocked' = (prevBlockingReq'[s] # NONE)
    /\ order' = Append(order, s)
    /\ UNCHANGED <<queues, rowDep, hwDone, walks, toSplit, sliceReqQ, toFlush, ftl, programmed>>

-----------------------------------------------------------------------------
(* SelectLowLevelReqQ, after the loop of SyncReleaseEraseReq if it waits.   *)

Selected(q, row) ==
    /\ PutOn(q, selecting, nvmeDmaReqQ, nandReqQ, blockedByRowAddrDepReqQ)
    /\ queue' = [queue EXCEPT ![selecting] = q]
    /\ rowDep' = row
    /\ selecting' = NONE
    /\ bufBlocked' = FALSE
    /\ UNCHANGED <<req, chains, hwDone, walks, toSplit, sliceReqQ, slice, held, todo, toFlush, ftl,
                   order, programmed>>

Selectable == selecting # NONE /\ ~Walking /\ ~WaitsForErase
BlockedReadUncounted == rowDep
OneMoreBlockedRead == SetRow(selecting, [Row(selecting) EXCEPT !.blockedReadReqCnt = @ + 1])

SelectDmaAtOnce ==
    /\ Selectable /\ IsDma(selecting)
    /\ Selected("dma", rowDep)

SelectDma ==
    /\ Selectable /\ IsDma(selecting)
    /\ Selected(IF bufBlocked THEN "bufDep" ELSE "dma", rowDep)

SelectNand ==
    /\ Selectable /\ ~IsDma(selecting) /\ ~bufBlocked
    /\ LET check == CheckRowAddrDep(selecting, "select")
       IN  Selected(NandQueue(check.pass), SetRow(selecting, check.row))

\* UpdateRowAddrDepTableForBufBlockedReq: the buffer may have become free
\* while the CPU waited for the erase.
SelectBufBlockedRead ==
    /\ Selectable /\ IsRead(selecting) /\ bufBlocked
    /\ CASE prevBlockingReq[selecting] # NONE -> Selected("bufDep", OneMoreBlockedRead)
         [] prevBlockingReq[selecting] = NONE
              /\ req[selecting].page < Row(selecting).permittedProgPage -> Selected("nand", rowDep)
         [] OTHER -> Selected("rowDep", OneMoreBlockedRead)

\* A write waits for its buffer; an erase has none.
SelectBufBlockedWrite ==
    /\ Selectable /\ req[selecting].code = "write" /\ bufBlocked
    /\ Selected("bufDep", rowDep)

-----------------------------------------------------------------------------
Split     == SplitSlice
Transform == \E b \in Bufs, code \in HostCodes : BufferHit(b, code) \/ BufferMiss(b, code)
Create    == HoldEntry \/ \E s \in Slots : CreateRequest(s)
Select    == SelectDma \/ SelectNand \/ SelectBufBlockedRead \/ SelectBufBlockedWrite
Host      == (\E k \in 1 .. MaxSlices : StartCommand(k)) \/ StartFlush
Cpu       == Split \/ Transform \/ FlushDataBuf \/ Create \/ Select
Scheduler == StartCheckDone \/ CheckDoneNvmeDmaReq
             \/ ReleaseBlockedByRowAddrDepReq \/ (\E d \in Dies : StartReleaseRow(d))

Engine == \E i \in 1 .. Len(nvmeDmaReqQ) : DmaEngine(i)

Next == Host \/ Cpu \/ Scheduler \/ Engine \/ \E d \in Dies : NandDone(d)

Spec == Init /\ [][Next]_vars

\* The CPU never stops, the DMA engine finishes what it was given, and every
\* die finishes the request it is busy with.  The scheduler visits every die.
Fairness ==
    /\ WF_vars(Cpu)
    /\ WF_vars(Engine)
    /\ WF_vars(StartCheckDone \/ CheckDoneNvmeDmaReq)
    /\ WF_vars(ReleaseBlockedByRowAddrDepReq)
    /\ \A d \in Dies : WF_vars(NandDone(d)) /\ WF_vars(StartReleaseRow(d))

FairSpec == Spec /\ Fairness

\* A page is about to be programmed, or a block erased, while the request that
\* did the same before the last collection of the block still waits.
\* CheckRowAddrDep tells the two apart only by their page numbers, which are equal.
RefilledBeforeErase ==
    \E i \in 1 .. Len(todo), s \in Slots :
        /\ todo[i].code \in {"write", "erase"}
        /\ queue[s] \in {"bufDep", "rowDep"}
        /\ req[s].code = todo[i].code /\ req[s].page = todo[i].page
        /\ req[s].die = todo[i].die /\ req[s].block = todo[i].block

SpecUnlessRefilled == Init /\ [][Next /\ ~RefilledBeforeErase']_vars
-----------------------------------------------------------------------------
(* Properties.                                                             *)

Codes  == {"rx", "tx", "read", "write", "erase"}
Queues == {"free", "cpu", "slice", "bufDep", "rowDep", "nand", "dma"}
Requests ==
    [code : Codes, buf : AllBufs \cup {NONE}, die : Dies \cup {NONE}, block : Blocks \cup {NONE},
     page : 0 .. PAGES \cup {NONE}, from : {"new", "held", "slice"}]

TypeOK ==
    /\ queue \in [Slots -> Queues]
    /\ req \in [Slots -> Requests \cup {NoReq}]
    /\ prevBlockingReq \in [Slots -> Slots \cup {NONE}]
    /\ nextBlockingReq \in [Slots -> Slots \cup {NONE}]
    /\ blockingReqTail \in [AllBufs -> Slots \cup {NONE}]
    /\ nvmeDmaReqQ \in Seq(Slots)
    /\ nandReqQ \in [Dies -> Seq(Slots)]
    /\ blockedByRowAddrDepReqQ \in [Dies -> Seq(Slots)]
    /\ rowDep \in [Dies -> [Blocks -> [permittedProgPage : 0 .. PAGES, blockedReadReqCnt : Nat,
                                       blockedEraseReqFlag : BOOLEAN]]]
    /\ hwDone \in SUBSET Slots
    /\ dmaWalk \in Nat
    /\ rowWalk \in {<<>>} \cup (Dies \X Nat)
    /\ toSplit \in 0 .. MaxSlices
    /\ sliceReqQ \in Seq(Slots)
    /\ slice \in Slots \cup {NONE}
    /\ held \in Slots \cup {NONE}
    /\ todo \in Seq(Requests \cup {Hold})
    /\ selecting \in Slots \cup {NONE}
    /\ bufBlocked \in BOOLEAN
    /\ toFlush \in SUBSET Bufs
    /\ dirty \in SUBSET Bufs
    /\ currentBlock \in [Dies -> Blocks]
    /\ currentPage \in [Dies -> [Blocks -> 0 .. PAGES]]
    /\ freeBlocks \in [Dies -> SUBSET Blocks]
    /\ order \in Seq(Slots)
    /\ programmed \in [Dies -> [Blocks -> 0 .. PAGES]]

Running(s) == queue[s] \in {"rowDep", "nand", "dma"}
OnBlock(s, code, d, b) == req[s] # NoReq /\ req[s].code = code /\ req[s].die = d /\ req[s].block = b

\* At most one request of a data buffer has left the chain: a buffer is never
\* filled by one request while another still reads it (CheckBufDep,
\* ReleaseBlockedByBufDepReq).
BufferExclusive ==
    \A s, t \in Slots : s # t /\ Running(s) /\ Running(t) =>
        req[s].buf = NONE \/ req[s].buf # req[t].buf

\* blockedReadReqCnt, kept up to date in five places, is the number of reads
\* of the block that wait for a buffer or for a page; an erase passes when it is 0.
BlockedReadsExact ==
    \A d \in Dies, b \in Blocks :
        rowDep[d][b].blockedReadReqCnt =
            Cardinality({s \in Slots : queue[s] \in {"bufDep", "rowDep"} /\ OnBlock(s, "read", d, b)})

\* While blockedEraseReqFlag is set the erase it stands for is where the
\* scheduler will find it; otherwise SyncReleaseEraseReq would wait for ever.
BlockedEraseFound ==
    \A d \in Dies, b \in Blocks : rowDep[d][b].blockedEraseReqFlag <=>
        \E i \in 1 .. Len(blockedByRowAddrDepReqQ[d]) :
            OnBlock(blockedByRowAddrDepReqQ[d][i], "erase", d, b)

\* Flash pages are programmed in order from 0 after each erase, and a block is
\* erased only when it is fully programmed, whatever order the requests were
\* released in (permittedProgPage against the die's queue).
ProgramOrder ==
    \A d \in Dies : nandReqQ[d] # <<>> =>
        LET r == req[Head(nandReqQ[d])]
        IN  /\ r.code = "write" => r.page = programmed[d][r.block]
            /\ r.code = "erase" => PAGES = programmed[d][r.block]

\* Two requests whose order matters: they share a buffer, program one block,
\* or one of them erases what the other uses.
Conflict(s, t) ==
    \/ req[s].buf # NONE /\ req[s].buf = req[t].buf
    \/ /\ ~IsDma(s) /\ ~IsDma(t)
       /\ <<req[s].die, req[s].block>> = <<req[t].die, req[t].block>>
       /\ "erase" \in {req[s].code, req[t].code} \/ (~IsRead(s) /\ ~IsRead(t))

Completes(s) == queue[s] \in {"nand", "dma"} /\ queue'[s] = "free"

\* No request completes before an earlier one it conflicts with.
InOrder ==
    [][\A i \in 1 .. Len(order) : Completes(order[i]) =>
          \A j \in 1 .. i - 1 : ~Conflict(order[j], order[i])]_vars

\* A flash read reaches the die after the program of its page ("Before
\* performing read operation the a block, we should ensure the pending write
\* and erase requests are already finished", CheckRowAddrDep).
ReadAfterProgram ==
    \A d \in Dies : nandReqQ[d] # <<>> =>
        LET r == req[Head(nandReqQ[d])]
        IN  r.code = "read" => r.page < programmed[d][r.block]

\* Once the host sends nothing more, every request is eventually done and the
\* whole pool is free again: nobody waits for ever in a Sync loop.
AllDone == CpuIdle /\ Free = Slots
Drains == <>[][~Host]_vars => <>[]AllDone
=============================================================================
