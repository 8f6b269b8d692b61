---------------------- MODULE RequestDependency_proofs ----------------------
(***************************************************************************)
(* For every pool of requests, set of buffers, number of dies, blocks and  *)
(* pages: at most one request of a buffer runs, the counts of blocked      *)
(* reads are exact, the dies program in order; and, as long as no block is *)
(* filled again while its erase waits, a flag stands for an erase that the *)
(* scheduler will find, and no request completes before an earlier one it  *)
(* conflicts with.                                                         *)
(*                                                                         *)
(* Every step is of one of five kinds (StepIs): nothing happens to a       *)
(* request, the CPU creates one, the CPU puts it on a queue, a request is  *)
(* released to its die, or one ends and releases the next of its buffer.   *)
(* What these kinds do to the rows of the dependency table is one          *)
(* operator (RowMoves), so the proofs go by kind and never by path through *)
(* SelectLowLevelReqQ.                                                     *)
(*                                                                         *)
(* The first invariant (IInv) has the lists and their tags (Base), the     *)
(* counts, the chains of the buffers (ChainInv) and what is queued at the  *)
(* dies (RowInv).  The second (OrderedInv) adds what waits and what is     *)
(* still to be asked for (WaitInv): both lead each block on, page by page, *)
(* to where the mapping has it.  CheckRowAddrDep knows a request only by   *)
(* its page; WaitDistinct says that this is enough.                        *)
(***************************************************************************)
EXTENDS RequestDependency, LinkedLists_proofs, FiniteSetTheorems, WellFoundedInduction

\* The codes of the requests that go to the flash, and of those that change a block.
NandCodes == {"read", "write", "erase"}
ModCodes == {"write", "erase"}

\* A low-level request as the CPU makes it.
Proper ==
    {r \in Requests :
        /\ r.code \in {"rx", "tx"} => r.buf \in Bufs
        /\ r.code \in NandCodes => r.die \in Dies /\ r.block \in Blocks
        /\ r.code \in {"read", "write"} => r.buf \in AllBufs /\ r.page \in Pages
        /\ r.code = "erase" => r.buf = NONE /\ r.page = PAGES}

\* An entry of rowAddrDependencyTable.
Rows == [permittedProgPage : 0 .. PAGES, blockedReadReqCnt : Int, blockedEraseReqFlag : BOOLEAN]

\* The types, in the parts that the actions leave alone together: the requests and
\* their queues, the walks of the scheduler, the state of the CPU, and the blocks.
TypedRequests ==
    /\ queue \in [Slots -> Queues]
    /\ req \in [Slots -> Proper \cup {NoReq}]
    /\ prevBlockingReq \in [Slots -> Slots \cup {NONE}]
    /\ nextBlockingReq \in [Slots -> Slots \cup {NONE}]
    /\ blockingReqTail \in [AllBufs -> Slots \cup {NONE}]
    /\ nvmeDmaReqQ \in Seq(Slots)
    /\ nandReqQ \in [Dies -> Seq(Slots)]
    /\ blockedByRowAddrDepReqQ \in [Dies -> Seq(Slots)]
    /\ rowDep \in [Dies -> [Blocks -> Rows]]
    /\ order \in Seq(Slots)
TypedWalks ==
    /\ hwDone \in SUBSET Slots
    /\ dmaWalk \in 0 .. Len(nvmeDmaReqQ)
    /\ rowWalk \in {<<>>} \cup (Dies \X (Nat \ {0}))
TypedCpu ==
    /\ toSplit \in 0 .. MaxSlices
    /\ sliceReqQ \in Seq(Slots)
    /\ slice \in Slots \cup {NONE}
    /\ held \in Slots \cup {NONE}
    /\ todo \in Seq(Proper \cup {Hold})
    /\ selecting \in Slots \cup {NONE}
    /\ bufBlocked \in BOOLEAN
    /\ toFlush \in SUBSET Bufs
TypedFlash ==
    /\ dirty \in SUBSET Bufs
    /\ currentBlock \in [Dies -> Blocks]
    /\ currentPage \in [Dies -> [Blocks -> 0 .. PAGES]]
    /\ freeBlocks \in [Dies -> SUBSET Blocks]
    /\ programmed \in [Dies -> [Blocks -> 0 .. PAGES]]
Typed == TypedRequests /\ TypedWalks /\ TypedCpu /\ TypedFlash

\* Entry s holds a request; it waits for its buffer or for its row.
Live(s) == req[s].code # "none"
Blocked(s) == queue[s] \in {"bufDep", "rowDep"}

\* What the code of a live request says of its other fields.
LEMMA LiveRequest ==
    ASSUME TypedRequests, NEW s \in Slots, Live(s)
    PROVE  /\ req[s] \in Proper /\ req[s] \in Requests /\ req[s].code \in Codes /\ req[s] # NoReq
           /\ req[s].code \in {"rx", "tx"} => req[s].buf \in Bufs
           /\ req[s].code \in NandCodes => req[s].die \in Dies /\ req[s].block \in Blocks /\ Row(s) \in Rows
           /\ req[s].code \in {"read", "write"} => req[s].buf \in AllBufs /\ req[s].page \in Pages
           /\ req[s].code = "erase" => req[s].buf = NONE /\ req[s].page = PAGES
           /\ req[s].buf \in AllBufs \cup {NONE}
<1>1. req[s] \in Proper \cup {NoReq}
  BY DEF TypedRequests
<1>2. req[s] # NoReq
  BY DEF Live, NoReq
<1>3. req[s] \in Proper /\ req[s] \in Requests
  BY <1>1, <1>2 DEF Proper
<1>4. req[s].code \in NandCodes => req[s].die \in Dies /\ req[s].block \in Blocks
  BY <1>3 DEF Proper
<1>5. req[s].code \in NandCodes => Row(s) \in Rows
  BY <1>4 DEF Row, TypedRequests
<1>6. req[s].code \in Codes /\ req[s].buf \in AllBufs \cup {NONE}
  BY <1>3 DEF Requests
<1>. QED
  BY <1>2, <1>3, <1>4, <1>5, <1>6 DEF Proper

\* CheckRowAddrDep, code by code: a read is counted when it has to wait, and no
\* longer counted when it is released;
LEMMA CheckRead ==
    ASSUME NEW s, req[s].code = "read"
    PROVE  /\ CheckRowAddrDep(s, "select") =
                IF req[s].page <= Row(s).permittedProgPage THEN [pass |-> TRUE, row |-> Row(s)]
                ELSE [pass |-> FALSE, row |-> [Row(s) EXCEPT !.blockedReadReqCnt = @ + 1]]
           /\ CheckRowAddrDep(s, "release") =
                IF req[s].page < Row(s).permittedProgPage
                THEN [pass |-> TRUE, row |-> [Row(s) EXCEPT !.blockedReadReqCnt = @ - 1]]
                ELSE [pass |-> FALSE, row |-> Row(s)]
  BY DEF CheckRowAddrDep, ReadPasses

\* a write passes when its page is the next of the row, and moves the row on;
LEMMA CheckWrite ==
    ASSUME NEW s, NEW opt, req[s].code = "write"
    PROVE  CheckRowAddrDep(s, opt) =
                IF req[s].page = Row(s).permittedProgPage
                THEN [pass |-> TRUE, row |-> [Row(s) EXCEPT !.permittedProgPage = @ + 1]]
                ELSE [pass |-> FALSE, row |-> Row(s)]
  BY DEF CheckRowAddrDep, WritePasses

\* an erase passes when the row is full and no read waits, and leaves its flag
\* where it is first asked for.
LEMMA CheckErase ==
    ASSUME TypedRequests, NEW s \in Slots, req[s].code = "erase", NEW opt \in {"select", "release"}
    PROVE  CheckRowAddrDep(s, opt) =
                IF req[s].page = Row(s).permittedProgPage /\ Row(s).blockedReadReqCnt = 0
                THEN [pass |-> TRUE, row |-> [Row(s) EXCEPT !.permittedProgPage = 0, !.blockedEraseReqFlag = FALSE]]
                ELSE [pass |-> FALSE,
                      row |-> IF opt = "select" THEN [Row(s) EXCEPT !.blockedEraseReqFlag = TRUE] ELSE Row(s)]
<1>1. Row(s) \in Rows
  BY LiveRequest DEF NandCodes, Live
<1>2. CheckRowAddrDep(s, opt) =
                IF req[s].page = Row(s).permittedProgPage /\ Row(s).blockedReadReqCnt = 0
                THEN [pass |-> TRUE, row |-> [Row(s) EXCEPT !.permittedProgPage = 0, !.blockedEraseReqFlag = FALSE]]
                ELSE [pass |-> FALSE, row |-> [Row(s) EXCEPT !.blockedEraseReqFlag = @ \/ opt = "select"]]
  BY DEF CheckRowAddrDep, ErasePasses
<1>3. Row(s).blockedEraseReqFlag \in BOOLEAN
  BY <1>1 DEF Rows
<1>4. CASE opt = "select"
  <2>1. (Row(s).blockedEraseReqFlag \/ opt = "select") = TRUE
    BY <1>4, Zenon
  <2>. QED
    BY <1>2, <1>4, <2>1, Zenon
<1>5. CASE opt = "release"
  <2>1. (Row(s).blockedEraseReqFlag \/ opt = "select") = Row(s).blockedEraseReqFlag
    BY <1>3, <1>5
  <2>2. [Row(s) EXCEPT !.blockedEraseReqFlag = Row(s).blockedEraseReqFlag] = Row(s)
    BY <1>1 DEF Rows
  <2>3. [Row(s) EXCEPT !.blockedEraseReqFlag = @ \/ opt = "select"] = Row(s)
    BY <2>1, <2>2, Zenon
  <2>4. opt # "select"
    BY <1>5
  <2>. QED
    BY <1>2, <2>3, <2>4, Zenon
<1>. QED
  BY <1>4, <1>5

\* Whatever the request, the answer has a row of the table.
LEMMA CheckTyped ==
    ASSUME TypedRequests, NEW s \in Slots, req[s].code \in NandCodes, NEW opt \in {"select", "release"}
    PROVE  CheckRowAddrDep(s, opt).pass \in BOOLEAN /\ CheckRowAddrDep(s, opt).row \in Rows
<1> DEFINE c == CheckRowAddrDep(s, opt)
<1> SUFFICES c.pass \in BOOLEAN /\ c.row \in Rows
  OBVIOUS
<1>1. Row(s) \in Rows /\ (req[s].code = "write" => req[s].page \in Pages) /\ PAGES \in Nat \ {0}
  BY LiveRequest, GeometryAssumption DEF NandCodes, Live
<1>2. /\ Row(s).permittedProgPage \in 0 .. PAGES /\ Row(s).blockedReadReqCnt \in Int
      /\ Row(s).blockedEraseReqFlag \in BOOLEAN
  BY <1>1 DEF Rows
<1>3. CASE req[s].code = "read"
  <2>1. [Row(s) EXCEPT !.blockedReadReqCnt = @ + 1] \in Rows /\ [Row(s) EXCEPT !.blockedReadReqCnt = @ - 1] \in Rows
    BY <1>1, <1>2 DEF Rows
  <2>2. CASE opt = "select"
    <3>1. c = IF req[s].page <= Row(s).permittedProgPage THEN [pass |-> TRUE, row |-> Row(s)]
                ELSE [pass |-> FALSE, row |-> [Row(s) EXCEPT !.blockedReadReqCnt = @ + 1]]
      BY <1>3, <2>2, CheckRead
    <3> HIDE DEF c
    <3>. QED
      BY <1>1, <2>1, <3>1
  <2>3. CASE opt = "release"
    <3>1. c = IF req[s].page < Row(s).permittedProgPage
                THEN [pass |-> TRUE, row |-> [Row(s) EXCEPT !.blockedReadReqCnt = @ - 1]]
                ELSE [pass |-> FALSE, row |-> Row(s)]
      BY <1>3, <2>3, CheckRead
    <3> HIDE DEF c
    <3>. QED
      BY <1>1, <2>1, <3>1
  <2>. QED
    BY <2>2, <2>3
<1>4. CASE req[s].code = "write"
  <2>1. req[s].page = Row(s).permittedProgPage => [Row(s) EXCEPT !.permittedProgPage = @ + 1] \in Rows
    BY <1>1, <1>2, <1>4 DEF Rows, Pages
  <2>2. c = IF req[s].page = Row(s).permittedProgPage
                THEN [pass |-> TRUE, row |-> [Row(s) EXCEPT !.permittedProgPage = @ + 1]]
                ELSE [pass |-> FALSE, row |-> Row(s)]
    BY <1>4, CheckWrite
  <2> HIDE DEF c
  <2>. QED
    BY <1>1, <2>1, <2>2
<1>5. CASE req[s].code = "erase"
  <2>1. /\ [Row(s) EXCEPT !.permittedProgPage = 0, !.blockedEraseReqFlag = FALSE] \in Rows
        /\ [Row(s) EXCEPT !.blockedEraseReqFlag = TRUE] \in Rows
    <3>1. \A r \in Rows : [r EXCEPT !.permittedProgPage = 0] \in Rows
      BY <1>1 DEF Rows
    <3>2. \A r \in Rows : \A v \in BOOLEAN : [r EXCEPT !.blockedEraseReqFlag = v] \in Rows
      BY DEF Rows
    <3>3. [Row(s) EXCEPT !.permittedProgPage = 0, !.blockedEraseReqFlag = FALSE]
             = [[Row(s) EXCEPT !.permittedProgPage = 0] EXCEPT !.blockedEraseReqFlag = FALSE]
      OBVIOUS
    <3>4. FALSE \in BOOLEAN /\ TRUE \in BOOLEAN
      OBVIOUS
    <3>. QED
      BY <1>1, <3>1, <3>2, <3>3, <3>4
  <2>2. c = IF req[s].page = Row(s).permittedProgPage /\ Row(s).blockedReadReqCnt = 0
                THEN [pass |-> TRUE, row |-> [Row(s) EXCEPT !.permittedProgPage = 0, !.blockedEraseReqFlag = FALSE]]
                ELSE [pass |-> FALSE,
                      row |-> IF opt = "select" THEN [Row(s) EXCEPT !.blockedEraseReqFlag = TRUE] ELSE Row(s)]
    BY <1>5, CheckErase
  <2> HIDE DEF c
  <2>. QED
    BY <1>1, <2>1, <2>2
<1>. QED
  BY <1>3, <1>4, <1>5 DEF NandCodes
-----------------------------------------------------------------------------
\* The list of transfers, and a list for each die, hold the entries with their tag.
DmaList(q, tags) ==
    /\ q \in Seq(Slots) /\ Distinct(q)
    /\ \A x \in Slots : InList(q, x) <=> tags[x] = "dma"
DieLists(q, tag, tags, rq) ==
    /\ q \in [Dies -> Seq(Slots)]
    /\ \A d \in Dies : Distinct(q[d])
    /\ \A d \in Dies, x \in Slots : InList(q[d], x) <=> tags[x] = tag /\ rq[x].die = d

\* A request that is put on a queue is on the list of its new tag and on no other.
LEMMA PutOnLists ==
    ASSUME NEW tags \in [Slots -> Queues], NEW q \in Queues, NEW s \in Slots, NEW dma0, NEW nand0, NEW row0,
           DmaList(dma0, tags), DieLists(nand0, "nand", tags, req), DieLists(row0, "rowDep", tags, req),
           tags[s] \notin {"dma", "nand", "rowDep"}, q \in {"nand", "rowDep"} => req[s].die \in Dies,
           PutOn(q, s, dma0, nand0, row0)
    PROVE  LET after == [tags EXCEPT ![s] = q]
           IN  /\ DmaList(nvmeDmaReqQ', after)
               /\ DieLists(nandReqQ', "nand", after, req)
               /\ DieLists(blockedByRowAddrDepReqQ', "rowDep", after, req)
<1> DEFINE after == [tags EXCEPT ![s] = q]
<1>1. after \in [Slots -> Queues] /\ after[s] = q /\ \A x \in Slots \ {s} : after[x] = tags[x]
  OBVIOUS
<1> HIDE DEF after
<1>2. DmaList(nvmeDmaReqQ', after)
  <2>1. CASE q = "dma"
    <3>1. nvmeDmaReqQ' = Append(dma0, s)
      BY <2>1 DEF PutOn
    <3>2. /\ nvmeDmaReqQ' \in Seq(Slots) /\ Distinct(nvmeDmaReqQ')
          /\ \A x : InList(nvmeDmaReqQ', x) <=> InList(dma0, x) \/ x = s
      BY <3>1, AppendList DEF DmaList
    <3>. QED
      BY <1>1, <2>1, <3>2 DEF DmaList
  <2>2. CASE q # "dma"
    <3>1. nvmeDmaReqQ' = dma0
      BY <2>2 DEF PutOn
    <3>. QED
      BY <1>1, <2>2, <3>1 DEF DmaList
  <2>. QED
    BY <2>1, <2>2
<1>3. ASSUME NEW tag \in {"nand", "rowDep"}, NEW l0, DieLists(l0, tag, tags, req), NEW l1,
             l1 = IF q = tag THEN [l0 EXCEPT ![req[s].die] = Append(@, s)] ELSE l0
      PROVE  DieLists(l1, tag, after, req)
  <2>1. CASE q = tag
    <3> DEFINE e == req[s].die
    <3>1. e \in Dies
      BY <2>1
    <3>2. l0[e] \in Seq(Slots) /\ Distinct(l0[e]) /\ ~InList(l0[e], s)
      BY <1>3, <3>1 DEF DieLists
    <3>3. /\ Append(l0[e], s) \in Seq(Slots) /\ Distinct(Append(l0[e], s))
          /\ \A x : InList(Append(l0[e], s), x) <=> InList(l0[e], x) \/ x = s
      BY <3>2, AppendList
    <3>4. /\ l1 \in [Dies -> Seq(Slots)] /\ l1[e] = Append(l0[e], s)
          /\ \A d \in Dies \ {e} : l1[d] = l0[d]
      BY <1>3, <2>1, <3>1, <3>3 DEF DieLists
    <3>5. \A d \in Dies : Distinct(l1[d])
      BY <1>3, <3>3, <3>4 DEF DieLists
    <3>6. ASSUME NEW d \in Dies, NEW x \in Slots
          PROVE  InList(l1[d], x) <=> after[x] = tag /\ req[x].die = d
      BY <1>1, <1>3, <2>1, <3>2, <3>3, <3>4 DEF DieLists
    <3>. QED
      BY <3>4, <3>5, <3>6 DEF DieLists
  <2>2. CASE q # tag
    <3>1. \A x \in Slots : after[x] = tag <=> tags[x] = tag
      BY <1>1, <1>3, <2>2
    <3>. QED
      BY <1>3, <2>2, <3>1 DEF DieLists
  <2>. QED
    BY <2>1, <2>2
<1>4. DieLists(nandReqQ', "nand", after, req) /\ DieLists(blockedByRowAddrDepReqQ', "rowDep", after, req)
  BY <1>3 DEF PutOn
<1>. QED
  BY <1>2, <1>4 DEF after

\* The requests are on the queues their tags name, in the queue of their die.
ListsInv ==
    /\ DmaList(nvmeDmaReqQ, queue)
    /\ DieLists(nandReqQ, "nand", queue, req)
    /\ DieLists(blockedByRowAddrDepReqQ, "rowDep", queue, req)

\* What the tag of an entry says of its request, and what holds of the one the CPU
\* is about to put on a queue.
TagsInv ==
    /\ \A s \in Slots : Blocked(s) \/ Running(s) => Live(s)
    /\ \A s \in Slots : Live(s) => Blocked(s) \/ Running(s) \/ s = selecting
    /\ \A s \in Slots : queue[s] = "dma" => IsDma(s)
    /\ \A s \in Slots : queue[s] \in {"nand", "rowDep"} => req[s].code \in NandCodes
    /\ \A s \in Slots : queue[s] = "bufDep" => req[s].buf # NONE
    /\ selecting # NONE => queue[selecting] = "cpu" /\ Live(selecting)
    /\ selecting # NONE /\ ~IsRead(selecting) => ~Walking /\ (bufBlocked <=> prevBlockingReq[selecting] # NONE)
    /\ selecting # NONE /\ ~bufBlocked => prevBlockingReq[selecting] = NONE

\* The entries the CPU has taken and not yet filled in.
HeldInv ==
    /\ held # NONE => queue[held] = "cpu" /\ ~Live(held)
    /\ slice # NONE => queue[slice] = "cpu" /\ ~Live(slice)
    /\ Distinct(sliceReqQ)
    /\ \A x \in Slots : InList(sliceReqQ, x) => queue[x] = "slice" /\ ~Live(x)
-----------------------------------------------------------------------------
\* The end of request s releases the next one of its buffer, and this is where to.
Released(s) == nextBlockingReq[s] # NONE /\ queue[nextBlockingReq[s]] = "bufDep"
ReleasedTo(t) ==
    IF IsDma(t) THEN "dma" ELSE NandQueue(CheckRowAddrDep(t, "release").pass)

\* Request s is taken off its queue and completed.
Finishes(s, dma0, nand0) ==
    /\ s \in Slots /\ queue[s] \in {"nand", "dma"}
    /\ DmaList(dma0, [queue EXCEPT ![s] = "free"])
    /\ DieLists(nand0, "nand", [queue EXCEPT ![s] = "free"], req)
    /\ ReleaseBlockedByBufDepReq(s, dma0, nand0)

\* The end of a transfer that the walk finds, and of an operation of a die.
DmaFinished == dmaWalk # 0 /\ nvmeDmaReqQ[dmaWalk] \in hwDone /\ CheckDoneNvmeDmaReq

\* The end of a transfer the walk finds takes it off the list of transfers,
LEMMA FinishedDma ==
    ASSUME TypedRequests, TypedWalks, ListsInv, DmaFinished, NEW s, s = nvmeDmaReqQ[dmaWalk]
    PROVE  Finishes(s, Without(nvmeDmaReqQ, s), nandReqQ) /\ queue[s] = "dma"
           /\ Len(Without(nvmeDmaReqQ, s)) = Len(nvmeDmaReqQ) - 1
<1>1. dmaWalk \in 1 .. Len(nvmeDmaReqQ)
  BY LenProperties DEF DmaFinished, TypedWalks, TypedRequests
<1>2. s \in Slots /\ InList(nvmeDmaReqQ, s) /\ nvmeDmaReqQ \in Seq(Slots) /\ Distinct(nvmeDmaReqQ)
  BY <1>1, ElementOfSeq DEF TypedRequests, InList, ListsInv, DmaList
<1>3. queue[s] = "dma" /\ queue \in [Slots -> Queues]
  BY <1>2 DEF ListsInv, DmaList, TypedRequests
<1>4. /\ Without(nvmeDmaReqQ, s) \in Seq(Slots) /\ Distinct(Without(nvmeDmaReqQ, s))
      /\ \A x : InList(Without(nvmeDmaReqQ, s), x) <=> InList(nvmeDmaReqQ, x) /\ x # s
  BY <1>2, UnlinkList DEF Without
<1>5. DmaList(Without(nvmeDmaReqQ, s), [queue EXCEPT ![s] = "free"])
  BY <1>2, <1>3, <1>4 DEF ListsInv, DmaList
<1>6. DieLists(nandReqQ, "nand", [queue EXCEPT ![s] = "free"], req)
  <2>1. \A x \in Slots : [queue EXCEPT ![s] = "free"][x] = "nand" <=> queue[x] = "nand"
    BY <1>2, <1>3
  <2>. QED
    BY <2>1 DEF ListsInv, DieLists
<1>7. ReleaseBlockedByBufDepReq(s, Without(nvmeDmaReqQ, s), nandReqQ)
  BY DEF DmaFinished, CheckDoneNvmeDmaReq
<1>8. Len(Without(nvmeDmaReqQ, s)) = Len(nvmeDmaReqQ) - 1
  <2>1. (CHOOSE i \in 1 .. Len(nvmeDmaReqQ) : nvmeDmaReqQ[i] = s) \in 1 .. Len(nvmeDmaReqQ)
    BY <1>2 DEF InList
  <2>. QED
    BY <1>2, <2>1, RemoveAtIndexProperties DEF Without, Unlink
<1>. QED
  BY <1>2, <1>3, <1>5, <1>6, <1>7, <1>8 DEF Finishes

\* and the end of an operation the request off the head of the queue of its die.
LEMMA FinishedNand ==
    ASSUME TypedRequests, ListsInv, NEW d \in Dies, NandDone(d), NEW s, s = Head(nandReqQ[d])
    PROVE  /\ Finishes(s, nvmeDmaReqQ, [nandReqQ EXCEPT ![d] = Tail(@)])
           /\ queue[s] = "nand" /\ req[s].die = d /\ nandReqQ[d] # <<>>
<1>1. nandReqQ[d] \in Seq(Slots) /\ nandReqQ[d] # <<>> /\ Distinct(nandReqQ[d])
  BY DEF TypedRequests, NandDone, ListsInv, DieLists
<1>2. /\ s \in Slots /\ InList(nandReqQ[d], s)
      /\ Tail(nandReqQ[d]) \in Seq(Slots) /\ Distinct(Tail(nandReqQ[d]))
      /\ \A x : InList(Tail(nandReqQ[d]), x) <=> InList(nandReqQ[d], x) /\ x # s
  BY <1>1, TailList
<1>3. queue[s] = "nand" /\ req[s].die = d /\ queue \in [Slots -> Queues]
  BY <1>2 DEF ListsInv, DieLists, TypedRequests
<1> DEFINE tags == [queue EXCEPT ![s] = "free"]
           nand0 == [nandReqQ EXCEPT ![d] = Tail(@)]
<1>4. tags[s] = "free" /\ \A x \in Slots \ {s} : tags[x] = queue[x]
  BY <1>2, <1>3
<1>5. /\ nand0 \in [Dies -> Seq(Slots)] /\ nand0[d] = Tail(nandReqQ[d])
      /\ \A e \in Dies \ {d} : nand0[e] = nandReqQ[e]
  BY <1>2 DEF TypedRequests
<1>6. ReleaseBlockedByBufDepReq(s, nvmeDmaReqQ, nand0)
  BY DEF NandDone
<1> HIDE DEF tags, nand0
<1>7. DmaList(nvmeDmaReqQ, tags)
  BY <1>3, <1>4 DEF ListsInv, DmaList
<1>8. DieLists(nand0, "nand", tags, req)
  <2>1. \A e \in Dies : Distinct(nand0[e])
    BY <1>2, <1>5 DEF ListsInv, DieLists
  <2>2. ASSUME NEW e \in Dies, NEW x \in Slots
        PROVE  InList(nand0[e], x) <=> tags[x] = "nand" /\ req[x].die = e
    <3>1. InList(nandReqQ[e], x) <=> queue[x] = "nand" /\ req[x].die = e
      BY DEF ListsInv, DieLists
    <3>. QED
      BY <1>2, <1>3, <1>4, <1>5, <3>1
  <2>. QED
    BY <1>5, <2>1, <2>2 DEF DieLists
<1>. QED
  BY <1>1, <1>2, <1>3, <1>6, <1>7, <1>8 DEF Finishes, tags, nand0
-----------------------------------------------------------------------------
\* A request that changes its block; a request of block b of die d; the next page of
\* a block after request r; and how much p counts.
IsMod(s) == req[s].code \in ModCodes
OnRow(s, d, b) == req[s].die = d /\ req[s].block = b
After(r) == IF r.code = "erase" THEN 0 ELSE r.page + 1
One(p) == IF p THEN 1 ELSE 0

\* What it does to the rows when s goes from where it waits to queue q.
RowMoves(s, q) ==
    /\ rowDep' \in [Dies -> [Blocks -> Rows]]
    /\ q = "nand" /\ IsMod(s) => req[s].page = Row(s).permittedProgPage
    /\ q = "nand" /\ req[s].code = "erase" => Row(s).blockedReadReqCnt = 0
    /\ \A d \in Dies, b \in Blocks :
          /\ rowDep'[d][b].permittedProgPage =
                IF q = "nand" /\ IsMod(s) /\ OnRow(s, d, b) THEN After(req[s]) ELSE rowDep[d][b].permittedProgPage
          /\ rowDep'[d][b].blockedReadReqCnt =
                rowDep[d][b].blockedReadReqCnt + One(IsRead(s) /\ OnRow(s, d, b) /\ q \in {"bufDep", "rowDep"})
                   - One(IsRead(s) /\ OnRow(s, d, b) /\ Blocked(s))
          /\ rowDep'[d][b].blockedEraseReqFlag <=>
                /\ rowDep[d][b].blockedEraseReqFlag
                      \/ (req[s].code = "erase" /\ OnRow(s, d, b) /\ q = "rowDep" /\ s = selecting)
                /\ ~(req[s].code = "erase" /\ OnRow(s, d, b) /\ q = "nand")

\* The row of an erased block, and of one whose erase waits.
LEMMA ErasedRow ==
    ASSUME NEW r \in Rows
    PROVE  /\ [r EXCEPT !.permittedProgPage = 0, !.blockedEraseReqFlag = FALSE].permittedProgPage = 0
           /\ ~[r EXCEPT !.permittedProgPage = 0, !.blockedEraseReqFlag = FALSE].blockedEraseReqFlag
           /\ [r EXCEPT !.permittedProgPage = 0, !.blockedEraseReqFlag = FALSE].blockedReadReqCnt
                 = r.blockedReadReqCnt
           /\ [r EXCEPT !.blockedEraseReqFlag = TRUE].permittedProgPage = r.permittedProgPage
           /\ [r EXCEPT !.blockedEraseReqFlag = TRUE].blockedEraseReqFlag
           /\ [r EXCEPT !.blockedEraseReqFlag = TRUE].blockedReadReqCnt = r.blockedReadReqCnt
  BY DEF Rows

\* A row of s is changed.
LEMMA SetRowIs ==
    ASSUME TypedRequests, NEW s \in Slots, req[s].code \in NandCodes, NEW row \in Rows, rowDep' = SetRow(s, row)
    PROVE  /\ rowDep' \in [Dies -> [Blocks -> Rows]]
           /\ \A d \in Dies, b \in Blocks : rowDep'[d][b] = IF OnRow(s, d, b) THEN row ELSE rowDep[d][b]
           /\ \A d \in Dies, b \in Blocks : rowDep[d][b] \in Rows
           /\ \A d \in Dies, b \in Blocks : OnRow(s, d, b) => rowDep[d][b] = Row(s)
<1>1. req[s].die \in Dies /\ req[s].block \in Blocks
  BY LiveRequest DEF NandCodes, Live
<1>2. rowDep \in [Dies -> [Blocks -> Rows]]
  BY DEF TypedRequests
<1>3. rowDep' = [rowDep EXCEPT ![req[s].die][req[s].block] = row]
  BY DEF SetRow
<1>. QED
  BY <1>1, <1>2, <1>3 DEF OnRow, Row

\* A request that passes no row and leaves the reads that wait as they are.
LEMMA RowsUnchanged ==
    ASSUME TypedRequests, NEW s \in Slots, UNCHANGED rowDep, NEW q,
           ~(q = "nand" /\ IsMod(s)), req[s].code = "erase" => q # "rowDep",
           IsRead(s) => (q \in {"bufDep", "rowDep"} <=> Blocked(s))
    PROVE  RowMoves(s, q)
<1>1. \A d \in Dies, b \in Blocks : rowDep[d][b] \in Rows /\ rowDep[d][b].blockedReadReqCnt \in Int
  BY DEF TypedRequests, Rows
<1>2. rowDep' \in [Dies -> [Blocks -> Rows]]
  BY DEF TypedRequests
<1>3. One(TRUE) = 1 /\ One(FALSE) = 0
  BY DEF One
<1>4. req[s].code = "erase" => IsMod(s)
  BY DEF IsMod, ModCodes
<1>5. ASSUME NEW d \in Dies, NEW b \in Blocks
      PROVE  rowDep[d][b].blockedReadReqCnt =
                rowDep[d][b].blockedReadReqCnt + One(IsRead(s) /\ OnRow(s, d, b) /\ q \in {"bufDep", "rowDep"})
                   - One(IsRead(s) /\ OnRow(s, d, b) /\ Blocked(s))
  <2>1. One(IsRead(s) /\ OnRow(s, d, b) /\ q \in {"bufDep", "rowDep"}) = One(IsRead(s) /\ OnRow(s, d, b) /\ Blocked(s))
    BY DEF One
  <2>2. One(IsRead(s) /\ OnRow(s, d, b) /\ Blocked(s)) \in Int
    BY DEF One
  <2>. QED
    BY <1>1, <2>1, <2>2
<1>. QED
  BY <1>2, <1>4, <1>5 DEF RowMoves

\* CheckRowAddrDep for a request that a release looks at,
LEMMA ReleaseMoves ==
    ASSUME TypedRequests, NEW s \in Slots, req[s].code \in NandCodes, Blocked(s), s # selecting,
           NEW c, c = CheckRowAddrDep(s, "release"), rowDep' = SetRow(s, c.row)
    PROVE  RowMoves(s, NandQueue(c.pass)) /\ c.pass \in BOOLEAN
<1>1. c.pass \in BOOLEAN /\ c.row \in Rows
  BY CheckTyped
<1>2. /\ rowDep' \in [Dies -> [Blocks -> Rows]]
      /\ \A d \in Dies, b \in Blocks : rowDep'[d][b] = IF OnRow(s, d, b) THEN c.row ELSE rowDep[d][b]
      /\ \A d \in Dies, b \in Blocks : rowDep[d][b] \in Rows
      /\ \A d \in Dies, b \in Blocks : OnRow(s, d, b) => rowDep[d][b] = Row(s)
  BY <1>1, SetRowIs
<1>3. Row(s) \in Rows
  BY LiveRequest DEF NandCodes, Live
<1>4. /\ Row(s).permittedProgPage \in 0 .. PAGES /\ Row(s).blockedReadReqCnt \in Int
      /\ Row(s).blockedEraseReqFlag \in BOOLEAN
      /\ \A d \in Dies, b \in Blocks : rowDep[d][b].blockedReadReqCnt \in Int
  BY <1>2, <1>3 DEF Rows
<1>5. NandQueue(c.pass) = IF c.pass THEN "nand" ELSE "rowDep"
  BY DEF NandQueue
<1>6. CASE IsRead(s)
  <2>1. c = IF req[s].page < Row(s).permittedProgPage
            THEN [pass |-> TRUE, row |-> [Row(s) EXCEPT !.blockedReadReqCnt = @ - 1]]
            ELSE [pass |-> FALSE, row |-> Row(s)]
    BY <1>6, CheckRead DEF IsRead
  <2>2. /\ c.row.permittedProgPage = Row(s).permittedProgPage
        /\ c.row.blockedEraseReqFlag = Row(s).blockedEraseReqFlag
        /\ c.row.blockedReadReqCnt = Row(s).blockedReadReqCnt - (IF c.pass THEN 1 ELSE 0)
    BY <1>3, <1>4, <2>1 DEF Rows
  <2>3. ~IsMod(s) /\ req[s].code # "erase"
    BY <1>6 DEF IsRead, IsMod, ModCodes
  <2>4. ASSUME NEW d \in Dies, NEW b \in Blocks
        PROVE  rowDep'[d][b].blockedReadReqCnt =
                  rowDep[d][b].blockedReadReqCnt
                     + One(IsRead(s) /\ OnRow(s, d, b) /\ NandQueue(c.pass) \in {"bufDep", "rowDep"})
                     - One(IsRead(s) /\ OnRow(s, d, b) /\ Blocked(s))
    <3>1. CASE OnRow(s, d, b)
      BY <1>1, <1>2, <1>4, <1>5, <1>6, <2>2, <3>1 DEF One
    <3>2. CASE ~OnRow(s, d, b)
      BY <1>2, <1>4, <3>2 DEF One
    <3>. QED
      BY <3>1, <3>2
  <2>. QED
    BY <1>1, <1>2, <2>2, <2>3, <2>4 DEF RowMoves
<1>7. CASE ~IsRead(s)
  <2>1. ASSUME NEW d \in Dies, NEW b \in Blocks
        PROVE  rowDep[d][b].blockedReadReqCnt =
                  rowDep[d][b].blockedReadReqCnt
                     + One(IsRead(s) /\ OnRow(s, d, b) /\ NandQueue(c.pass) \in {"bufDep", "rowDep"})
                     - One(IsRead(s) /\ OnRow(s, d, b) /\ Blocked(s))
    BY <1>4, <1>7 DEF One
  <2>2. CASE req[s].code = "write"
    <3>1. c = IF req[s].page = Row(s).permittedProgPage
              THEN [pass |-> TRUE, row |-> [Row(s) EXCEPT !.permittedProgPage = @ + 1]]
              ELSE [pass |-> FALSE, row |-> Row(s)]
      BY <2>2, CheckWrite
    <3>2. /\ c.row.permittedProgPage = IF c.pass THEN req[s].page + 1 ELSE Row(s).permittedProgPage
          /\ c.row.blockedEraseReqFlag = Row(s).blockedEraseReqFlag
          /\ c.row.blockedReadReqCnt = Row(s).blockedReadReqCnt
          /\ c.pass => req[s].page = Row(s).permittedProgPage
      BY <1>3, <1>4, <3>1 DEF Rows
    <3>3. IsMod(s) /\ After(req[s]) = req[s].page + 1
      BY <2>2 DEF IsMod, ModCodes, After
    <3>. QED
      BY <1>1, <1>2, <1>5, <2>1, <2>2, <3>2, <3>3 DEF RowMoves
  <2>3. CASE req[s].code = "erase"
    <3>1. c = IF req[s].page = Row(s).permittedProgPage /\ Row(s).blockedReadReqCnt = 0
              THEN [pass |-> TRUE, row |-> [Row(s) EXCEPT !.permittedProgPage = 0, !.blockedEraseReqFlag = FALSE]]
              ELSE [pass |-> FALSE, row |-> Row(s)]
      BY <2>3, CheckErase
    <3>2. /\ c.row.permittedProgPage = IF c.pass THEN 0 ELSE Row(s).permittedProgPage
          /\ c.row.blockedEraseReqFlag <=> ~c.pass /\ Row(s).blockedEraseReqFlag
          /\ c.row.blockedReadReqCnt = Row(s).blockedReadReqCnt
          /\ c.pass => req[s].page = Row(s).permittedProgPage /\ Row(s).blockedReadReqCnt = 0
      <4> DEFINE e == [Row(s) EXCEPT !.permittedProgPage = 0, !.blockedEraseReqFlag = FALSE]
      <4>1. e.permittedProgPage = 0 /\ ~e.blockedEraseReqFlag /\ e.blockedReadReqCnt = Row(s).blockedReadReqCnt
        BY <1>3, ErasedRow
      <4>2. c = IF req[s].page = Row(s).permittedProgPage /\ Row(s).blockedReadReqCnt = 0
                THEN [pass |-> TRUE, row |-> e] ELSE [pass |-> FALSE, row |-> Row(s)]
        BY <3>1
      <4> HIDE DEF e
      <4>. QED
        BY <4>1, <4>2
    <3>3. IsMod(s) /\ After(req[s]) = 0
      BY <2>3 DEF IsMod, ModCodes, After
    <3>. QED
      BY <1>1, <1>2, <1>5, <2>1, <2>3, <3>2, <3>3 DEF RowMoves
  <2>. QED
    BY <1>7, <2>2, <2>3 DEF IsRead, NandCodes
<1>. QED
  BY <1>1, <1>6, <1>7, Zenon
-----------------------------------------------------------------------------
\* The request the CPU works on goes to queue q.
Selects(s, q) ==
    /\ s = selecting /\ s \in Slots /\ Live(s) /\ queue[s] = "cpu" /\ ~Walking
    /\ Selected(q, rowDep')
    /\ q \in {"dma", "nand", "rowDep", "bufDep"}
    /\ q = "dma" => IsDma(s)
    /\ q \in {"nand", "rowDep"} => req[s].code \in NandCodes
    /\ q = "bufDep" <=> prevBlockingReq[s] # NONE
    /\ q = "bufDep" => req[s].buf # NONE
    /\ IsRead(s) => ~Row(s).blockedEraseReqFlag
    /\ RowMoves(s, q)

\* What the guards of SelectLowLevelReqQ and the loop before it say of the request.
LEMMA SelectedRequest ==
    ASSUME TypedRequests, TypedCpu, TagsInv, Selectable, NEW s, s = selecting
    PROVE  /\ s \in Slots /\ Live(s) /\ queue[s] = "cpu" /\ ~Walking /\ ~Blocked(s)
           /\ IsRead(s) => ~Row(s).blockedEraseReqFlag
           /\ req[s].code \in {"rx", "tx"} \cup NandCodes
           /\ IsDma(s) \/ IsRead(s) \/ req[s].code = "write" => req[s].buf # NONE
           /\ ~IsRead(s) => (bufBlocked <=> prevBlockingReq[s] # NONE)
           /\ ~bufBlocked => prevBlockingReq[s] = NONE
<1>1. selecting # NONE /\ ~Walking /\ (IsRead(selecting) => ~Row(selecting).blockedEraseReqFlag)
  BY DEF Selectable, WaitsForErase
<1>2. s \in Slots /\ Live(s) /\ queue[s] = "cpu"
  BY <1>1 DEF TypedCpu, TagsInv
<1>3. /\ req[s].code \in Codes
      /\ req[s].code \in {"rx", "tx"} => req[s].buf \in Bufs
      /\ req[s].code \in {"read", "write"} => req[s].buf \in AllBufs
  BY <1>2, LiveRequest
<1>4. /\ ~IsRead(s) => (bufBlocked <=> prevBlockingReq[s] # NONE)
      /\ ~bufBlocked => prevBlockingReq[s] = NONE
  BY <1>1 DEF TagsInv
<1>5. IsDma(s) \/ IsRead(s) \/ req[s].code = "write" => req[s].buf # NONE
  BY <1>3, GeometryAssumption DEF IsDma, IsRead, AllBufs
<1>6. ~Blocked(s)
  BY <1>2 DEF Blocked
<1>. QED
  BY <1>1, <1>2, <1>3, <1>4, <1>5, <1>6 DEF Codes, NandCodes

\* Each way through SelectLowLevelReqQ puts the request on a queue: a transfer,
LEMMA SelectDmaIs ==
    ASSUME TypedRequests, TypedCpu, TagsInv, SelectDma
    PROVE  \E q : Selects(selecting, q)
<1> DEFINE q == IF bufBlocked THEN "bufDep" ELSE "dma"
<1>1. Selectable /\ IsDma(selecting) /\ Selected(q, rowDep)
  BY DEF SelectDma
<1>2. rowDep' = rowDep
  BY <1>1 DEF Selected
<1>3. ~IsRead(selecting) /\ ~IsMod(selecting) /\ req[selecting].code # "erase"
  BY <1>1 DEF IsDma, IsRead, IsMod, ModCodes
<1>4. /\ selecting \in Slots /\ Live(selecting) /\ queue[selecting] = "cpu" /\ ~Walking
      /\ req[selecting].buf # NONE /\ (bufBlocked <=> prevBlockingReq[selecting] # NONE)
  BY <1>1, <1>3, SelectedRequest
<1>5. q \in {"dma", "bufDep"} /\ (q = "bufDep" <=> bufBlocked)
  OBVIOUS
<1> HIDE DEF q
<1>6. RowMoves(selecting, q)
  BY <1>2, <1>3, <1>4, RowsUnchanged
<1>7. Selected(q, rowDep')
  BY <1>1, <1>2
<1>8. /\ q \in {"dma", "nand", "rowDep", "bufDep"}
      /\ q \notin {"nand", "rowDep"}
      /\ q = "bufDep" <=> prevBlockingReq[selecting] # NONE
  BY <1>4, <1>5
<1>. QED
  BY <1>1, <1>3, <1>4, <1>6, <1>7, <1>8 DEF Selects

\* a write whose buffer is in use,
LEMMA SelectWriteIs ==
    ASSUME TypedRequests, TypedCpu, TagsInv, SelectBufBlockedWrite
    PROVE  \E q : Selects(selecting, q)
<1>1. Selectable /\ req[selecting].code = "write" /\ bufBlocked /\ Selected("bufDep", rowDep)
  BY DEF SelectBufBlockedWrite
<1>2. rowDep' = rowDep
  BY <1>1 DEF Selected
<1>3. ~IsRead(selecting) /\ ~IsDma(selecting)
  BY <1>1 DEF IsDma, IsRead
<1>4. /\ selecting \in Slots /\ Live(selecting) /\ queue[selecting] = "cpu" /\ ~Walking
      /\ req[selecting].buf # NONE /\ prevBlockingReq[selecting] # NONE
  BY <1>1, <1>3, SelectedRequest
<1>5. RowMoves(selecting, "bufDep")
  BY <1>1, <1>2, <1>3, <1>4, RowsUnchanged
<1>6. Selected("bufDep", rowDep')
  BY <1>1, <1>2
<1>7. Selects(selecting, "bufDep")
  BY <1>3, <1>4, <1>5, <1>6 DEF Selects
<1>. QED
  BY <1>7

\* A read that waits is counted.
LEMMA CountedMoves ==
    ASSUME TypedRequests, NEW s \in Slots, req[s].code = "read", ~Blocked(s), NEW q \in {"bufDep", "rowDep"},
           rowDep' = SetRow(s, [Row(s) EXCEPT !.blockedReadReqCnt = @ + 1])
    PROVE  RowMoves(s, q)
<1> DEFINE row == [Row(s) EXCEPT !.blockedReadReqCnt = @ + 1]
<1>1. Row(s) \in Rows /\ req[s].code \in NandCodes
  BY LiveRequest DEF NandCodes, Live
<1>2. /\ row \in Rows /\ row.permittedProgPage = Row(s).permittedProgPage
      /\ row.blockedEraseReqFlag = Row(s).blockedEraseReqFlag
      /\ row.blockedReadReqCnt = Row(s).blockedReadReqCnt + 1
  BY <1>1 DEF Rows
<1>3. rowDep' = SetRow(s, row)
  OBVIOUS
<1> HIDE DEF row
<1>4. /\ rowDep' \in [Dies -> [Blocks -> Rows]]
      /\ \A d \in Dies, b \in Blocks : rowDep'[d][b] = IF OnRow(s, d, b) THEN row ELSE rowDep[d][b]
      /\ \A d \in Dies, b \in Blocks : rowDep[d][b] \in Rows
      /\ \A d \in Dies, b \in Blocks : OnRow(s, d, b) => rowDep[d][b] = Row(s)
  BY <1>1, <1>2, <1>3, SetRowIs
<1>5. IsRead(s) /\ ~IsMod(s) /\ req[s].code # "erase"
  BY DEF IsRead, IsMod, ModCodes
<1>6. ASSUME NEW d \in Dies, NEW b \in Blocks
      PROVE  rowDep'[d][b].blockedReadReqCnt =
                rowDep[d][b].blockedReadReqCnt
                   + One(IsRead(s) /\ OnRow(s, d, b) /\ q \in {"bufDep", "rowDep"})
                   - One(IsRead(s) /\ OnRow(s, d, b) /\ Blocked(s))
  <2>1. rowDep[d][b].blockedReadReqCnt \in Int
    BY <1>4 DEF Rows
  <2>2. CASE OnRow(s, d, b)
    BY <1>2, <1>4, <1>5, <2>1, <2>2 DEF One
  <2>3. CASE ~OnRow(s, d, b)
    <3>1. rowDep'[d][b] = rowDep[d][b]
      BY <1>4, <2>3
    <3>2. One(IsRead(s) /\ OnRow(s, d, b) /\ q \in {"bufDep", "rowDep"}) = 0 /\ One(IsRead(s) /\ OnRow(s, d, b) /\ Blocked(s)) = 0
      BY <2>3 DEF One
    <3>. QED
      BY <2>1, <3>1, <3>2
  <2>. QED
    BY <2>2, <2>3
<1>. QED
  BY <1>2, <1>4, <1>5, <1>6 DEF RowMoves

\* a read whose buffer is, or was when the CPU looked,
LEMMA SelectBlockedReadIs ==
    ASSUME TypedRequests, TypedCpu, TagsInv, SelectBufBlockedRead
    PROVE  \E q : Selects(selecting, q)
<1>1. Selectable /\ IsRead(selecting) /\ bufBlocked
  BY DEF SelectBufBlockedRead
<1>2. /\ selecting \in Slots /\ Live(selecting) /\ queue[selecting] = "cpu" /\ ~Walking /\ ~Blocked(selecting)
      /\ req[selecting].buf # NONE /\ ~Row(selecting).blockedEraseReqFlag
  BY <1>1, SelectedRequest
<1>3. req[selecting].code = "read" /\ req[selecting].code \in NandCodes /\ ~IsDma(selecting)
  BY <1>1 DEF IsRead, NandCodes, IsDma
<1>4. \/ prevBlockingReq[selecting] # NONE /\ Selected("bufDep", OneMoreBlockedRead)
      \/ prevBlockingReq[selecting] = NONE /\ Selected("nand", rowDep)
      \/ prevBlockingReq[selecting] = NONE /\ Selected("rowDep", OneMoreBlockedRead)
  BY DEF SelectBufBlockedRead
<1>5. CASE prevBlockingReq[selecting] # NONE /\ Selected("bufDep", OneMoreBlockedRead)
  <2>1. rowDep' = SetRow(selecting, [Row(selecting) EXCEPT !.blockedReadReqCnt = @ + 1])
    BY <1>5 DEF Selected, OneMoreBlockedRead
  <2>2. RowMoves(selecting, "bufDep")
    BY <1>2, <1>3, <2>1, CountedMoves
  <2>3. Selected("bufDep", rowDep')
    BY <1>5 DEF Selected
  <2>4. Selects(selecting, "bufDep")
    BY <1>2, <1>5, <2>2, <2>3 DEF Selects
  <2>. QED
    BY <2>4
<1>6. CASE prevBlockingReq[selecting] = NONE /\ Selected("nand", rowDep)
  <2>1. rowDep' = rowDep
    BY <1>6 DEF Selected
  <2>2. ~IsMod(selecting)
    BY <1>3 DEF IsMod, ModCodes
  <2>3. RowMoves(selecting, "nand")
    BY <1>2, <1>3, <2>1, <2>2, RowsUnchanged
  <2>4. Selected("nand", rowDep')
    BY <1>6, <2>1
  <2>5. Selects(selecting, "nand")
    BY <1>2, <1>3, <1>6, <2>3, <2>4 DEF Selects
  <2>. QED
    BY <2>5
<1>7. CASE prevBlockingReq[selecting] = NONE /\ Selected("rowDep", OneMoreBlockedRead)
  <2>1. rowDep' = SetRow(selecting, [Row(selecting) EXCEPT !.blockedReadReqCnt = @ + 1])
    BY <1>7 DEF Selected, OneMoreBlockedRead
  <2>2. RowMoves(selecting, "rowDep")
    BY <1>2, <1>3, <2>1, CountedMoves
  <2>3. Selected("rowDep", rowDep')
    BY <1>7 DEF Selected
  <2>4. Selects(selecting, "rowDep")
    BY <1>2, <1>3, <1>7, <2>2, <2>3 DEF Selects
  <2>. QED
    BY <2>4
<1>. QED
  BY <1>4, <1>5, <1>6, <1>7

\* and for the one that SelectLowLevelReqQ is called for.
LEMMA SelectMoves ==
    ASSUME TypedRequests, NEW s \in Slots, req[s].code \in NandCodes, ~Blocked(s), s = selecting,
           NEW c, c = CheckRowAddrDep(s, "select"), rowDep' = SetRow(s, c.row), NEW q, q = NandQueue(c.pass)
    PROVE  RowMoves(s, q) /\ q \in {"nand", "rowDep"}
<1>1. c.pass \in BOOLEAN /\ c.row \in Rows
  BY CheckTyped
<1>2. /\ rowDep' \in [Dies -> [Blocks -> Rows]]
      /\ \A d \in Dies, b \in Blocks : rowDep'[d][b] = IF OnRow(s, d, b) THEN c.row ELSE rowDep[d][b]
      /\ \A d \in Dies, b \in Blocks : rowDep[d][b] \in Rows
      /\ \A d \in Dies, b \in Blocks : OnRow(s, d, b) => rowDep[d][b] = Row(s)
  BY <1>1, SetRowIs
<1>3. Row(s) \in Rows
  BY LiveRequest DEF NandCodes, Live
<1>4. /\ Row(s).permittedProgPage \in 0 .. PAGES /\ Row(s).blockedReadReqCnt \in Int
      /\ Row(s).blockedEraseReqFlag \in BOOLEAN
      /\ \A d \in Dies, b \in Blocks : rowDep[d][b].blockedReadReqCnt \in Int
  BY <1>2, <1>3 DEF Rows
<1>5. /\ q = IF c.pass THEN "nand" ELSE "rowDep"
      /\ q \in {"nand", "rowDep"}
  BY <1>1 DEF NandQueue
<1>6. CASE IsRead(s)
  <2>1. c = IF req[s].page <= Row(s).permittedProgPage THEN [pass |-> TRUE, row |-> Row(s)]
            ELSE [pass |-> FALSE, row |-> [Row(s) EXCEPT !.blockedReadReqCnt = @ + 1]]
    BY <1>6, CheckRead DEF IsRead
  <2>2. CASE c.pass
    <3>1. c.row = Row(s)
      BY <2>1, <2>2
    <3>2. rowDep' = rowDep
      <4>1. rowDep \in [Dies -> [Blocks -> Rows]]
        BY DEF TypedRequests
      <4>2. \A d \in Dies, b \in Blocks : rowDep'[d][b] = rowDep[d][b]
        BY <1>2, <3>1
      <4>3. \A d \in Dies : rowDep'[d] = rowDep[d]
        BY <1>2, <4>1, <4>2
      <4>. QED
        BY <1>2, <4>1, <4>3
    <3>3. ~IsMod(s) /\ req[s].code # "erase" /\ q = "nand"
      BY <1>5, <1>6, <2>2 DEF IsRead, IsMod, ModCodes
    <3>4. RowMoves(s, q)
      BY <3>2, <3>3, RowsUnchanged
    <3>. QED
      BY <1>5, <3>4, Zenon
  <2>3. CASE ~c.pass
    <3>1. c.row = [Row(s) EXCEPT !.blockedReadReqCnt = @ + 1]
      BY <2>1, <2>3
    <3>2. q \in {"bufDep", "rowDep"}
      BY <1>5, <2>3
    <3>3. RowMoves(s, q)
      BY <1>6, <3>1, <3>2, CountedMoves DEF IsRead
    <3>. QED
      BY <1>5, <3>3, Zenon
  <2>. QED
    BY <2>2, <2>3, Zenon
<1>7. CASE ~IsRead(s)
  <2>1. ASSUME NEW d \in Dies, NEW b \in Blocks
        PROVE  rowDep[d][b].blockedReadReqCnt =
                  rowDep[d][b].blockedReadReqCnt
                     + One(IsRead(s) /\ OnRow(s, d, b) /\ q \in {"bufDep", "rowDep"})
                     - One(IsRead(s) /\ OnRow(s, d, b) /\ Blocked(s))
    BY <1>4, <1>7 DEF One
  <2>2. CASE req[s].code = "write"
    <3>1. c = IF req[s].page = Row(s).permittedProgPage
              THEN [pass |-> TRUE, row |-> [Row(s) EXCEPT !.permittedProgPage = @ + 1]]
              ELSE [pass |-> FALSE, row |-> Row(s)]
      BY <2>2, CheckWrite
    <3>2. /\ c.row.permittedProgPage = IF c.pass THEN req[s].page + 1 ELSE Row(s).permittedProgPage
          /\ c.row.blockedEraseReqFlag = Row(s).blockedEraseReqFlag
          /\ c.row.blockedReadReqCnt = Row(s).blockedReadReqCnt
          /\ c.pass => req[s].page = Row(s).permittedProgPage
      BY <1>3, <1>4, <3>1 DEF Rows
    <3>3. IsMod(s) /\ After(req[s]) = req[s].page + 1
      BY <2>2 DEF IsMod, ModCodes, After
    <3>. QED
      BY <1>1, <1>2, <1>5, <2>1, <2>2, <3>2, <3>3 DEF RowMoves
  <2>3. CASE req[s].code = "erase"
    <3>1. c = IF req[s].page = Row(s).permittedProgPage /\ Row(s).blockedReadReqCnt = 0
              THEN [pass |-> TRUE, row |-> [Row(s) EXCEPT !.permittedProgPage = 0, !.blockedEraseReqFlag = FALSE]]
              ELSE [pass |-> FALSE, row |-> [Row(s) EXCEPT !.blockedEraseReqFlag = TRUE]]
      BY <2>3, CheckErase
    <3>2. /\ c.row.permittedProgPage = IF c.pass THEN 0 ELSE Row(s).permittedProgPage
          /\ c.row.blockedEraseReqFlag <=> ~c.pass
          /\ c.row.blockedReadReqCnt = Row(s).blockedReadReqCnt
          /\ c.pass => req[s].page = Row(s).permittedProgPage /\ Row(s).blockedReadReqCnt = 0
      <4> DEFINE e == [Row(s) EXCEPT !.permittedProgPage = 0, !.blockedEraseReqFlag = FALSE]
                 f == [Row(s) EXCEPT !.blockedEraseReqFlag = TRUE]
      <4>1. /\ e.permittedProgPage = 0 /\ ~e.blockedEraseReqFlag /\ e.blockedReadReqCnt = Row(s).blockedReadReqCnt
            /\ f.permittedProgPage = Row(s).permittedProgPage /\ f.blockedEraseReqFlag
            /\ f.blockedReadReqCnt = Row(s).blockedReadReqCnt
        BY <1>3, ErasedRow
      <4>2. c = IF req[s].page = Row(s).permittedProgPage /\ Row(s).blockedReadReqCnt = 0
                THEN [pass |-> TRUE, row |-> e] ELSE [pass |-> FALSE, row |-> f]
        BY <3>1
      <4> HIDE DEF e, f
      <4>. QED
        BY <4>1, <4>2
    <3>3. IsMod(s) /\ After(req[s]) = 0
      BY <2>3 DEF IsMod, ModCodes, After
    <3>. QED
      BY <1>1, <1>2, <1>5, <2>1, <2>3, <3>2, <3>3 DEF RowMoves
  <2>. QED
    BY <1>7, <2>2, <2>3 DEF IsRead, NandCodes
<1>. QED
  BY <1>6, <1>7, Zenon

\* a request of the flash whose buffer is free, if it needs one;
LEMMA SelectNandIs ==
    ASSUME TypedRequests, TypedCpu, TagsInv, SelectNand
    PROVE  \E q : Selects(selecting, q)
<1> DEFINE s == selecting
           c == CheckRowAddrDep(s, "select")
           q == NandQueue(c.pass)
<1>1. Selectable /\ ~IsDma(s) /\ ~bufBlocked /\ Selected(q, SetRow(s, c.row))
  BY DEF SelectNand
<1>2. /\ s \in Slots /\ Live(s) /\ queue[s] = "cpu" /\ ~Walking /\ ~Blocked(s)
      /\ prevBlockingReq[s] = NONE /\ (IsRead(s) => ~Row(s).blockedEraseReqFlag)
      /\ req[s].code \in NandCodes
  BY <1>1, SelectedRequest DEF IsDma
<1>3. rowDep' = SetRow(s, c.row)
  BY <1>1 DEF Selected
<1>4. RowMoves(s, q) /\ q \in {"nand", "rowDep"}
  BY <1>2, <1>3, SelectMoves
<1>5. Selected(q, rowDep')
  BY <1>1, <1>3
<1> HIDE DEF q, c
<1>6. Selects(s, q)
  BY <1>1, <1>2, <1>4, <1>5 DEF Selects
<1>. QED
  BY <1>6

\* so all of them do.
LEMMA SelectIs ==
    ASSUME TypedRequests, TypedCpu, TagsInv, Select
    PROVE  \E q : Selects(selecting, q)
  BY SelectDmaIs, SelectNandIs, SelectBlockedReadIs, SelectWriteIs, Zenon DEF Select
-----------------------------------------------------------------------------
\* What the end of request s leaves, and where it sends the next one of its buffer.
LEMMA FinishIs ==
    ASSUME TypedRequests, TagsInv, ListsInv, NEW s, NEW dma0, NEW nand0, Finishes(s, dma0, nand0),
           NEW t, t = nextBlockingReq[s], NEW q, q = ReleasedTo(t)
    PROVE  /\ req' = [req EXCEPT ![s] = NoReq] /\ order' = Without(order, s)
           /\ queue' \in [Slots -> Queues] /\ ListsInv'
           /\ Released(s) =>
                /\ t \in Slots /\ t # s /\ Live(t) /\ queue[t] = "bufDep" /\ t # selecting
                /\ queue' = [queue EXCEPT ![s] = "free", ![t] = q]
                /\ q \in {"dma", "nand", "rowDep"}
                /\ q = "dma" <=> IsDma(t)
                /\ q # "dma" => req[t].code \in NandCodes
                /\ nandReqQ' = IF q = "nand" THEN [nand0 EXCEPT ![req[t].die] = Append(@, t)] ELSE nand0
                /\ RowMoves(t, q)
           /\ ~Released(s) =>
                /\ queue' = [queue EXCEPT ![s] = "free"] /\ UNCHANGED rowDep /\ nandReqQ' = nand0
<1> DEFINE c == CheckRowAddrDep(t, "release")
           tags == [queue EXCEPT ![s] = "free"]
<1>1. /\ s \in Slots /\ queue[s] \in {"nand", "dma"}
      /\ DmaList(dma0, tags) /\ DieLists(nand0, "nand", tags, req)
      /\ ReleaseBlockedByBufDepReq(s, dma0, nand0)
  BY DEF Finishes
<1>2. q = IF IsDma(t) THEN "dma" ELSE NandQueue(c.pass)
  BY DEF ReleasedTo
<1>3. /\ req' = [req EXCEPT ![s] = NoReq] /\ order' = Without(order, s)
      /\ queue' = IF Released(s) THEN [queue EXCEPT ![s] = "free", ![t] = q] ELSE [queue EXCEPT ![s] = "free"]
      /\ IF Released(s) THEN PutOn(q, t, dma0, nand0, blockedByRowAddrDepReqQ)
         ELSE PutOn("free", s, dma0, nand0, blockedByRowAddrDepReqQ)
      /\ rowDep' = IF Released(s) /\ ~IsDma(t) THEN SetRow(t, c.row) ELSE rowDep
  BY <1>1, <1>2 DEF ReleaseBlockedByBufDepReq, Released
<1>4. queue \in [Slots -> Queues] /\ "free" \in Queues
  BY DEF TypedRequests, Queues
<1>5. tags \in [Slots -> Queues] /\ tags[s] = "free" /\ \A x \in Slots \ {s} : tags[x] = queue[x]
  BY <1>1, <1>4
<1>6. DieLists(blockedByRowAddrDepReqQ, "rowDep", tags, req)
  <2>1. \A x \in Slots : tags[x] = "rowDep" <=> queue[x] = "rowDep"
    BY <1>1, <1>5
  <2>. QED
    BY <2>1 DEF ListsInv, DieLists
<1> HIDE DEF tags
<1>7. ASSUME Released(s)
      PROVE  /\ t \in Slots /\ t # s /\ Live(t) /\ queue[t] = "bufDep" /\ t # selecting
             /\ queue' = [queue EXCEPT ![s] = "free", ![t] = q]
             /\ q \in {"dma", "nand", "rowDep"}
             /\ q = "dma" <=> IsDma(t)
             /\ q # "dma" => req[t].code \in NandCodes
             /\ nandReqQ' = IF q = "nand" THEN [nand0 EXCEPT ![req[t].die] = Append(@, t)] ELSE nand0
             /\ RowMoves(t, q)
             /\ queue' = [tags EXCEPT ![t] = q]
             /\ q \in {"nand", "rowDep"} => req[t].die \in Dies
  <2>1. t \in Slots /\ queue[t] = "bufDep"
    BY <1>1, <1>7 DEF Released, TypedRequests
  <2>2. t # s /\ Live(t) /\ Blocked(t) /\ t # selecting
    <3>1. t # s /\ Blocked(t)
      BY <1>1, <2>1 DEF Blocked
    <3>2. Live(t) /\ (selecting # NONE => queue[selecting] = "cpu")
      BY <2>1, <3>1 DEF TagsInv
    <3>3. t # NONE
      BY <2>1, GeometryAssumption
    <3>. QED
      BY <2>1, <3>1, <3>2, <3>3
  <2>3. req[t].code \in Codes
    BY <2>1, <2>2, LiveRequest
  <2>4. queue' = [queue EXCEPT ![s] = "free", ![t] = q] /\ PutOn(q, t, dma0, nand0, blockedByRowAddrDepReqQ)
    BY <1>3, <1>7
  <2>5. queue' = [tags EXCEPT ![t] = q]
    BY <2>4 DEF tags
  <2>6. nandReqQ' = IF q = "nand" THEN [nand0 EXCEPT ![req[t].die] = Append(@, t)] ELSE nand0
    BY <2>4 DEF PutOn
  <2>7. CASE IsDma(t)
    <3>1. q = "dma" /\ UNCHANGED rowDep
      BY <1>2, <1>3, <2>7
    <3>2. /\ ~IsMod(t) /\ req[t].code # "erase" /\ ~IsRead(t)
      BY <2>7 DEF IsDma, IsMod, ModCodes, IsRead
    <3>3. RowMoves(t, q)
      BY <2>1, <3>1, <3>2, RowsUnchanged
    <3>. QED
      BY <2>1, <2>2, <2>4, <2>5, <2>6, <2>7, <3>1, <3>3
  <2>8. CASE ~IsDma(t)
    <3>1. req[t].code \in NandCodes /\ rowDep' = SetRow(t, c.row)
      BY <1>3, <1>7, <2>3, <2>8 DEF IsDma, Codes, NandCodes
    <3>2. RowMoves(t, NandQueue(c.pass)) /\ c.pass \in BOOLEAN
      BY <2>1, <2>2, <3>1, ReleaseMoves
    <3>3. q = NandQueue(c.pass)
      BY <1>2, <2>8
    <3>4. RowMoves(t, q)
      BY <3>2, <3>3
    <3>5. q \in {"nand", "rowDep"}
      BY <3>2, <3>3 DEF NandQueue
    <3>6. req[t].die \in Dies
      BY <2>1, <2>2, <3>1, LiveRequest
    <3>. QED
      BY <2>1, <2>2, <2>4, <2>5, <2>6, <2>8, <3>1, <3>4, <3>5, <3>6
  <2>. QED
    BY <2>7, <2>8, Zenon
<1>8. ASSUME ~Released(s)
      PROVE  /\ queue' = [queue EXCEPT ![s] = "free"] /\ UNCHANGED rowDep /\ nandReqQ' = nand0
             /\ nvmeDmaReqQ' = dma0 /\ UNCHANGED blockedByRowAddrDepReqQ /\ queue' = tags
  BY <1>3, <1>8 DEF PutOn, tags
<1>9. queue' \in [Slots -> Queues]
  <2>1. ASSUME Released(s) PROVE queue' \in [Slots -> Queues]
    <3>1. t \in Slots /\ q \in Queues
      BY <1>7, <2>1 DEF Queues
    <3>. QED
      BY <1>5, <1>7, <2>1, <3>1
  <2>. QED
    BY <1>5, <1>8, <2>1
<1>10. /\ DmaList(nvmeDmaReqQ', queue')
       /\ DieLists(nandReqQ', "nand", queue', req)
       /\ DieLists(blockedByRowAddrDepReqQ', "rowDep", queue', req)
  <2>1. CASE Released(s)
    <3>1. q \in Queues /\ tags[t] = "bufDep" /\ t \in Slots
      BY <1>5, <1>7, <2>1 DEF Queues
    <3>2. PutOn(q, t, dma0, nand0, blockedByRowAddrDepReqQ)
      BY <1>3, <2>1
    <3>. QED
      BY <1>1, <1>5, <1>6, <1>7, <2>1, <3>1, <3>2, PutOnLists
  <2>2. CASE ~Released(s)
    BY <1>1, <1>6, <1>8, <2>2
  <2>. QED
    BY <2>1, <2>2
<1>11. \A x \in Slots : queue'[x] \in {"nand", "rowDep"} => x # s
  BY <1>1, <1>4, <1>7, <1>8
<1>12. \A x \in Slots \ {s} : req'[x] = req[x]
  BY <1>3 DEF TypedRequests
<1>13. ListsInv'
  <2>1. ASSUME NEW l, NEW tag \in {"nand", "rowDep"}, DieLists(l, tag, queue', req)
        PROVE  DieLists(l, tag, queue', req')
    <3>1. \A x \in Slots : queue'[x] = tag => req'[x] = req[x]
      BY <1>11, <1>12
    <3>. QED
      BY <2>1, <3>1 DEF DieLists
  <2>2. DieLists(nandReqQ', "nand", queue', req') /\ DieLists(blockedByRowAddrDepReqQ', "rowDep", queue', req')
    BY <1>10, <2>1
  <2>. QED
    BY <1>10, <2>2 DEF ListsInv
<1>. QED
  BY <1>3, <1>7, <1>8, <1>9, <1>13, Zenon
-----------------------------------------------------------------------------
\* A request that waited for its row goes to its die.
RowReleases(s) ==
    /\ s \in Slots /\ queue[s] = "rowDep" /\ req[s].code \in NandCodes /\ s # selecting
    /\ queue' = [queue EXCEPT ![s] = "nand"]
    /\ nandReqQ' = [nandReqQ EXCEPT ![req[s].die] = Append(@, s)]
    /\ RowMoves(s, "nand")
    /\ UNCHANGED <<req, chains, order, programmed, cpu, ftl, hwDone, dmaWalk, nvmeDmaReqQ>>

\* Entries without a request change hands, and nothing happens to a request.
Quiet ==
    /\ UNCHANGED <<req, chains, queues, rowDep, order, programmed, selecting, bufBlocked>>
    /\ queue' \in [Slots -> Queues]
    /\ \A s \in Slots : queue'[s] = queue[s]
          \/ (~Live(s) /\ s # selecting /\ queue[s] \in {"free", "cpu", "slice"} /\ queue'[s] \in {"free", "cpu", "slice"})

\* An entry of a list, and where it is.
LEMMA ListedRow ==
    ASSUME TypedRequests, ListsInv, TagsInv, NEW d \in Dies, NEW i \in 1 .. Len(blockedByRowAddrDepReqQ[d]),
           NEW s, s = blockedByRowAddrDepReqQ[d][i]
    PROVE  s \in Slots /\ queue[s] = "rowDep" /\ req[s].die = d /\ req[s].code \in NandCodes
           /\ Blocked(s) /\ s # selecting /\ InList(blockedByRowAddrDepReqQ[d], s)
<1>1. blockedByRowAddrDepReqQ[d] \in Seq(Slots)
  BY DEF TypedRequests
<1>2. s \in Slots /\ InList(blockedByRowAddrDepReqQ[d], s)
  BY <1>1, ElementOfSeq DEF InList
<1>3. queue[s] = "rowDep" /\ req[s].die = d
  BY <1>2 DEF ListsInv, DieLists
<1>4. req[s].code \in NandCodes /\ (selecting # NONE => queue[selecting] = "cpu")
  BY <1>2, <1>3 DEF TagsInv
<1>5. s # NONE
  BY <1>2, GeometryAssumption
<1>. QED
  BY <1>2, <1>3, <1>4, <1>5 DEF Blocked

\* The lists after a request went from the row table to its die.
LEMMA RowListsAfter ==
    ASSUME TypedRequests, ListsInv, NEW d \in Dies, NEW s \in Slots, queue[s] = "rowDep", req[s].die = d,
           queue' = [queue EXCEPT ![s] = "nand"],
           nandReqQ' = [nandReqQ EXCEPT ![d] = Append(@, s)],
           blockedByRowAddrDepReqQ' = [blockedByRowAddrDepReqQ EXCEPT ![d] = Without(@, s)],
           UNCHANGED <<req, nvmeDmaReqQ>>
    PROVE  ListsInv'
<1>1. queue \in [Slots -> Queues]
  BY DEF TypedRequests
<1>2. queue'[s] = "nand" /\ \A x \in Slots \ {s} : queue'[x] = queue[x]
  BY <1>1
<1>3. DmaList(nvmeDmaReqQ, queue)'
  BY <1>2 DEF ListsInv, DmaList
<1>4. nandReqQ[d] \in Seq(Slots) /\ Distinct(nandReqQ[d]) /\ ~InList(nandReqQ[d], s)
  BY DEF ListsInv, DieLists
<1>5. /\ Append(nandReqQ[d], s) \in Seq(Slots) /\ Distinct(Append(nandReqQ[d], s))
      /\ \A x : InList(Append(nandReqQ[d], s), x) <=> InList(nandReqQ[d], x) \/ x = s
  BY <1>4, AppendList
<1>6. /\ nandReqQ' \in [Dies -> Seq(Slots)] /\ nandReqQ'[d] = Append(nandReqQ[d], s)
      /\ \A e \in Dies \ {d} : nandReqQ'[e] = nandReqQ[e]
  BY <1>5 DEF TypedRequests
<1>7. DieLists(nandReqQ, "nand", queue, req)'
  <2>1. ASSUME NEW e \in Dies
        PROVE  /\ Distinct(nandReqQ'[e])
               /\ \A x \in Slots : InList(nandReqQ'[e], x) <=> queue'[x] = "nand" /\ req'[x].die = e
    <3>1. /\ Distinct(nandReqQ[e])
          /\ \A x \in Slots : InList(nandReqQ[e], x) <=> queue[x] = "nand" /\ req[x].die = e
      BY DEF ListsInv, DieLists
    <3>. QED
      BY <1>2, <1>5, <1>6, <3>1
  <2>. QED
    BY <1>6, <2>1 DEF DieLists
<1>8. blockedByRowAddrDepReqQ[d] \in Seq(Slots) /\ Distinct(blockedByRowAddrDepReqQ[d])
  BY DEF ListsInv, DieLists
<1>9. /\ Without(blockedByRowAddrDepReqQ[d], s) \in Seq(Slots) /\ Distinct(Without(blockedByRowAddrDepReqQ[d], s))
      /\ \A x : InList(Without(blockedByRowAddrDepReqQ[d], s), x) <=> InList(blockedByRowAddrDepReqQ[d], x) /\ x # s
  BY <1>8, UnlinkList DEF Without
<1>10. /\ blockedByRowAddrDepReqQ' \in [Dies -> Seq(Slots)]
       /\ blockedByRowAddrDepReqQ'[d] = Without(blockedByRowAddrDepReqQ[d], s)
       /\ \A e \in Dies \ {d} : blockedByRowAddrDepReqQ'[e] = blockedByRowAddrDepReqQ[e]
  BY <1>9 DEF TypedRequests
<1>11. DieLists(blockedByRowAddrDepReqQ, "rowDep", queue, req)'
  <2>1. ASSUME NEW e \in Dies
        PROVE  /\ Distinct(blockedByRowAddrDepReqQ'[e])
               /\ \A x \in Slots : InList(blockedByRowAddrDepReqQ'[e], x) <=> queue'[x] = "rowDep" /\ req'[x].die = e
    <3>1. /\ Distinct(blockedByRowAddrDepReqQ[e])
          /\ \A x \in Slots : InList(blockedByRowAddrDepReqQ[e], x) <=> queue[x] = "rowDep" /\ req[x].die = e
      BY DEF ListsInv, DieLists
    <3>. QED
      BY <1>2, <1>9, <1>10, <3>1
  <2>. QED
    BY <1>10, <2>1 DEF DieLists
<1>. QED
  BY <1>3, <1>7, <1>11 DEF ListsInv

\* A step of the walk over the requests that wait for their row either releases one
\* of them or changes nothing but the position.
LEMMA RowReleaseIs ==
    ASSUME TypedRequests, TypedWalks, ListsInv, TagsInv, ReleaseBlockedByRowAddrDepReq
    PROVE  /\ ListsInv' /\ TypedWalks'
           /\ UNCHANGED <<cpu, ftl, programmed>>
           /\ (Quiet /\ UNCHANGED queue) \/ \E s \in Slots : RowReleases(s)
<1> DEFINE d == rowWalk[1]
           i == rowWalk[2]
           q == blockedByRowAddrDepReqQ[d]
           s == q[i]
           c == CheckRowAddrDep(s, "release")
<1>1. rowWalk # <<>> /\ rowWalk \in Dies \X (Nat \ {0})
  BY DEF ReleaseBlockedByRowAddrDepReq, TypedWalks
<1>2. d \in Dies /\ i \in Nat \ {0} /\ q \in Seq(Slots) /\ Len(q) \in Nat
  BY <1>1, LenProperties DEF TypedRequests
<1>3. UNCHANGED <<req, chains, nvmeDmaReqQ, hwDone, dmaWalk, cpu, ftl, order, programmed>>
  BY DEF ReleaseBlockedByRowAddrDepReq
<1>4. \/ i > Len(q) /\ rowWalk' = <<>> /\ UNCHANGED <<queue, nandReqQ, blockedByRowAddrDepReqQ, rowDep>>
      \/ /\ ~(i > Len(q)) /\ rowDep' = SetRow(s, c.row) /\ c.pass
         /\ queue' = [queue EXCEPT ![s] = "nand"] /\ nandReqQ' = [nandReqQ EXCEPT ![d] = Append(@, s)]
         /\ blockedByRowAddrDepReqQ' = [blockedByRowAddrDepReqQ EXCEPT ![d] = Without(@, s)] /\ UNCHANGED rowWalk
      \/ /\ ~(i > Len(q)) /\ rowDep' = SetRow(s, c.row) /\ ~c.pass
         /\ rowWalk' = <<d, i + 1>> /\ UNCHANGED <<queue, nandReqQ, blockedByRowAddrDepReqQ>>
  BY DEF ReleaseBlockedByRowAddrDepReq
<1> HIDE DEF d, i, q, s, c
<1>5. q = blockedByRowAddrDepReqQ[d] /\ s = q[i] /\ c = CheckRowAddrDep(s, "release")
  BY DEF d, i, q, s, c
<1>6. selecting' = selecting /\ bufBlocked' = bufBlocked
  BY <1>3 DEF cpu
<1>7. TypedWalks'
  <2>1. hwDone' \in SUBSET Slots /\ dmaWalk' \in 0 .. Len(nvmeDmaReqQ')
    BY <1>3 DEF TypedWalks
  <2>2. rowWalk' = <<>> \/ rowWalk' = rowWalk \/ rowWalk' = <<d, i + 1>>
    BY <1>4
  <2>3. rowWalk' \in {<<>>} \cup (Dies \X (Nat \ {0}))
    BY <1>1, <1>2, <2>2
  <2>. QED
    BY <2>1, <2>3 DEF TypedWalks
<1>8. CASE i > Len(q) /\ rowWalk' = <<>> /\ UNCHANGED <<queue, nandReqQ, blockedByRowAddrDepReqQ, rowDep>>
  <2>1. Quiet
    BY <1>3, <1>6, <1>8 DEF Quiet, TypedRequests, queues
  <2>2. ListsInv'
    BY <1>3, <1>8 DEF ListsInv, DmaList, DieLists
  <2>. QED
    BY <1>3, <1>7, <1>8, <2>1, <2>2
<1>9. CASE /\ ~(i > Len(q)) /\ rowDep' = SetRow(s, c.row) /\ c.pass
           /\ queue' = [queue EXCEPT ![s] = "nand"] /\ nandReqQ' = [nandReqQ EXCEPT ![d] = Append(@, s)]
           /\ blockedByRowAddrDepReqQ' = [blockedByRowAddrDepReqQ EXCEPT ![d] = Without(@, s)]
  <2>1. i \in 1 .. Len(q)
    BY <1>2, <1>9
  <2>2. s \in Slots /\ queue[s] = "rowDep" /\ req[s].die = d /\ req[s].code \in NandCodes /\ Blocked(s) /\ s # selecting
    BY <1>2, <1>5, <2>1, ListedRow
  <2>3. RowMoves(s, NandQueue(c.pass)) /\ c.pass \in BOOLEAN
    BY <1>5, <1>9, <2>2, ReleaseMoves
  <2>4. NandQueue(c.pass) = "nand"
    BY <1>9 DEF NandQueue
  <2>5. ListsInv'
    BY <1>2, <1>3, <1>9, <2>2, RowListsAfter
  <2>6. RowMoves(s, "nand")
    BY <2>3, <2>4
  <2>7. RowReleases(s)
    BY <1>3, <1>9, <2>2, <2>6 DEF RowReleases
  <2>. QED
    BY <1>3, <1>7, <2>2, <2>5, <2>7
<1>10. CASE /\ ~(i > Len(q)) /\ rowDep' = SetRow(s, c.row) /\ ~c.pass
            /\ UNCHANGED <<queue, nandReqQ, blockedByRowAddrDepReqQ>>
  <2>1. i \in 1 .. Len(q)
    BY <1>2, <1>10
  <2>2. s \in Slots /\ queue[s] = "rowDep" /\ req[s].die = d /\ req[s].code \in NandCodes /\ Blocked(s) /\ s # selecting
    BY <1>2, <1>5, <2>1, ListedRow
  <2>3. c.row = Row(s)
    <3>1. req[s].code = "read" => c.row = Row(s)
      <4>1. ASSUME req[s].code = "read"
            PROVE  c = IF req[s].page < Row(s).permittedProgPage
                       THEN [pass |-> TRUE, row |-> [Row(s) EXCEPT !.blockedReadReqCnt = @ - 1]]
                       ELSE [pass |-> FALSE, row |-> Row(s)]
        BY <1>5, <2>2, <4>1, CheckRead
      <4>. QED
        BY <1>10, <4>1
    <3>2. req[s].code = "write" => c.row = Row(s)
      <4>1. ASSUME req[s].code = "write"
            PROVE  c = IF req[s].page = Row(s).permittedProgPage
                       THEN [pass |-> TRUE, row |-> [Row(s) EXCEPT !.permittedProgPage = @ + 1]]
                       ELSE [pass |-> FALSE, row |-> Row(s)]
        BY <1>5, <2>2, <4>1, CheckWrite
      <4>. QED
        BY <1>10, <4>1
    <3>3. req[s].code = "erase" => c.row = Row(s)
      <4>1. ASSUME req[s].code = "erase"
            PROVE  c = IF req[s].page = Row(s).permittedProgPage /\ Row(s).blockedReadReqCnt = 0
                       THEN [pass |-> TRUE, row |-> [Row(s) EXCEPT !.permittedProgPage = 0, !.blockedEraseReqFlag = FALSE]]
                       ELSE [pass |-> FALSE, row |-> Row(s)]
        BY <1>5, <2>2, <4>1, CheckErase
      <4> DEFINE e == [Row(s) EXCEPT !.permittedProgPage = 0, !.blockedEraseReqFlag = FALSE]
      <4>2. ASSUME req[s].code = "erase"
            PROVE  c = IF req[s].page = Row(s).permittedProgPage /\ Row(s).blockedReadReqCnt = 0
                       THEN [pass |-> TRUE, row |-> e] ELSE [pass |-> FALSE, row |-> Row(s)]
        BY <4>1, <4>2
      <4> HIDE DEF e
      <4>. QED
        BY <1>10, <4>2
    <3>. QED
      BY <2>2, <3>1, <3>2, <3>3 DEF NandCodes
  <2>4. rowDep' = rowDep
    BY <1>10, <2>3 DEF SetRow, Row, TypedRequests
  <2>5. Quiet
    BY <1>3, <1>6, <1>10, <2>4 DEF Quiet, TypedRequests, queues
  <2>6. ListsInv'
    BY <1>3, <1>10 DEF ListsInv, DmaList, DieLists
  <2>. QED
    BY <1>3, <1>7, <1>10, <2>5, <2>6
<1>. QED
  BY <1>4, <1>8, <1>9, <1>10
-----------------------------------------------------------------------------
\* The current block of a die is not free, and free blocks hold nothing.
FreeInv ==
    /\ \A d \in Dies : currentBlock[d] \notin freeBlocks[d]
    /\ \A d \in Dies : \A b \in freeBlocks[d] : currentPage[d][b] = 0

\* A page of a block that is in use or is taken from the free list.
NoCollection(a, d) ==
    /\ a.die = d /\ a.gc = <<>> /\ a.block \in Blocks /\ a.page \in Pages /\ a.page = currentPage[d][a.block]
    /\ a.currentPage = [currentPage[d] EXCEPT ![a.block] = a.page + 1]
    /\ a.free \in SUBSET freeBlocks[d] /\ a.block \notin a.free

\* The page that a collection of block v leaves in the reserve block.
Collects(a, d, v, c) ==
    /\ v \in Blocks /\ currentPage[d][v] = PAGES
    /\ \E n \in 0 .. PAGES - 1 : c \in [1 .. n -> Pages]
    /\ a.die = d /\ a.gc = Collection(d, v, c, a.block) /\ a.block \in Blocks /\ a.page \in Pages /\ a.page = Len(c)
    /\ currentPage[d][a.block] = 0
    /\ a.currentPage = [currentPage[d] EXCEPT ![v] = 0, ![a.block] = a.page + 1]
    /\ a.free = {v} /\ a.block # v

\* AddrTransWrite gives a page with or without a collection.
LEMMA AllocationIs ==
    ASSUME TypedFlash, FreeInv, NEW a \in AddrTransWrite
    PROVE  \E d \in Dies : NoCollection(a, d) \/ \E v, c : Collects(a, d, v, c)
<1>1. PICK d \in Dies : a \in FromCurrent(d) \cup FromNewBlock(d) \cup AfterCollection(d)
  BY DEF AddrTransWrite
<1>2. /\ currentBlock[d] \in Blocks /\ currentBlock[d] \notin freeBlocks[d] /\ freeBlocks[d] \in SUBSET Blocks
      /\ currentPage[d] \in [Blocks -> 0 .. PAGES] /\ \A b \in freeBlocks[d] : currentPage[d][b] = 0
      /\ PAGES \in Nat \ {0}
  BY GeometryAssumption DEF TypedFlash, FreeInv
<1>3. CASE a \in FromCurrent(d)
  <2>1. /\ currentPage[d][currentBlock[d]] < PAGES
        /\ a = Allocation(d, <<>>, currentBlock[d], currentPage[d][currentBlock[d]],
                          [currentPage[d] EXCEPT ![currentBlock[d]] = currentPage[d][currentBlock[d]] + 1], freeBlocks[d])
    BY <1>3 DEF FromCurrent
  <2>2. currentPage[d][currentBlock[d]] \in Pages
    BY <1>2, <2>1 DEF Pages
  <2>3. NoCollection(a, d)
    BY <1>2, <2>1, <2>2 DEF NoCollection, Allocation
  <2>. QED
    BY <2>3
<1>4. CASE a \in FromNewBlock(d)
  <2>1. PICK b \in freeBlocks[d] :
           a = Allocation(d, <<>>, b, 0, [currentPage[d] EXCEPT ![b] = 1], freeBlocks[d] \ {b})
    BY <1>4 DEF FromNewBlock
  <2>2. 0 \in Pages /\ 0 + 1 = 1
    BY <1>2 DEF Pages
  <2>3. NoCollection(a, d)
    BY <1>2, <2>1, <2>2 DEF NoCollection, Allocation
  <2>. QED
    BY <2>3
<1>5. CASE a \in AfterCollection(d)
  <2>1. PICK m \in (Blocks \ freeBlocks[d]) \X CopyOrders \X freeBlocks[d] :
           /\ currentPage[d][m[1]] = PAGES
           /\ a = Allocation(d, Collection(d, m[1], m[2], m[3]), m[3], Len(m[2]),
                     [currentPage[d] EXCEPT ![m[1]] = 0, ![m[3]] = Len(m[2]) + 1], {m[1]})
    BY <1>5 DEF AfterCollection
  <2>2. m[1] \in Blocks \ freeBlocks[d] /\ m[2] \in CopyOrders /\ m[3] \in freeBlocks[d]
    BY <2>1
  <2>3. PICK n \in 0 .. PAGES - 1 : m[2] \in [1 .. n -> Pages]
    BY <2>2 DEF CopyOrders
  <2>4. Len(m[2]) = n
    BY <2>3, LenProperties
  <2>5. Len(m[2]) \in Pages
    BY <1>2, <2>4 DEF Pages
  <2>6. Collects(a, d, m[1], m[2])
    BY <1>2, <2>1, <2>2, <2>3, <2>5 DEF Collects, Allocation
  <2>. QED
    BY <2>6
<1>. QED
  BY <1>1, <1>3, <1>4, <1>5

\* The requests of a collection, one by one.
LEMMA CollectionIs ==
    ASSUME TypedFlash, NEW d \in Dies, NEW v \in Blocks, currentPage[d][v] = PAGES, NEW b \in Blocks,
           NEW n \in 0 .. PAGES - 1, NEW c \in [1 .. n -> Pages]
    PROVE  /\ Collection(d, v, c, b) \in Seq(Proper)
           /\ Len(Collection(d, v, c, b)) = 2 * n + 1
           /\ \A i \in 1 .. n : /\ Collection(d, v, c, b)[2 * i - 1] = Request("read", d, d, v, c[i], "new")
                                /\ Collection(d, v, c, b)[2 * i] = Request("write", d, d, b, i - 1, "new")
           /\ Collection(d, v, c, b)[2 * n + 1] = Request("erase", NONE, d, v, PAGES, "new")
<1>1. PAGES \in Nat \ {0} /\ n \in Nat /\ d \in AllBufs /\ c \in Seq(Pages) /\ Len(c) = n
  BY GeometryAssumption, LenProperties DEF AllBufs
<1> DEFINE copy == [i \in 1 .. 2 * n |->
                       IF i % 2 = 1 THEN Request("read", d, d, v, c[(i + 1) \div 2], "new")
                       ELSE Request("write", d, d, b, i \div 2 - 1, "new")]
           last == Request("erase", NONE, d, v, PAGES, "new")
<1>2. Collection(d, v, c, b) = copy \o <<last>>
  BY <1>1 DEF Collection
<1>3. \A i \in 1 .. n : 2 * i - 1 \in 1 .. 2 * n /\ 2 * i \in 1 .. 2 * n
  BY <1>1
<1>4. \A i \in 1 .. n : (2 * i - 1) % 2 = 1 /\ ((2 * i - 1) + 1) \div 2 = i /\ (2 * i) % 2 = 0 /\ (2 * i) \div 2 = i
  BY <1>1
<1>5. \A i \in 1 .. n : copy[2 * i - 1] = Request("read", d, d, v, c[i], "new") /\ copy[2 * i] = Request("write", d, d, b, i - 1, "new")
  BY <1>3, <1>4
<1>6. \A p \in Pages : Request("read", d, d, v, p, "new") \in Proper /\ Request("write", d, d, b, p, "new") \in Proper
  BY <1>1 DEF Proper, Requests, Request, Codes, NandCodes, Pages
<1>7. last \in Proper
  BY <1>1 DEF Proper, Requests, Request, Codes, NandCodes
<1>8. ASSUME NEW i \in 1 .. 2 * n PROVE copy[i] \in Proper
  <2>1. CASE i % 2 = 1
    <3>1. (i + 1) \div 2 \in 1 .. n
      BY <1>1, <2>1
    <3>. QED
      BY <1>6, <2>1, <3>1
  <2>2. CASE i % 2 # 1
    <3>1. i \div 2 - 1 \in Pages
      BY <1>1, <2>2 DEF Pages
    <3>. QED
      BY <1>6, <2>2, <3>1
  <2>. QED
    BY <2>1, <2>2
<1>9. copy \in Seq(Proper) /\ Len(copy) = 2 * n
  <2>1. 2 * n \in Nat
    BY <1>1
  <2>. QED
    BY <1>8, <2>1
<1> HIDE DEF copy, last
<1>10. <<last>> \in Seq(Proper) /\ Len(<<last>>) = 1 /\ <<last>>[1] = last
  BY <1>7
<1>11. copy \o <<last>> \in Seq(Proper) /\ Len(copy \o <<last>>) = 2 * n + 1
       /\ \A i \in 1 .. 2 * n + 1 : (copy \o <<last>>)[i] = IF i <= 2 * n THEN copy[i] ELSE last
  <2>1. /\ copy \o <<last>> \in Seq(Proper)
        /\ Len(copy \o <<last>>) = Len(copy) + Len(<<last>>)
        /\ \A i \in 1 .. Len(copy) + Len(<<last>>) :
              (copy \o <<last>>)[i] = IF i <= Len(copy) THEN copy[i] ELSE <<last>>[i - Len(copy)]
    BY <1>9, <1>10, ConcatProperties
  <2>2. \A i \in 1 .. 2 * n + 1 : ~(i <= 2 * n) => i - 2 * n = 1
    BY <1>1
  <2>. QED
    BY <1>9, <1>10, <2>1, <2>2
<1>12. \A i \in 1 .. 2 * n : i \in 1 .. 2 * n + 1 /\ i <= 2 * n
  BY <1>1
<1>13. 2 * n + 1 \in 1 .. 2 * n + 1 /\ ~(2 * n + 1 <= 2 * n)
  BY <1>1
<1>14. \A i \in 1 .. n : (copy \o <<last>>)[2 * i - 1] = copy[2 * i - 1] /\ (copy \o <<last>>)[2 * i] = copy[2 * i]
  BY <1>3, <1>11, <1>12
<1>. QED
  BY <1>2, <1>5, <1>11, <1>13, <1>14 DEF last
-----------------------------------------------------------------------------
\* The invariant of the requests when nothing happens to one of them.
LEMMA QuietKeeps ==
    ASSUME TypedRequests, TypedCpu, TagsInv, ListsInv, Quiet, selecting # NONE /\ ~IsRead(selecting) => ~Walking'
    PROVE  TypedRequests' /\ TagsInv' /\ ListsInv'
<1>1. /\ UNCHANGED <<req, chains, queues, rowDep, order, selecting, bufBlocked>> /\ queue' \in [Slots -> Queues]
      /\ UNCHANGED <<prevBlockingReq, nextBlockingReq, blockingReqTail>>
      /\ UNCHANGED <<nvmeDmaReqQ, nandReqQ, blockedByRowAddrDepReqQ>>
  BY DEF Quiet, chains, queues
<1>2. TypedRequests'
  BY <1>1 DEF TypedRequests
<1>3. \A s \in Slots : /\ Live(s)' <=> Live(s)
                       /\ Live(s) \/ s = selecting => queue'[s] = queue[s]
                       /\ queue'[s] # queue[s] => queue[s] \in {"free", "cpu", "slice"} /\ queue'[s] \in {"free", "cpu", "slice"}
  BY <1>1 DEF Quiet, Live
<1>4. \A s \in Slots : \A tag \in {"dma", "nand", "rowDep", "bufDep"} : queue'[s] = tag <=> queue[s] = tag
  BY <1>3
<1>5. \A s \in Slots : (Blocked(s)' <=> Blocked(s)) /\ (Running(s)' <=> Running(s))
  BY <1>4 DEF Blocked, Running
<1>6. ListsInv'
  BY <1>1, <1>4 DEF ListsInv, DmaList, DieLists
<1>7. TagsInv'
  <2>1. \A s \in Slots : (Blocked(s)' \/ Running(s)' => Live(s)') /\ (Live(s)' => Blocked(s)' \/ Running(s)' \/ s = selecting')
    BY <1>1, <1>3, <1>5 DEF TagsInv
  <2>2. \A s \in Slots : /\ queue'[s] = "dma" => IsDma(s)'
                         /\ queue'[s] \in {"nand", "rowDep"} => req'[s].code \in NandCodes
                         /\ queue'[s] = "bufDep" => req'[s].buf # NONE
    BY <1>1, <1>4 DEF TagsInv, IsDma
  <2>3. selecting' # NONE => queue'[selecting'] = "cpu" /\ Live(selecting)'
    <3>1. CASE selecting \in Slots
      BY <1>1, <1>3, <3>1 DEF TagsInv
    <3>2. CASE selecting = NONE
      BY <1>1, <3>2
    <3>. QED
      BY <3>1, <3>2 DEF TypedCpu
  <2>4. /\ selecting' # NONE /\ ~IsRead(selecting)' => ~Walking' /\ (bufBlocked' <=> prevBlockingReq'[selecting'] # NONE)
        /\ selecting' # NONE /\ ~bufBlocked' => prevBlockingReq'[selecting'] = NONE
    BY <1>1 DEF TagsInv, IsRead
  <2>. QED
    BY <2>1, <2>2, <2>3, <2>4 DEF TagsInv
<1>. QED
  BY <1>2, <1>6, <1>7
-----------------------------------------------------------------------------
\* What EvictDataBufEntry asks for, and the blocks it leaves.
LEMMA EvictIs ==
    ASSUME TypedFlash, FreeInv, NEW b \in Bufs, NEW a \in AddrTransWrite, Remap(a)
    PROVE  /\ EvictDataBufEntry(b, a) \in Seq(Proper \cup {Hold})
           /\ currentBlock' \in [Dies -> Blocks]
           /\ currentPage' \in [Dies -> [Blocks -> 0 .. PAGES]]
           /\ freeBlocks' \in [Dies -> SUBSET Blocks]
           /\ FreeInv'
<1>1. PICK d \in Dies : NoCollection(a, d) \/ \E v, c : Collects(a, d, v, c)
  BY AllocationIs
<1>2. PAGES \in Nat \ {0}
  BY GeometryAssumption
<1>3. /\ currentBlock' = [currentBlock EXCEPT ![a.die] = a.block]
      /\ currentPage' = [currentPage EXCEPT ![a.die] = a.currentPage]
      /\ freeBlocks' = [freeBlocks EXCEPT ![a.die] = a.free]
  BY DEF Remap
<1>4. /\ a.die = d /\ a.block \in Blocks /\ a.page \in Pages /\ a.gc \in Seq(Proper)
      /\ a.currentPage \in [Blocks -> 0 .. PAGES] /\ a.free \in SUBSET Blocks
      /\ a.block \notin a.free /\ \A k \in a.free : a.currentPage[k] = 0
  <2>1. CASE NoCollection(a, d)
    <3>1. /\ a.die = d /\ a.block \in Blocks /\ a.page \in Pages /\ a.gc = <<>>
          /\ a.currentPage = [currentPage[d] EXCEPT ![a.block] = a.page + 1]
          /\ a.free \in SUBSET freeBlocks[d] /\ a.block \notin a.free
      BY <2>1 DEF NoCollection
    <3>2. currentPage[d] \in [Blocks -> 0 .. PAGES] /\ freeBlocks[d] \in SUBSET Blocks /\ a.page + 1 \in 0 .. PAGES
      BY <1>2, <3>1 DEF TypedFlash, Pages
    <3>3. a.currentPage \in [Blocks -> 0 .. PAGES] /\ \A k \in a.free : a.currentPage[k] = 0
      BY <3>1, <3>2 DEF FreeInv
    <3>4. a.gc \in Seq(Proper)
      BY <3>1
    <3>. QED
      BY <3>1, <3>2, <3>3, <3>4
  <2>2. CASE \E v, c : Collects(a, d, v, c)
    <3>1. PICK v, c : Collects(a, d, v, c)
      BY <2>2
    <3>2. /\ v \in Blocks /\ currentPage[d][v] = PAGES
          /\ \E n \in 0 .. PAGES - 1 : c \in [1 .. n -> Pages]
          /\ a.die = d /\ a.gc = Collection(d, v, c, a.block) /\ a.block \in Blocks /\ a.page \in Pages
          /\ a.currentPage = [currentPage[d] EXCEPT ![v] = 0, ![a.block] = a.page + 1]
          /\ a.free = {v} /\ a.block # v
      BY <3>1 DEF Collects
    <3>3. a.gc \in Seq(Proper)
      BY <3>2, CollectionIs
    <3>4. currentPage[d] \in [Blocks -> 0 .. PAGES] /\ a.page + 1 \in 0 .. PAGES
      BY <1>2, <3>2 DEF TypedFlash, Pages
    <3>5. a.currentPage \in [Blocks -> 0 .. PAGES] /\ a.currentPage[v] = 0
      BY <1>2, <3>2, <3>4
    <3>. QED
      BY <3>2, <3>3, <3>5
  <2>. QED
    BY <1>1, <2>1, <2>2
<1>5. Request("write", b, a.die, a.block, a.page, "held") \in Proper
  BY <1>2, <1>4 DEF Proper, Requests, Request, Codes, NandCodes, Pages, AllBufs
<1>6. EvictDataBufEntry(b, a) \in Seq(Proper \cup {Hold})
  <2>1. <<Hold>> \in Seq(Proper \cup {Hold}) /\ <<Request("write", b, a.die, a.block, a.page, "held")>> \in Seq(Proper \cup {Hold})
    BY <1>5
  <2>2. a.gc \in Seq(Proper \cup {Hold})
    BY <1>4
  <2>. QED
    BY <2>1, <2>2 DEF EvictDataBufEntry
<1>7. /\ currentBlock' \in [Dies -> Blocks]
      /\ currentPage' \in [Dies -> [Blocks -> 0 .. PAGES]]
      /\ freeBlocks' \in [Dies -> SUBSET Blocks]
  BY <1>3, <1>4 DEF TypedFlash
<1>8. ASSUME NEW e \in Dies
      PROVE  currentBlock'[e] \notin freeBlocks'[e] /\ \A k \in freeBlocks'[e] : currentPage'[e][k] = 0
  <2>1. CASE e = d
    <3>1. currentBlock'[e] = a.block /\ freeBlocks'[e] = a.free /\ currentPage'[e] = a.currentPage
      BY <1>3, <1>4, <2>1 DEF TypedFlash
    <3>. QED
      BY <1>4, <3>1
  <2>2. CASE e # d
    <3>1. currentBlock'[e] = currentBlock[e] /\ freeBlocks'[e] = freeBlocks[e] /\ currentPage'[e] = currentPage[e]
      BY <1>3, <1>4, <2>2 DEF TypedFlash
    <3>. QED
      BY <3>1 DEF FreeInv
  <2>. QED
    BY <2>1, <2>2
<1>9. FreeInv'
  BY <1>8 DEF FreeInv
<1>. QED
  BY <1>6, <1>7, <1>9

\* What a slice that finds or takes buffer b asks for.
LEMMA FetchIs ==
    ASSUME currentPage' \in [Dies -> [Blocks -> 0 .. PAGES]], NEW b \in Bufs, NEW code \in HostCodes
    PROVE  /\ Transfer(b, code) \in Seq(Proper \cup {Hold})
           /\ Fetch(b, code) \in SUBSET Seq(Proper \cup {Hold})
<1>1. code \in {"rx", "tx"} /\ PAGES \in Nat \ {0}
  BY PoolAssumption, GeometryAssumption
<1>2. Request(code, b, NONE, NONE, NONE, "slice") \in Proper
  BY <1>1 DEF Proper, Requests, Request, Codes, NandCodes, AllBufs
<1>3. \A d \in Dies, k \in Blocks, p \in Pages : Request("read", b, d, k, p, "new") \in Proper
  BY <1>1 DEF Proper, Requests, Request, Codes, NandCodes, AllBufs, Pages
<1>4. Reads(b) \in SUBSET Seq(Proper \cup {Hold})
  <2>1. ASSUME NEW x \in Dies \X Blocks \X Pages
        PROVE  <<Request("read", b, x[1], x[2], x[3], "new")>> \in Seq(Proper \cup {Hold})
    BY <1>3
  <2>2. <<>> \in Seq(Proper \cup {Hold})
    OBVIOUS
  <2>. QED
    BY <2>1, <2>2 DEF Reads
<1>5. <<>> \in Seq(Proper \cup {Hold})
  OBVIOUS
<1>. QED
  BY <1>2, <1>4, <1>5 DEF Transfer, Fetch
-----------------------------------------------------------------------------
\* The part of the invariant that holds of single entries.
Base == Typed /\ TagsInv /\ HeldInv /\ ListsInv /\ FreeInv

\* A step that leaves the entries and the blocks alone.
LEMMA SameEntries ==
    ASSUME Base, UNCHANGED <<queue, req, chains, queues, rowDep, order, programmed, cpu, ftl>>,
           TypedWalks', selecting # NONE /\ ~IsRead(selecting) => ~Walking'
    PROVE  Base' /\ Quiet
<1>1. UNCHANGED <<toSplit, sliceReqQ, slice, held, todo, selecting, bufBlocked, toFlush,
                  dirty, currentBlock, currentPage, freeBlocks>>
  BY DEF cpu, ftl
<1>2. Quiet
  BY <1>1 DEF Quiet, Base, Typed, TypedRequests
<1>3. TypedRequests' /\ TagsInv' /\ ListsInv'
  BY <1>2, QuietKeeps DEF Base, Typed
<1>4. TypedCpu' /\ TypedFlash'
  BY <1>1 DEF Base, Typed, TypedCpu, TypedFlash
<1>5. HeldInv' /\ FreeInv'
  BY <1>1 DEF Base, HeldInv, FreeInv, Live
<1>. QED
  BY <1>2, <1>3, <1>4, <1>5 DEF Base, Typed

\* The engine only marks a transfer as done, and
LEMMA DmaEngineIs ==
    ASSUME Base, Engine
    PROVE  Base' /\ Quiet
<1>1. PICK i \in 1 .. Len(nvmeDmaReqQ) : DmaEngine(i)
  BY DEF Engine
<1>2. /\ UNCHANGED <<queue, req, chains, queues, rowDep, walks, cpu, ftl, order, programmed>>
      /\ hwDone' = hwDone \cup {nvmeDmaReqQ[i]}
  BY <1>1 DEF DmaEngine
<1>3. TypedWalks' /\ (Walking' <=> Walking)
  <2>1. nvmeDmaReqQ[i] \in Slots
    BY ElementOfSeq DEF Base, Typed, TypedRequests
  <2>. QED
    BY <1>2, <2>1 DEF Base, Typed, TypedWalks, walks, queues, Walking
<1>. QED
  BY <1>2, <1>3, SameEntries DEF Base, TagsInv

\* the scheduler only begins to walk.
LEMMA StartWalkIs ==
    ASSUME Base, StartCheckDone \/ \E d \in Dies : StartReleaseRow(d)
    PROVE  Base' /\ Quiet
<1>1. Polling /\ UNCHANGED <<queue, req, chains, queues, rowDep, hwDone, cpu, ftl, order, programmed>>
  BY DEF StartCheckDone, StartReleaseRow
<1>2. selecting # NONE => IsRead(selecting)
  BY <1>1 DEF Polling, CpuIdle, WaitsForEntry, WaitsForErase
<1>3. CASE StartCheckDone
  <2>1. Len(nvmeDmaReqQ) \in 0 .. Len(nvmeDmaReqQ)
    BY LenProperties DEF Base, Typed, TypedRequests
  <2>2. TypedWalks'
    BY <1>1, <1>3, <2>1 DEF StartCheckDone, Base, Typed, TypedWalks, queues
  <2>. QED
    BY <1>1, <1>2, <2>2, SameEntries
<1>4. CASE \E d \in Dies : StartReleaseRow(d)
  <2>1. TypedWalks'
    BY <1>1, <1>4 DEF StartReleaseRow, Base, Typed, TypedWalks, queues
  <2>. QED
    BY <1>1, <1>2, <2>1, SameEntries
<1>. QED
  BY <1>3, <1>4

\* The walk over the transfers passes one that is not done.
LEMMA WalkOnIs ==
    ASSUME Base, CheckDoneNvmeDmaReq, ~DmaFinished
    PROVE  Base' /\ Quiet
<1>1. /\ dmaWalk # 0 /\ dmaWalk' = dmaWalk - 1
      /\ UNCHANGED <<queue, req, chains, queues, rowDep, hwDone, order, rowWalk, cpu, ftl, programmed>>
  BY DEF CheckDoneNvmeDmaReq, DmaFinished
<1>2. nvmeDmaReqQ' = nvmeDmaReqQ /\ Len(nvmeDmaReqQ) \in Nat /\ dmaWalk \in 0 .. Len(nvmeDmaReqQ)
  BY <1>1, LenProperties DEF queues, Base, Typed, TypedRequests, TypedWalks
<1>3. TypedWalks'
  BY <1>1, <1>2 DEF Base, Typed, TypedWalks
<1>4. selecting # NONE => IsRead(selecting)
  BY <1>1 DEF Base, TagsInv, Walking
<1>. QED
  BY <1>1, <1>3, <1>4, SameEntries

\* The CPU begins a command or a flush, or takes an entry.
LEMMA HostIs ==
    ASSUME Base, Host
    PROVE  Base' /\ Quiet
<1>1. /\ UNCHANGED <<queue, req, chains, queues, rowDep, hwDone, walks, sliceReqQ, slice, held, todo,
                     selecting, bufBlocked, ftl, order, programmed>>
      /\ toSplit' \in 0 .. MaxSlices /\ toFlush' \in SUBSET Bufs
  <2>1. CASE \E k \in 1 .. MaxSlices : StartCommand(k)
    <3>1. PICK k \in 1 .. MaxSlices : StartCommand(k)
      BY <2>1
    <3>. QED
      BY <3>1 DEF StartCommand, Base, Typed, TypedCpu
  <2>2. CASE StartFlush
    BY <2>2 DEF StartFlush, Base, Typed, TypedCpu, TypedFlash
  <2>. QED
    BY <2>1, <2>2 DEF Host
<1>2. UNCHANGED <<dmaWalk, rowWalk, nvmeDmaReqQ, dirty, currentBlock, currentPage, freeBlocks>>
  BY <1>1 DEF walks, queues, ftl
<1>3. Quiet
  BY <1>1 DEF Quiet, Base, Typed, TypedRequests
<1>4. TypedWalks' /\ (Walking' <=> Walking)
  BY <1>1, <1>2 DEF Base, Typed, TypedWalks, Walking
<1>5. TypedRequests' /\ TagsInv' /\ ListsInv'
  BY <1>3, <1>4, QuietKeeps DEF Base, Typed, TagsInv
<1>6. TypedCpu' /\ TypedFlash'
  BY <1>1, <1>2 DEF Base, Typed, TypedCpu, TypedFlash
<1>7. HeldInv' /\ FreeInv'
  BY <1>1, <1>2 DEF Base, HeldInv, FreeInv, Live
<1>. QED
  BY <1>3, <1>4, <1>5, <1>6, <1>7 DEF Base, Typed

\* A free entry holds no request.
LEMMA FreeEntry ==
    ASSUME Base, NEW s \in Slots, queue[s] \in {"free", "slice"} \/ (queue[s] = "cpu" /\ selecting = NONE)
    PROVE  ~Live(s) /\ s # selecting
<1>1. s # selecting
  <2>1. s # NONE
    BY GeometryAssumption
  <2>. QED
    BY <2>1 DEF Base, TagsInv
<1>2. ~Blocked(s) /\ ~Running(s)
  BY DEF Blocked, Running
<1>. QED
  BY <1>1, <1>2 DEF Base, TagsInv

\* The CPU takes an entry for a slice,
LEMMA SplitIs ==
    ASSUME Base, SplitSlice
    PROVE  Base' /\ Quiet
<1>1. PICK s \in Free : queue' = [queue EXCEPT ![s] = "slice"] /\ sliceReqQ' = Append(sliceReqQ, s)
  BY DEF SplitSlice
<1>2. /\ toSplit > 0 /\ toSplit' = toSplit - 1
      /\ UNCHANGED <<req, chains, queues, rowDep, hwDone, walks, slice, held, todo, selecting,
                     bufBlocked, toFlush, ftl, order, programmed>>
  BY DEF SplitSlice
<1>3. UNCHANGED <<dmaWalk, rowWalk, nvmeDmaReqQ, dirty, currentBlock, currentPage, freeBlocks>>
  BY <1>2 DEF walks, queues, ftl
<1>4. s \in Slots /\ queue[s] = "free" /\ queue \in [Slots -> Queues]
  BY DEF Free, Base, Typed, TypedRequests
<1>5. ~Live(s) /\ s # selecting
  BY <1>4, FreeEntry
<1>6. queue' \in [Slots -> Queues] /\ queue'[s] = "slice" /\ \A x \in Slots \ {s} : queue'[x] = queue[x]
  BY <1>1, <1>4 DEF Queues
<1>7. Quiet
  BY <1>2, <1>4, <1>5, <1>6 DEF Quiet
<1>8. TypedWalks' /\ (Walking' <=> Walking)
  BY <1>2, <1>3 DEF Base, Typed, TypedWalks, Walking
<1>9. TypedRequests' /\ TagsInv' /\ ListsInv'
  BY <1>7, <1>8, QuietKeeps DEF Base, Typed, TagsInv
<1>10. sliceReqQ \in Seq(Slots) /\ Distinct(sliceReqQ) /\ ~InList(sliceReqQ, s)
  BY <1>4 DEF Base, Typed, TypedCpu, HeldInv
<1>11. /\ sliceReqQ' \in Seq(Slots) /\ Distinct(sliceReqQ')
       /\ \A x : InList(sliceReqQ', x) <=> InList(sliceReqQ, x) \/ x = s
  BY <1>1, <1>4, <1>10, AppendList
<1>12. TypedCpu' /\ TypedFlash'
  <2>1. toSplit' \in 0 .. MaxSlices
    BY <1>2, PoolAssumption DEF Base, Typed, TypedCpu
  <2>. QED
    BY <1>2, <1>3, <1>11, <2>1 DEF Base, Typed, TypedCpu, TypedFlash
<1>13. FreeInv'
  BY <1>3 DEF Base, FreeInv
<1>14. HeldInv'
  <2>1. \A x \in Slots : InList(sliceReqQ', x) => queue'[x] = "slice" /\ ~Live(x)'
    BY <1>2, <1>5, <1>6, <1>11 DEF Base, HeldInv, Live
  <2>2. ASSUME NEW x \in {held, slice}, x # NONE
        PROVE  queue'[x] = "cpu" /\ ~Live(x)'
    <3>1. x \in Slots /\ queue[x] = "cpu" /\ ~Live(x)
      BY <2>2 DEF Base, Typed, TypedCpu, HeldInv
    <3>. QED
      BY <1>2, <1>4, <1>6, <3>1 DEF Live
  <2>. QED
    BY <1>2, <1>11, <2>1, <2>2 DEF HeldInv
<1>. QED
  BY <1>7, <1>8, <1>9, <1>12, <1>13, <1>14 DEF Base, Typed

\* or one for the data it is about to evict.
LEMMA HoldIs ==
    ASSUME Base, HoldEntry
    PROVE  Base' /\ Quiet
<1>1. PICK s \in Free : held' = s /\ queue' = [queue EXCEPT ![s] = "cpu"]
  BY DEF HoldEntry
<1>2. /\ todo # <<>> /\ todo' = Tail(todo)
      /\ UNCHANGED <<req, chains, queues, rowDep, hwDone, walks, toSplit, sliceReqQ, slice, selecting,
                     bufBlocked, toFlush, ftl, order, programmed>>
  BY DEF HoldEntry
<1>3. UNCHANGED <<dmaWalk, rowWalk, nvmeDmaReqQ, dirty, currentBlock, currentPage, freeBlocks>>
  BY <1>2 DEF walks, queues, ftl
<1>4. s \in Slots /\ queue[s] = "free" /\ queue \in [Slots -> Queues]
  BY DEF Free, Base, Typed, TypedRequests
<1>5. ~Live(s) /\ s # selecting
  BY <1>4, FreeEntry
<1>6. queue' \in [Slots -> Queues] /\ queue'[s] = "cpu" /\ \A x \in Slots \ {s} : queue'[x] = queue[x]
  BY <1>1, <1>4 DEF Queues
<1>7. Quiet
  BY <1>2, <1>4, <1>5, <1>6 DEF Quiet
<1>8. TypedWalks' /\ (Walking' <=> Walking)
  BY <1>2, <1>3 DEF Base, Typed, TypedWalks, Walking
<1>9. TypedRequests' /\ TagsInv' /\ ListsInv'
  BY <1>7, <1>8, QuietKeeps DEF Base, Typed, TagsInv
<1>10. todo' \in Seq(Proper \cup {Hold})
  BY <1>2, HeadTailProperties DEF Base, Typed, TypedCpu
<1>11. TypedCpu' /\ TypedFlash'
  BY <1>1, <1>2, <1>3, <1>4, <1>10 DEF Base, Typed, TypedCpu, TypedFlash
<1>12. FreeInv'
  BY <1>3 DEF Base, FreeInv
<1>13. HeldInv'
  <2>1. \A x \in Slots : InList(sliceReqQ', x) => queue'[x] = "slice" /\ ~Live(x)'
    BY <1>2, <1>4, <1>6 DEF Base, HeldInv, Live
  <2>2. slice # NONE => queue'[slice] = "cpu" /\ ~Live(slice)'
    <3>1. slice # NONE => slice \in Slots /\ queue[slice] = "cpu" /\ ~Live(slice)
      BY DEF Base, Typed, TypedCpu, HeldInv
    <3>. QED
      BY <1>2, <1>4, <1>6, <3>1 DEF Live
  <2>3. ~Live(s)' /\ Distinct(sliceReqQ')
    BY <1>2, <1>5 DEF Live, Base, HeldInv
  <2>. QED
    BY <1>1, <1>2, <1>6, <2>1, <2>2, <2>3 DEF HeldInv
<1>. QED
  BY <1>7, <1>8, <1>9, <1>11, <1>12, <1>13 DEF Base, Typed
-----------------------------------------------------------------------------
\* The CPU takes the next slice.
LEMMA TakeIs ==
    ASSUME Base, TakeSlice, todo' \in Seq(Proper \cup {Hold}), dirty' \in SUBSET Bufs,
           currentBlock' \in [Dies -> Blocks], currentPage' \in [Dies -> [Blocks -> 0 .. PAGES]],
           freeBlocks' \in [Dies -> SUBSET Blocks], FreeInv'
    PROVE  Base' /\ Quiet
<1>2. PICK s : s = Head(sliceReqQ)
  OBVIOUS
<1>1. /\ sliceReqQ # <<>> /\ selecting = NONE
      /\ slice' = s /\ sliceReqQ' = Tail(sliceReqQ) /\ queue' = [queue EXCEPT ![s] = "cpu"]
      /\ UNCHANGED <<req, chains, queues, rowDep, hwDone, walks, toSplit, held, selecting,
                     bufBlocked, toFlush, order, programmed>>
  BY <1>2 DEF TakeSlice
<1>3. UNCHANGED <<dmaWalk, rowWalk, nvmeDmaReqQ>>
  BY <1>1 DEF walks, queues
<1>4. sliceReqQ \in Seq(Slots) /\ Distinct(sliceReqQ)
  BY DEF Base, Typed, TypedCpu, HeldInv
<1>5. /\ s \in Slots /\ InList(sliceReqQ, s)
      /\ Tail(sliceReqQ) \in Seq(Slots) /\ Distinct(Tail(sliceReqQ))
      /\ \A x : InList(Tail(sliceReqQ), x) <=> InList(sliceReqQ, x) /\ x # s
  BY <1>1, <1>2, <1>4, TailList
<1>6. queue[s] = "slice" /\ ~Live(s) /\ queue \in [Slots -> Queues]
  BY <1>5 DEF Base, Typed, TypedRequests, HeldInv
<1>7. s # selecting
  BY <1>5, <1>6, FreeEntry
<1>8. queue' \in [Slots -> Queues] /\ queue'[s] = "cpu" /\ \A x \in Slots \ {s} : queue'[x] = queue[x]
  BY <1>1, <1>5, <1>6 DEF Queues
<1>9. Quiet
  BY <1>1, <1>5, <1>6, <1>7, <1>8 DEF Quiet
<1>10. TypedWalks' /\ (Walking' <=> Walking)
  BY <1>1, <1>3 DEF Base, Typed, TypedWalks, Walking
<1>11. TypedRequests' /\ TagsInv' /\ ListsInv'
  BY <1>9, <1>10, QuietKeeps DEF Base, Typed, TagsInv
<1>12. TypedCpu'
  BY <1>1, <1>5 DEF Base, Typed, TypedCpu
<1>13. TypedFlash'
  BY <1>1 DEF Base, Typed, TypedFlash
<1>14. HeldInv'
  <2>1. \A x \in Slots : InList(sliceReqQ', x) => queue'[x] = "slice" /\ ~Live(x)'
    BY <1>1, <1>5, <1>8 DEF Base, HeldInv, Live
  <2>2. held # NONE => queue'[held] = "cpu" /\ ~Live(held)'
    <3>1. held # NONE => held \in Slots /\ queue[held] = "cpu" /\ ~Live(held)
      BY DEF Base, Typed, TypedCpu, HeldInv
    <3>. QED
      BY <1>1, <1>6, <1>8, <3>1 DEF Live
  <2>3. ~Live(s)' /\ Distinct(sliceReqQ')
    BY <1>1, <1>5, <1>6 DEF Live
  <2>. QED
    BY <1>1, <1>8, <2>1, <2>2, <2>3 DEF HeldInv
<1>. QED
  BY <1>9, <1>10, <1>11, <1>12, <1>13, <1>14 DEF Base, Typed

\* What a step of the CPU asks for, on top of nothing, and the blocks it leaves.
Asks ==
    /\ todo' \in Seq(Proper \cup {Hold})
    /\ dirty' \in SUBSET Bufs
    /\ currentBlock' \in [Dies -> Blocks]
    /\ currentPage' \in [Dies -> [Blocks -> 0 .. PAGES]]
    /\ freeBlocks' \in [Dies -> SUBSET Blocks]
    /\ FreeInv'

\* A step that leaves the mapping alone.
LEMMA SameBlocks ==
    ASSUME Base, UNCHANGED <<currentBlock, currentPage, freeBlocks>>
    PROVE  /\ currentBlock' \in [Dies -> Blocks]
           /\ currentPage' \in [Dies -> [Blocks -> 0 .. PAGES]]
           /\ freeBlocks' \in [Dies -> SUBSET Blocks]
           /\ FreeInv'
  BY DEF Base, Typed, TypedFlash, FreeInv

\* A slice only makes the CPU ask for requests,
LEMMA TransformIs ==
    ASSUME Base, Transform
    PROVE  Base' /\ Quiet
<1>1. PICK b \in Bufs, code \in HostCodes : BufferHit(b, code) \/ BufferMiss(b, code)
  BY DEF Transform
<1>2. TakeSlice
  BY <1>1 DEF BufferHit, BufferMiss
<1>3. dirty \in SUBSET Bufs
  BY DEF Base, Typed, TypedFlash
<1>4. Asks
  <2>1. CASE BufferHit(b, code)
    <3>1. UNCHANGED <<currentBlock, currentPage, freeBlocks>> /\ todo' = Transfer(b, code) /\ dirty' \in SUBSET Bufs
      BY <1>3, <2>1 DEF BufferHit
    <3>2. /\ currentBlock' \in [Dies -> Blocks] /\ freeBlocks' \in [Dies -> SUBSET Blocks] /\ FreeInv'
          /\ currentPage' \in [Dies -> [Blocks -> 0 .. PAGES]]
      BY <3>1, SameBlocks
    <3>3. Transfer(b, code) \in Seq(Proper \cup {Hold})
      BY <3>2, FetchIs
    <3>. QED
      BY <3>1, <3>2, <3>3 DEF Asks
  <2>2. CASE BufferMiss(b, code)
    <3>1. dirty' \in SUBSET Bufs
      BY <1>3, <2>2 DEF BufferMiss
    <3>2. CASE /\ UNCHANGED <<currentBlock, currentPage, freeBlocks>>
               /\ \E r \in Fetch(b, code) : todo' = r \o Transfer(b, code)
      <4>1. /\ currentBlock' \in [Dies -> Blocks] /\ freeBlocks' \in [Dies -> SUBSET Blocks] /\ FreeInv'
            /\ currentPage' \in [Dies -> [Blocks -> 0 .. PAGES]]
        BY <3>2, SameBlocks
      <4>2. PICK r \in Fetch(b, code) : todo' = r \o Transfer(b, code)
        BY <3>2
      <4>3. r \in Seq(Proper \cup {Hold}) /\ Transfer(b, code) \in Seq(Proper \cup {Hold})
        BY <4>1, <4>2, FetchIs
      <4>4. todo' \in Seq(Proper \cup {Hold})
        BY <4>2, <4>3
      <4>. QED
        BY <3>1, <4>1, <4>4 DEF Asks
    <3>3. CASE \E a \in AddrTransWrite :
                 /\ Remap(a)
                 /\ \E r \in Fetch(b, code) : todo' = EvictDataBufEntry(b, a) \o r \o Transfer(b, code)
      <4>1. PICK a \in AddrTransWrite :
                 /\ Remap(a)
                 /\ \E r \in Fetch(b, code) : todo' = EvictDataBufEntry(b, a) \o r \o Transfer(b, code)
        BY <3>3
      <4>2. /\ EvictDataBufEntry(b, a) \in Seq(Proper \cup {Hold})
            /\ currentBlock' \in [Dies -> Blocks]
            /\ currentPage' \in [Dies -> [Blocks -> 0 .. PAGES]]
            /\ freeBlocks' \in [Dies -> SUBSET Blocks]
            /\ FreeInv'
        BY <4>1, EvictIs DEF Base, Typed
      <4>3. PICK r \in Fetch(b, code) : todo' = EvictDataBufEntry(b, a) \o r \o Transfer(b, code)
        BY <4>1
      <4>4. r \in Seq(Proper \cup {Hold}) /\ Transfer(b, code) \in Seq(Proper \cup {Hold})
        BY <4>2, <4>3, FetchIs
      <4>5. todo' \in Seq(Proper \cup {Hold})
        BY <4>2, <4>3, <4>4
      <4>. QED
        BY <3>1, <4>2, <4>5 DEF Asks
    <3>. QED
      BY <2>2, <3>2, <3>3 DEF BufferMiss
  <2>. QED
    BY <1>1, <2>1, <2>2
<1>. QED
  BY <1>2, <1>4, TakeIs DEF Asks

\* and so does a turn of the flush.
LEMMA FlushIs ==
    ASSUME Base, FlushDataBuf
    PROVE  Base' /\ Quiet
<1>1. UNCHANGED <<queue, req, chains, queues, rowDep, hwDone, walks, toSplit, sliceReqQ, slice, held,
                  selecting, bufBlocked, order, programmed>>
  BY DEF FlushDataBuf
<1>2. UNCHANGED <<dmaWalk, rowWalk, nvmeDmaReqQ>>
  BY <1>1 DEF walks, queues
<1>3. Asks /\ toFlush' \in SUBSET Bufs
  <2>1. PICK b \in toFlush, a \in AddrTransWrite :
           /\ Remap(a) /\ todo' = EvictDataBufEntry(b, a) /\ dirty' = dirty \ {b}
           /\ toFlush' = toFlush \ {b}
    BY DEF FlushDataBuf
  <2>2. b \in Bufs /\ dirty' \in SUBSET Bufs /\ toFlush' \in SUBSET Bufs
    BY <2>1 DEF Base, Typed, TypedFlash, TypedCpu
  <2>3. /\ EvictDataBufEntry(b, a) \in Seq(Proper \cup {Hold})
        /\ currentBlock' \in [Dies -> Blocks]
        /\ currentPage' \in [Dies -> [Blocks -> 0 .. PAGES]]
        /\ freeBlocks' \in [Dies -> SUBSET Blocks]
        /\ FreeInv'
    BY <2>1, <2>2, EvictIs DEF Base, Typed
  <2>. QED
    BY <2>1, <2>2, <2>3 DEF Asks
<1>4. Quiet
  BY <1>1 DEF Quiet, Base, Typed, TypedRequests
<1>5. TypedWalks' /\ (Walking' <=> Walking)
  BY <1>1, <1>2 DEF Base, Typed, TypedWalks, Walking
<1>6. TypedRequests' /\ TagsInv' /\ ListsInv'
  BY <1>4, <1>5, QuietKeeps DEF Base, Typed, TagsInv
<1>7. TypedCpu' /\ TypedFlash'
  BY <1>1, <1>3 DEF Base, Typed, TypedCpu, TypedFlash, Asks
<1>8. HeldInv'
  BY <1>1 DEF Base, HeldInv, Live
<1>. QED
  BY <1>3, <1>4, <1>5, <1>6, <1>7, <1>8 DEF Base, Typed, Asks
-----------------------------------------------------------------------------
\* Entry s becomes the request the CPU asks for next.
Creates(s) ==
    /\ s \in Slots /\ ~Live(s) /\ queue[s] \in {"free", "cpu"} /\ selecting = NONE /\ ~Walking
    /\ todo # <<>> /\ Head(todo) \in Proper
    /\ todo' = Tail(todo)
    /\ req' = [req EXCEPT ![s] = Head(todo)]
    /\ queue' = [queue EXCEPT ![s] = "cpu"]
    /\ selecting' = s
    /\ order' = Append(order, s)
    /\ bufBlocked' = (prevBlockingReq'[s] # NONE)
    /\ LET b == Head(todo).buf
           t == IF b = NONE THEN NONE ELSE blockingReqTail[b]
       IN  /\ blockingReqTail' = IF b = NONE THEN blockingReqTail ELSE [blockingReqTail EXCEPT ![b] = s]
           /\ prevBlockingReq' = IF t = NONE THEN prevBlockingReq ELSE [prevBlockingReq EXCEPT ![s] = t]
           /\ nextBlockingReq' = IF t = NONE THEN nextBlockingReq ELSE [nextBlockingReq EXCEPT ![t] = s]
    /\ UNCHANGED <<queues, rowDep, hwDone, walks, toSplit, sliceReqQ, toFlush, ftl, programmed>>

\* CreateRequest does so for the entry that the request is meant for.
LEMMA CreateIs ==
    ASSUME Base, NEW s \in Slots, CreateRequest(s)
    PROVE  Creates(s)
<1>1. /\ ~Walking /\ selecting = NONE /\ todo # <<>> /\ Head(todo) # Hold
      /\ s = CASE Head(todo).from = "held" -> held
               [] Head(todo).from = "slice" -> slice
               [] OTHER -> IF queue[s] = "free" THEN s ELSE NONE
  BY DEF CreateRequest
<1>2. s # NONE
  BY GeometryAssumption
<1>3. s = held \/ s = slice \/ queue[s] = "free"
  BY <1>1, <1>2
<1>4. queue[s] \in {"free", "cpu"}
  BY <1>2, <1>3 DEF Base, HeldInv
<1>5. ~Live(s)
  BY <1>1, <1>4, FreeEntry
<1>6. todo \in Seq(Proper \cup {Hold})
  BY DEF Base, Typed, TypedCpu
<1>7. Head(todo) \in Proper
  BY <1>1, <1>6, HeadTailProperties
<1>. QED
  BY <1>1, <1>4, <1>5, <1>7 DEF CreateRequest, Creates

\* The links of a new request are entries.
LEMMA ChainsTyped ==
    ASSUME TypedRequests, NEW s, Creates(s)
    PROVE  /\ prevBlockingReq' \in [Slots -> Slots \cup {NONE}]
           /\ nextBlockingReq' \in [Slots -> Slots \cup {NONE}]
           /\ blockingReqTail' \in [AllBufs -> Slots \cup {NONE}]
<1>1. PICK b : b = Head(todo).buf
  OBVIOUS
<1>2. PICK t : t = IF b = NONE THEN NONE ELSE blockingReqTail[b]
  OBVIOUS
<1>3. /\ blockingReqTail' = IF b = NONE THEN blockingReqTail ELSE [blockingReqTail EXCEPT ![b] = s]
      /\ prevBlockingReq' = IF t = NONE THEN prevBlockingReq ELSE [prevBlockingReq EXCEPT ![s] = t]
      /\ nextBlockingReq' = IF t = NONE THEN nextBlockingReq ELSE [nextBlockingReq EXCEPT ![t] = s]
      /\ s \in Slots /\ Head(todo) \in Proper
  BY <1>1, <1>2 DEF Creates
<1>4. b \in AllBufs \cup {NONE}
  BY <1>1, <1>3 DEF Proper, Requests
<1>5. t \in Slots \cup {NONE}
  BY <1>2, <1>4 DEF TypedRequests
<1>. QED
  BY <1>3, <1>4, <1>5 DEF TypedRequests

\* Each kind of step keeps the part of the invariant about single entries: a new
\* request,
LEMMA CreateKeepsBase ==
    ASSUME Base, NEW s \in Slots, CreateRequest(s)
    PROVE  Base'
<1>1. Creates(s)
  BY CreateIs
<1>2. /\ ~Live(s) /\ queue[s] \in {"free", "cpu"} /\ selecting = NONE /\ ~Walking
      /\ todo # <<>> /\ Head(todo) \in Proper /\ todo' = Tail(todo)
      /\ req' = [req EXCEPT ![s] = Head(todo)] /\ queue' = [queue EXCEPT ![s] = "cpu"]
      /\ selecting' = s /\ order' = Append(order, s) /\ bufBlocked' = (prevBlockingReq'[s] # NONE)
      /\ UNCHANGED <<queues, rowDep, hwDone, walks, toSplit, sliceReqQ, toFlush, ftl, programmed>>
  BY <1>1 DEF Creates
<1>3. UNCHANGED <<dmaWalk, rowWalk, nvmeDmaReqQ, nandReqQ, blockedByRowAddrDepReqQ,
                  dirty, currentBlock, currentPage, freeBlocks>>
  BY <1>2 DEF walks, queues, ftl
<1>4. held' = (IF s = held THEN NONE ELSE held) /\ slice' = (IF s = slice THEN NONE ELSE slice)
  BY DEF CreateRequest
<1>5. queue \in [Slots -> Queues] /\ req \in [Slots -> Proper \cup {NoReq}] /\ order \in Seq(Slots)
  BY DEF Base, Typed, TypedRequests
<1>6. /\ req' \in [Slots -> Proper \cup {NoReq}] /\ queue' \in [Slots -> Queues]
      /\ req'[s] = Head(todo) /\ queue'[s] = "cpu"
      /\ \A x \in Slots \ {s} : req'[x] = req[x] /\ queue'[x] = queue[x]
  BY <1>2, <1>5 DEF Queues
<1>7. TypedRequests'
  <2>1. order' \in Seq(Slots)
    BY <1>2, <1>5
  <2>. QED
    BY <1>1, <1>2, <1>3, <1>6, <2>1, ChainsTyped DEF Base, Typed, TypedRequests
<1>8. TypedCpu'
  <2>1. Tail(todo) \in Seq(Proper \cup {Hold})
    BY <1>2, HeadTailProperties DEF Base, Typed, TypedCpu
  <2>2. held' \in Slots \cup {NONE} /\ slice' \in Slots \cup {NONE} /\ bufBlocked' \in BOOLEAN
    BY <1>2, <1>4 DEF Base, Typed, TypedCpu
  <2>. QED
    BY <1>2, <2>1, <2>2 DEF Base, Typed, TypedCpu
<1>9. TypedWalks' /\ TypedFlash' /\ FreeInv' /\ ~Walking'
  BY <1>2, <1>3 DEF Base, Typed, TypedWalks, TypedFlash, FreeInv, Walking
<1>10. \A x \in Slots \ {s} : (Live(x)' <=> Live(x)) /\ (Blocked(x)' <=> Blocked(x)) /\ (Running(x)' <=> Running(x))
                              /\ (IsDma(x)' <=> IsDma(x))
  BY <1>6 DEF Live, Blocked, Running, IsDma
<1>11. Live(s)' /\ ~Blocked(s)' /\ ~Running(s)'
  <2>1. Head(todo).code \in Codes
    BY <1>2 DEF Proper, Requests
  <2>. QED
    BY <1>6, <2>1 DEF Live, Blocked, Running, Codes
<1>12. TagsInv'
  <2>1. ASSUME NEW x \in Slots
        PROVE  /\ Blocked(x)' \/ Running(x)' => Live(x)'
               /\ Live(x)' => Blocked(x)' \/ Running(x)' \/ x = s
               /\ queue'[x] = "dma" => IsDma(x)'
               /\ queue'[x] \in {"nand", "rowDep"} => req'[x].code \in NandCodes
               /\ queue'[x] = "bufDep" => req'[x].buf # NONE
    <3>1. CASE x = s
      BY <1>6, <1>11, <3>1
    <3>2. CASE x # s
      <4>1. /\ Blocked(x) \/ Running(x) => Live(x)
            /\ Live(x) => Blocked(x) \/ Running(x)
            /\ queue[x] = "dma" => IsDma(x)
            /\ queue[x] \in {"nand", "rowDep"} => req[x].code \in NandCodes
            /\ queue[x] = "bufDep" => req[x].buf # NONE
        <5>1. x # NONE
          BY GeometryAssumption
        <5>. QED
          BY <1>2, <5>1 DEF Base, TagsInv
      <4>. QED
        BY <1>6, <1>10, <3>2, <4>1
    <3>. QED
      BY <3>1, <3>2
  <2>. QED
    BY <1>2, <1>6, <1>9, <1>11, <2>1 DEF TagsInv
<1>13. HeldInv'
  <2>1. ASSUME NEW x \in {held, slice}, x # NONE, x # s
        PROVE  queue'[x] = "cpu" /\ ~Live(x)'
    <3>1. x \in Slots /\ queue[x] = "cpu" /\ ~Live(x)
      BY <2>1 DEF Base, Typed, TypedCpu, HeldInv
    <3>. QED
      BY <1>6, <1>10, <2>1, <3>1
  <2>2. \A x \in Slots : InList(sliceReqQ', x) => queue'[x] = "slice" /\ ~Live(x)'
    BY <1>2, <1>6, <1>10 DEF Base, HeldInv
  <2>3. Distinct(sliceReqQ')
    BY <1>2 DEF Base, HeldInv
  <2>4. held' # NONE => queue'[held'] = "cpu" /\ ~Live(held)'
    <3>1. ASSUME held' # NONE PROVE held' = held /\ held # s /\ held # NONE
      BY <1>4, <3>1
    <3>. QED
      BY <2>1, <3>1 DEF Live
  <2>5. slice' # NONE => queue'[slice'] = "cpu" /\ ~Live(slice)'
    <3>1. ASSUME slice' # NONE PROVE slice' = slice /\ slice # s /\ slice # NONE
      BY <1>4, <3>1
    <3>. QED
      BY <2>1, <3>1 DEF Live
  <2>. QED
    BY <2>2, <2>3, <2>4, <2>5 DEF HeldInv
<1>14. ListsInv'
  <2>1. ASSUME NEW x \in Slots, NEW tag \in {"dma", "nand", "rowDep"}
        PROVE  /\ queue'[x] = tag <=> queue[x] = tag
               /\ queue[x] = tag => req'[x] = req[x]
    BY <1>2, <1>6
  <2>2. DmaList(nvmeDmaReqQ', queue')
    BY <1>3, <2>1 DEF Base, ListsInv, DmaList
  <2>3. ASSUME NEW l, NEW tag \in {"nand", "rowDep"}, DieLists(l, tag, queue, req)
        PROVE  DieLists(l, tag, queue', req')
    BY <2>1, <2>3 DEF DieLists
  <2>4. DieLists(nandReqQ', "nand", queue', req') /\ DieLists(blockedByRowAddrDepReqQ', "rowDep", queue', req')
    BY <1>3, <2>3 DEF Base, ListsInv
  <2>. QED
    BY <2>2, <2>4 DEF ListsInv
<1>. QED
  BY <1>7, <1>8, <1>9, <1>12, <1>13, <1>14 DEF Base, Typed
-----------------------------------------------------------------------------
\* The tags and the entries in hand, when requests change queue or end.
LEMMA HeldKept ==
    ASSUME Base, UNCHANGED <<held, slice, sliceReqQ>>,
           \A x \in Slots : ~Live(x) /\ queue[x] \in {"cpu", "slice"} => queue'[x] = queue[x] /\ ~Live(x)'
    PROVE  HeldInv'
<1>1. ASSUME NEW x \in {held, slice}, x # NONE
      PROVE  queue'[x] = "cpu" /\ ~Live(x)'
  <2>1. x \in Slots /\ queue[x] = "cpu" /\ ~Live(x)
    BY <1>1 DEF Base, Typed, TypedCpu, HeldInv
  <2>. QED
    BY <2>1
<1>2. held' # NONE => queue'[held'] = "cpu" /\ ~Live(held)'
  BY <1>1 DEF Live
<1>3. slice' # NONE => queue'[slice'] = "cpu" /\ ~Live(slice)'
  BY <1>1 DEF Live
<1>4. \A x \in Slots : InList(sliceReqQ', x) => queue'[x] = "slice" /\ ~Live(x)'
  BY DEF Base, HeldInv
<1>5. Distinct(sliceReqQ')
  BY DEF Base, HeldInv
<1>. QED
  BY <1>2, <1>3, <1>4, <1>5 DEF HeldInv

\* one that the CPU puts on a queue,
LEMMA SelectKeepsBase ==
    ASSUME Base, NEW s, NEW q, Selects(s, q)
    PROVE  Base'
<1>1. /\ s = selecting /\ s \in Slots /\ Live(s) /\ queue[s] = "cpu" /\ ~Walking
      /\ Selected(q, rowDep') /\ q \in {"dma", "nand", "rowDep", "bufDep"}
      /\ q = "dma" => IsDma(s)
      /\ q \in {"nand", "rowDep"} => req[s].code \in NandCodes
      /\ q = "bufDep" => req[s].buf # NONE
      /\ RowMoves(s, q)
  BY DEF Selects
<1>2. /\ PutOn(q, s, nvmeDmaReqQ, nandReqQ, blockedByRowAddrDepReqQ)
      /\ queue' = [queue EXCEPT ![s] = q] /\ selecting' = NONE /\ bufBlocked' = FALSE
      /\ UNCHANGED <<req, chains, hwDone, walks, toSplit, sliceReqQ, slice, held, todo, toFlush, ftl,
                     order, programmed>>
  BY <1>1 DEF Selected
<1>3. UNCHANGED <<prevBlockingReq, nextBlockingReq, blockingReqTail, dmaWalk, rowWalk,
                  dirty, currentBlock, currentPage, freeBlocks>>
  BY <1>2 DEF chains, walks, ftl
<1>4. queue \in [Slots -> Queues] /\ q \in Queues
  BY <1>1 DEF Base, Typed, TypedRequests, Queues
<1>5. queue' \in [Slots -> Queues] /\ queue'[s] = q /\ \A x \in Slots \ {s} : queue'[x] = queue[x]
  BY <1>1, <1>2, <1>4
<1>6. q \in {"nand", "rowDep"} => req[s].die \in Dies
  BY <1>1, LiveRequest DEF Base, Typed
<1>7. ListsInv'
  <2>1. /\ DmaList(nvmeDmaReqQ', queue')
        /\ DieLists(nandReqQ', "nand", queue', req)
        /\ DieLists(blockedByRowAddrDepReqQ', "rowDep", queue', req)
    BY <1>1, <1>2, <1>4, <1>6, PutOnLists DEF Base, ListsInv
  <2>. QED
    BY <1>2, <2>1 DEF ListsInv
<1>8. rowDep' \in [Dies -> [Blocks -> Rows]]
  BY <1>1 DEF RowMoves
<1>9. TypedRequests'
  <2>1. nvmeDmaReqQ' \in Seq(Slots) /\ nandReqQ' \in [Dies -> Seq(Slots)] /\ blockedByRowAddrDepReqQ' \in [Dies -> Seq(Slots)]
    BY <1>7 DEF ListsInv, DmaList, DieLists
  <2>. QED
    BY <1>2, <1>3, <1>5, <1>8, <2>1 DEF Base, Typed, TypedRequests
<1>10. TypedCpu'
  BY <1>2 DEF Base, Typed, TypedCpu
<1>11. TypedFlash' /\ FreeInv'
  BY <1>2, <1>3 DEF Base, Typed, TypedFlash, FreeInv
<1>12. TypedWalks'
  <2>1. dmaWalk = 0 /\ rowWalk = <<>>
    BY <1>1 DEF Walking
  <2>2. Len(nvmeDmaReqQ') \in Nat
    BY <1>9, LenProperties DEF TypedRequests
  <2>3. 0 \in 0 .. Len(nvmeDmaReqQ')
    BY <2>2
  <2>. QED
    BY <1>2, <1>3, <2>1, <2>3 DEF Base, Typed, TypedWalks
<1>13. \A x \in Slots : Live(x)' <=> Live(x)
  BY <1>2 DEF Live
<1>14. HeldInv'
  BY <1>1, <1>2, <1>5, <1>13, HeldKept
<1>15. TagsInv'
  <2>1. ASSUME NEW x \in Slots
        PROVE  /\ Blocked(x)' \/ Running(x)' => Live(x)'
               /\ Live(x)' => Blocked(x)' \/ Running(x)'
               /\ queue'[x] = "dma" => IsDma(x)'
               /\ queue'[x] \in {"nand", "rowDep"} => req'[x].code \in NandCodes
               /\ queue'[x] = "bufDep" => req'[x].buf # NONE
    <3>1. CASE x = s
      BY <1>1, <1>2, <1>5, <1>13, <3>1 DEF Blocked, Running, IsDma
    <3>2. CASE x # s
      BY <1>1, <1>2, <1>5, <1>13, <3>2 DEF Blocked, Running, IsDma, Base, TagsInv
    <3>. QED
      BY <3>1, <3>2
  <2>. QED
    BY <1>2, <2>1 DEF TagsInv
<1>. QED
  BY <1>7, <1>9, <1>10, <1>11, <1>12, <1>14, <1>15 DEF Base, Typed

\* one that is released to its die,
LEMMA RowReleaseKeepsBase ==
    ASSUME Base, ReleaseBlockedByRowAddrDepReq
    PROVE  Base' /\ (Quiet \/ \E s \in Slots : RowReleases(s))
<1>1. /\ ListsInv' /\ TypedWalks' /\ UNCHANGED <<cpu, ftl, programmed>>
      /\ (Quiet /\ UNCHANGED queue) \/ \E s \in Slots : RowReleases(s)
  BY RowReleaseIs DEF Base, Typed
<1>2. UNCHANGED <<toSplit, sliceReqQ, slice, held, todo, selecting, bufBlocked, toFlush,
                  dirty, currentBlock, currentPage, freeBlocks>>
  BY <1>1 DEF cpu, ftl
<1>3. TypedCpu' /\ TypedFlash' /\ FreeInv'
  BY <1>1, <1>2 DEF Base, Typed, TypedCpu, TypedFlash, FreeInv
<1>4. selecting # NONE => IsRead(selecting)
  BY DEF ReleaseBlockedByRowAddrDepReq, Base, TagsInv, Walking
<1>5. CASE Quiet /\ UNCHANGED queue
  <2>1. TypedRequests' /\ TagsInv' /\ ListsInv'
    BY <1>4, <1>5, QuietKeeps DEF Base, Typed
  <2>2. HeldInv'
    <3>1. UNCHANGED <<queue, req>>
      BY <1>5 DEF Quiet
    <3>. QED
      BY <1>2, <3>1 DEF Base, HeldInv, Live
  <2>. QED
    BY <1>1, <1>3, <1>5, <2>1, <2>2 DEF Base, Typed
<1>6. CASE \E s \in Slots : RowReleases(s)
  <2>1. PICK s \in Slots : RowReleases(s)
    BY <1>6
  <2>2. /\ queue[s] = "rowDep" /\ req[s].code \in NandCodes /\ s # selecting
        /\ queue' = [queue EXCEPT ![s] = "nand"] /\ RowMoves(s, "nand")
        /\ UNCHANGED <<req, chains, order, programmed>>
    BY <2>1 DEF RowReleases
  <2>3. queue \in [Slots -> Queues] /\ UNCHANGED <<prevBlockingReq, nextBlockingReq, blockingReqTail>>
    BY <2>2 DEF Base, Typed, TypedRequests, chains
  <2>4. queue' \in [Slots -> Queues] /\ queue'[s] = "nand" /\ \A x \in Slots \ {s} : queue'[x] = queue[x]
    BY <2>2, <2>3 DEF Queues
  <2>5. rowDep' \in [Dies -> [Blocks -> Rows]]
    BY <2>2 DEF RowMoves
  <2>6. TypedRequests'
    <3>1. nvmeDmaReqQ' \in Seq(Slots) /\ nandReqQ' \in [Dies -> Seq(Slots)] /\ blockedByRowAddrDepReqQ' \in [Dies -> Seq(Slots)]
      BY <1>1 DEF ListsInv, DmaList, DieLists
    <3>. QED
      BY <2>2, <2>3, <2>4, <2>5, <3>1 DEF Base, Typed, TypedRequests
  <2>7. \A x \in Slots : Live(x)' <=> Live(x)
    BY <2>2 DEF Live
  <2>8. HeldInv'
    BY <1>2, <2>2, <2>4, <2>7, HeldKept
  <2>9. TagsInv'
    <3>1. ASSUME NEW x \in Slots
          PROVE  /\ Blocked(x)' \/ Running(x)' => Live(x)'
                 /\ Live(x)' => Blocked(x)' \/ Running(x)' \/ x = selecting
                 /\ queue'[x] = "dma" => IsDma(x)'
                 /\ queue'[x] \in {"nand", "rowDep"} => req'[x].code \in NandCodes
                 /\ queue'[x] = "bufDep" => req'[x].buf # NONE
      <4>1. CASE x = s
        BY <2>2, <2>4, <2>7, <4>1 DEF Blocked, Running, IsDma, Base, TagsInv
      <4>2. CASE x # s
        BY <2>2, <2>4, <2>7, <4>2 DEF Blocked, Running, IsDma, Base, TagsInv
      <4>. QED
        BY <4>1, <4>2
    <3>2. selecting # NONE => selecting \in Slots /\ queue'[selecting] = "cpu" /\ Live(selecting)'
      BY <1>2, <2>2, <2>4 DEF Base, TagsInv, Typed, TypedCpu, Live
    <3>3. /\ selecting # NONE => IsRead(selecting)'
          /\ selecting # NONE /\ ~bufBlocked => prevBlockingReq[selecting] = NONE
      BY <1>2, <1>4, <2>2 DEF IsRead, Base, TagsInv
    <3>. QED
      BY <1>2, <2>3, <3>1, <3>2, <3>3 DEF TagsInv, Live, IsRead
  <2>. QED
    BY <1>1, <1>3, <1>6, <2>6, <2>8, <2>9 DEF Base, Typed
<1>. QED
  BY <1>1, <1>5, <1>6
-----------------------------------------------------------------------------
\* Where the requests are after s ended: t, if released, on queue q; the others where they were.
LEMMA FinishTags ==
    ASSUME Base, NEW s, NEW dma0, NEW nand0, Finishes(s, dma0, nand0)
    PROVE  /\ s \in Slots /\ Live(s) /\ Running(s) /\ queue'[s] = "free" /\ ~Live(s)'
           /\ \A x \in Slots \ {s} : req'[x] = req[x]
           /\ \A x \in Slots : x # s /\ ~(Released(s) /\ x = nextBlockingReq[s]) => queue'[x] = queue[x]
           /\ Released(s) => queue'[nextBlockingReq[s]] = ReleasedTo(nextBlockingReq[s])
<1>1. PICK t : t = nextBlockingReq[s]
  OBVIOUS
<1>2. PICK q : q = ReleasedTo(t)
  OBVIOUS
<1>3. /\ req' = [req EXCEPT ![s] = NoReq]
      /\ Released(s) => t \in Slots /\ t # s /\ queue' = [queue EXCEPT ![s] = "free", ![t] = q]
      /\ ~Released(s) => queue' = [queue EXCEPT ![s] = "free"]
  BY <1>1, <1>2, FinishIs DEF Base, Typed
<1>4. s \in Slots /\ queue[s] \in {"nand", "dma"}
  BY DEF Finishes
<1>5. queue \in [Slots -> Queues] /\ req \in [Slots -> Proper \cup {NoReq}]
  BY DEF Base, Typed, TypedRequests
<1>6. Running(s) /\ Live(s)
  BY <1>4 DEF Running, Base, TagsInv
<1>7. req'[s] = NoReq /\ \A x \in Slots \ {s} : req'[x] = req[x]
  BY <1>3, <1>4, <1>5
<1>8. ~Live(s)'
  BY <1>7 DEF Live, NoReq
<1>9. /\ queue'[s] = "free"
      /\ \A x \in Slots : x # s /\ ~(Released(s) /\ x = t) => queue'[x] = queue[x]
      /\ Released(s) => queue'[t] = q
  <2>1. CASE Released(s)
    BY <1>3, <1>4, <1>5, <2>1
  <2>2. CASE ~Released(s)
    BY <1>3, <1>4, <1>5, <2>2
  <2>. QED
    BY <2>1, <2>2
<1>. QED
  BY <1>1, <1>2, <1>4, <1>6, <1>7, <1>8, <1>9

\* the end of a request with the release of the next of its buffer,
LEMMA FinishKeepsBase ==
    ASSUME Base, NEW s, NEW dma0, NEW nand0, Finishes(s, dma0, nand0),
           UNCHANGED <<cpu, ftl>>, TypedWalks', selecting # NONE => IsRead(selecting),
           programmed' \in [Dies -> [Blocks -> 0 .. PAGES]]
    PROVE  Base'
<1>1. PICK t : t = nextBlockingReq[s]
  OBVIOUS
<1>2. PICK q : q = ReleasedTo(t)
  OBVIOUS
<1>3. /\ req' = [req EXCEPT ![s] = NoReq] /\ order' = Without(order, s)
      /\ queue' \in [Slots -> Queues] /\ ListsInv'
      /\ Released(s) => /\ t \in Slots /\ t # s /\ Live(t) /\ queue[t] = "bufDep" /\ t # selecting
                        /\ q \in {"dma", "nand", "rowDep"} /\ (q = "dma" <=> IsDma(t))
                        /\ (q # "dma" => req[t].code \in NandCodes)
                        /\ RowMoves(t, q)
      /\ ~Released(s) => UNCHANGED rowDep
  BY <1>1, <1>2, FinishIs DEF Base, Typed
<1>4. /\ s \in Slots /\ Live(s) /\ Running(s) /\ queue'[s] = "free" /\ ~Live(s)'
      /\ \A x \in Slots \ {s} : req'[x] = req[x]
      /\ \A x \in Slots : x # s /\ ~(Released(s) /\ x = t) => queue'[x] = queue[x]
      /\ Released(s) => queue'[t] = q
  BY <1>1, <1>2, FinishTags
<1>5. UNCHANGED <<toSplit, sliceReqQ, slice, held, todo, selecting, bufBlocked, toFlush,
                  dirty, currentBlock, currentPage, freeBlocks>>
  BY DEF cpu, ftl
<1>6. TypedCpu' /\ TypedFlash' /\ FreeInv'
  BY <1>5 DEF Base, Typed, TypedCpu, TypedFlash, FreeInv
<1>7. /\ nextBlockingReq' = [nextBlockingReq EXCEPT ![s] = NONE]
      /\ prevBlockingReq' = IF t = NONE THEN prevBlockingReq ELSE [prevBlockingReq EXCEPT ![t] = NONE]
      /\ blockingReqTail' = IF req[s].buf # NONE /\ blockingReqTail[req[s].buf] = s
                            THEN [blockingReqTail EXCEPT ![req[s].buf] = NONE] ELSE blockingReqTail
  BY <1>1 DEF Finishes, ReleaseBlockedByBufDepReq
<1>8. t \in Slots \cup {NONE}
  BY <1>1, <1>4 DEF Base, Typed, TypedRequests
<1>9. TypedRequests'
  <2>1. nvmeDmaReqQ' \in Seq(Slots) /\ nandReqQ' \in [Dies -> Seq(Slots)] /\ blockedByRowAddrDepReqQ' \in [Dies -> Seq(Slots)]
    BY <1>3 DEF ListsInv, DmaList, DieLists
  <2>2. rowDep' \in [Dies -> [Blocks -> Rows]]
    BY <1>3 DEF RowMoves, Base, Typed, TypedRequests
  <2>3. order' \in Seq(Slots)
    <3>1. order \in Seq(Slots)
      BY DEF Base, Typed, TypedRequests
    <3>2. CASE InList(order, s)
      <4>1. PICK k \in 1 .. Len(order) : k = (CHOOSE i \in 1 .. Len(order) : order[i] = s)
        BY <3>2 DEF InList
      <4>. QED
        BY <1>3, <3>1, <3>2, <4>1, RemoveAtIndexProperties DEF Without, Unlink
    <3>3. CASE ~InList(order, s)
      BY <1>3, <3>1, <3>3 DEF Without, Unlink
    <3>. QED
      BY <3>2, <3>3
  <2>4. /\ nextBlockingReq' \in [Slots -> Slots \cup {NONE}]
        /\ prevBlockingReq' \in [Slots -> Slots \cup {NONE}]
        /\ blockingReqTail' \in [AllBufs -> Slots \cup {NONE}]
    BY <1>4, <1>7, <1>8 DEF Base, Typed, TypedRequests
  <2>5. req' \in [Slots -> Proper \cup {NoReq}]
    BY <1>3 DEF Base, Typed, TypedRequests
  <2>. QED
    BY <1>3, <2>1, <2>2, <2>3, <2>4, <2>5 DEF TypedRequests
<1>10. \A x \in Slots : ~Live(x) /\ queue[x] \in {"cpu", "slice"} => queue'[x] = queue[x] /\ ~Live(x)'
  <2>1. ASSUME NEW x \in Slots, ~Live(x)
        PROVE  queue'[x] = queue[x] /\ ~Live(x)'
    <3>1. x # s /\ ~(Released(s) /\ x = t)
      BY <1>3, <1>4, <2>1
    <3>. QED
      BY <1>4, <2>1, <3>1 DEF Live
  <2>. QED
    BY <2>1
<1>11. HeldInv'
  BY <1>5, <1>10, HeldKept
<1>12. TagsInv'
  <2>1. ASSUME NEW x \in Slots
        PROVE  /\ Blocked(x)' \/ Running(x)' => Live(x)'
               /\ Live(x)' => Blocked(x)' \/ Running(x)' \/ x = selecting
               /\ queue'[x] = "dma" => IsDma(x)'
               /\ queue'[x] \in {"nand", "rowDep"} => req'[x].code \in NandCodes
               /\ queue'[x] = "bufDep" => req'[x].buf # NONE
    <3>1. CASE x = s
      BY <1>4, <3>1 DEF Blocked, Running
    <3>2. CASE x # s /\ Released(s) /\ x = t
      BY <1>3, <1>4, <3>2 DEF Blocked, Running, Live, IsDma
    <3>3. CASE x # s /\ ~(Released(s) /\ x = t)
      <4>1. queue'[x] = queue[x] /\ req'[x] = req[x]
        BY <1>4, <3>3
      <4>. QED
        BY <4>1 DEF Blocked, Running, Live, IsDma, Base, TagsInv
    <3>. QED
      BY <3>1, <3>2, <3>3
  <2>2. ASSUME selecting # NONE
        PROVE  /\ queue'[selecting] = "cpu" /\ Live(selecting)' /\ IsRead(selecting)'
               /\ ~bufBlocked => prevBlockingReq'[selecting] = NONE
    <3>1. /\ selecting \in Slots /\ queue[selecting] = "cpu" /\ Live(selecting) /\ IsRead(selecting)
          /\ ~bufBlocked => prevBlockingReq[selecting] = NONE
      BY <2>2 DEF Base, TagsInv, Typed, TypedCpu
    <3>2. selecting # s /\ ~(Released(s) /\ selecting = t)
      BY <1>3, <1>4, <3>1 DEF Running
    <3>3. queue'[selecting] = queue[selecting] /\ req'[selecting] = req[selecting]
      BY <1>4, <3>1, <3>2
    <3>4. prevBlockingReq'[selecting] \in {NONE, prevBlockingReq[selecting]}
      BY <1>7, <1>8, <3>1 DEF Base, Typed, TypedRequests
    <3>. QED
      BY <1>5, <3>1, <3>3, <3>4 DEF Live, IsRead
  <2>. QED
    BY <1>5, <2>1, <2>2 DEF TagsInv
<1>. QED
  BY <1>3, <1>6, <1>9, <1>11, <1>12 DEF Base, Typed

\* in the walk over the transfers
LEMMA DmaKeepsBase ==
    ASSUME Base, DmaFinished
    PROVE  /\ Base' /\ programmed' = programmed /\ UNCHANGED <<cpu, ftl>>
           /\ \E s, dma0, nand0 : Finishes(s, dma0, nand0) /\ queue[s] = "dma" /\ nand0 = nandReqQ
<1>1. PICK s : s = nvmeDmaReqQ[dmaWalk]
  OBVIOUS
<1>2. PICK dma0 : dma0 = Without(nvmeDmaReqQ, s)
  OBVIOUS
<1>3. Finishes(s, dma0, nandReqQ) /\ queue[s] = "dma" /\ Len(dma0) = Len(nvmeDmaReqQ) - 1
  BY <1>1, <1>2, FinishedDma DEF Base, Typed
<1>4. /\ dmaWalk # 0 /\ dmaWalk' = dmaWalk - 1 /\ hwDone' = hwDone \ {s}
      /\ UNCHANGED <<rowWalk, cpu, ftl, programmed>>
  BY <1>1 DEF DmaFinished, CheckDoneNvmeDmaReq
<1>5. selecting # NONE => IsRead(selecting)
  BY <1>4 DEF Base, TagsInv, Walking
<1>6. dma0 \in Seq(Slots)
  BY <1>3 DEF Finishes, DmaList
<1>7. nvmeDmaReqQ' = dma0 \/ \E t \in Slots : nvmeDmaReqQ' = Append(dma0, t)
  <2>1. PICK t : t = nextBlockingReq[s]
    OBVIOUS
  <2>2. Released(s) => t \in Slots
    BY <1>3, <2>1, FinishIs DEF Base, Typed
  <2>3. nvmeDmaReqQ' = dma0 \/ (Released(s) /\ nvmeDmaReqQ' = Append(dma0, t))
    BY <1>3, <2>1 DEF Finishes, ReleaseBlockedByBufDepReq, PutOn, Released
  <2>. QED
    BY <2>2, <2>3
<1>8. Len(nvmeDmaReqQ') \in {Len(dma0), Len(dma0) + 1}
  BY <1>6, <1>7, AppendEntry
<1>9. TypedWalks'
  <2>1. dmaWalk \in 0 .. Len(nvmeDmaReqQ) /\ Len(nvmeDmaReqQ) \in Nat /\ hwDone \in SUBSET Slots
    BY LenProperties DEF Base, Typed, TypedWalks, TypedRequests
  <2>2. dmaWalk' \in 0 .. Len(nvmeDmaReqQ')
    BY <1>3, <1>4, <1>8, <2>1
  <2>. QED
    BY <1>4, <2>1, <2>2 DEF Base, Typed, TypedWalks
<1>10. Base'
  BY <1>3, <1>4, <1>5, <1>9, FinishKeepsBase DEF Base, Typed, TypedFlash
<1>. QED
  BY <1>3, <1>4, <1>10

\* What the die has done.
Programs(s) ==
    programmed' = CASE req[s].code = "read"  -> programmed
                    [] req[s].code = "write" -> [programmed EXCEPT ![req[s].die][req[s].block] = req[s].page + 1]
                    [] req[s].code = "erase" -> [programmed EXCEPT ![req[s].die][req[s].block] = 0]

\* or at a die.
LEMMA NandKeepsBase ==
    ASSUME Base, NEW d \in Dies, NandDone(d), NEW s, s = Head(nandReqQ[d])
    PROVE  /\ Base' /\ Programs(s) /\ UNCHANGED <<cpu, ftl>>
           /\ Finishes(s, nvmeDmaReqQ, [nandReqQ EXCEPT ![d] = Tail(@)])
           /\ queue[s] = "nand" /\ req[s].die = d /\ nandReqQ[d] # <<>> /\ Polling
<1>1. /\ Finishes(s, nvmeDmaReqQ, [nandReqQ EXCEPT ![d] = Tail(@)])
      /\ queue[s] = "nand" /\ req[s].die = d /\ nandReqQ[d] # <<>>
  BY FinishedNand DEF Base, Typed
<1>2. Polling /\ UNCHANGED <<hwDone, walks, cpu, ftl>>
  BY DEF NandDone
<1>3. Programs(s)
  <2>1. programmed' = CASE req[s].code = "read"  -> programmed
                        [] req[s].code = "write" -> [programmed EXCEPT ![d][req[s].block] = req[s].page + 1]
                        [] req[s].code = "erase" -> [programmed EXCEPT ![d][req[s].block] = 0]
    BY DEF NandDone
  <2>. QED
    BY <1>1, <2>1, Zenon DEF Programs
<1>4. selecting # NONE => IsRead(selecting)
  BY <1>2 DEF Polling, CpuIdle, WaitsForEntry, WaitsForErase
<1>5. dmaWalk = 0 /\ dmaWalk' = 0 /\ rowWalk' = <<>> /\ hwDone' = hwDone
  BY <1>2 DEF Polling, Walking, walks
<1>6. nvmeDmaReqQ' \in Seq(Slots)
  <2>1. PICK t, q : t = nextBlockingReq[s] /\ q = ReleasedTo(t)
    OBVIOUS
  <2>2. ListsInv'
    BY <1>1, <2>1, FinishIs DEF Base, Typed
  <2>. QED
    BY <2>2 DEF ListsInv, DmaList
<1>7. TypedWalks'
  <2>1. 0 \in 0 .. Len(nvmeDmaReqQ')
    BY <1>6, LenProperties
  <2>. QED
    BY <1>5, <2>1 DEF Base, Typed, TypedWalks
<1>8. programmed' \in [Dies -> [Blocks -> 0 .. PAGES]]
  <2>1. s \in Slots /\ req[s].code \in NandCodes /\ Live(s)
    BY <1>1 DEF Finishes, Base, TagsInv, NandCodes, Live
  <2>2. req[s].block \in Blocks /\ (req[s].code = "write" => req[s].page \in Pages)
    BY <2>1, LiveRequest DEF Base, Typed
  <2>3. PAGES \in Nat \ {0} /\ programmed \in [Dies -> [Blocks -> 0 .. PAGES]]
    BY GeometryAssumption DEF Base, Typed, TypedFlash
  <2>4. CASE req[s].code = "read"
    BY <1>3, <2>3, <2>4 DEF Programs
  <2>5. CASE req[s].code = "write"
    <3>1. req[s].page + 1 \in 0 .. PAGES
      BY <2>2, <2>3, <2>5 DEF Pages
    <3>2. programmed' = [programmed EXCEPT ![d][req[s].block] = req[s].page + 1]
      BY <1>1, <1>3, <2>5 DEF Programs
    <3>. QED
      BY <2>2, <2>3, <3>1, <3>2
  <2>6. CASE req[s].code = "erase"
    <3>1. programmed' = [programmed EXCEPT ![d][req[s].block] = 0]
      BY <1>1, <1>3, <2>6 DEF Programs
    <3>. QED
      BY <2>2, <2>3, <3>1
  <2>. QED
    BY <2>1, <2>4, <2>5, <2>6 DEF NandCodes
<1>9. Base'
  BY <1>1, <1>2, <1>4, <1>7, <1>8, FinishKeepsBase
<1>. QED
  BY <1>1, <1>2, <1>3, <1>9
-----------------------------------------------------------------------------
\* The ends of a transfer and of an operation of a die.
DmaEnds(s) ==
    /\ Finishes(s, Without(nvmeDmaReqQ, s), nandReqQ) /\ queue[s] = "dma"
    /\ UNCHANGED <<cpu, ftl, programmed>>
NandEnds(s) ==
    /\ Finishes(s, nvmeDmaReqQ, [nandReqQ EXCEPT ![req[s].die] = Tail(@)]) /\ queue[s] = "nand"
    /\ nandReqQ[req[s].die] # <<>> /\ s = Head(nandReqQ[req[s].die])
    /\ Programs(s) /\ UNCHANGED <<cpu, ftl>>

\* All that a step can be to the requests.
StepKind ==
    \/ Quiet
    \/ \E s \in Slots : Creates(s)
    \/ \E q : Selects(selecting, q)
    \/ \E s \in Slots : RowReleases(s)
    \/ \E s \in Slots : DmaEnds(s) \/ NandEnds(s)

\* Every step is one of these kinds.
LEMMA StepIs ==
    ASSUME Base, [Next]_vars
    PROVE  Base' /\ StepKind
<1>1. CASE Host
  BY <1>1, HostIs, Zenon DEF StepKind
<1>2. CASE Split
  BY <1>2, SplitIs, Zenon DEF StepKind, Split
<1>3. CASE Transform
  BY <1>3, TransformIs, Zenon DEF StepKind
<1>4. CASE FlushDataBuf
  BY <1>4, FlushIs, Zenon DEF StepKind
<1>5. CASE HoldEntry
  BY <1>5, HoldIs, Zenon DEF StepKind
<1>6. CASE \E s \in Slots : CreateRequest(s)
  <2>1. PICK s \in Slots : CreateRequest(s)
    BY <1>6
  <2>2. Base' /\ Creates(s)
    BY <2>1, CreateKeepsBase, CreateIs, Zenon
  <2>. QED
    BY <2>2, Zenon DEF StepKind
<1>7. CASE Select
  <2>1. PICK q : Selects(selecting, q)
    BY <1>7, SelectIs DEF Base, Typed
  <2>2. Base'
    BY <2>1, SelectKeepsBase, Zenon
  <2>. QED
    BY <2>1, <2>2, Zenon DEF StepKind
<1>8. CASE StartCheckDone \/ \E d \in Dies : StartReleaseRow(d)
  BY <1>8, StartWalkIs, Zenon DEF StepKind
<1>9. CASE CheckDoneNvmeDmaReq
  <2>1. CASE DmaFinished
    <3>1. Base' /\ programmed' = programmed /\ UNCHANGED <<cpu, ftl>>
      BY <2>1, DmaKeepsBase
    <3>2. PICK s : s = nvmeDmaReqQ[dmaWalk]
      OBVIOUS
    <3>3. Finishes(s, Without(nvmeDmaReqQ, s), nandReqQ) /\ queue[s] = "dma"
      BY <2>1, <3>2, FinishedDma DEF Base, Typed
    <3>4. s \in Slots
      BY <3>3 DEF Finishes
    <3>5. DmaEnds(s)
      BY <3>1, <3>3 DEF DmaEnds
    <3>. QED
      BY <3>1, <3>4, <3>5, Zenon DEF StepKind
  <2>2. CASE ~DmaFinished
    BY <1>9, <2>2, WalkOnIs, Zenon DEF StepKind
  <2>. QED
    BY <2>1, <2>2, Zenon
<1>10. CASE ReleaseBlockedByRowAddrDepReq
  BY <1>10, RowReleaseKeepsBase, Zenon DEF StepKind
<1>11. CASE Engine
  BY <1>11, DmaEngineIs, Zenon DEF StepKind
<1>12. CASE \E d \in Dies : NandDone(d)
  <2>1. PICK d \in Dies : NandDone(d)
    BY <1>12
  <2>2. PICK s : s = Head(nandReqQ[d])
    OBVIOUS
  <2>3. /\ Base' /\ Programs(s) /\ UNCHANGED <<cpu, ftl>>
        /\ Finishes(s, nvmeDmaReqQ, [nandReqQ EXCEPT ![d] = Tail(@)])
        /\ queue[s] = "nand" /\ req[s].die = d /\ nandReqQ[d] # <<>>
    BY <2>1, <2>2, NandKeepsBase, Zenon
  <2>4. s \in Slots
    BY <2>3 DEF Finishes
  <2>5. NandEnds(s)
    BY <2>2, <2>3 DEF NandEnds
  <2>. QED
    BY <2>3, <2>4, <2>5, Zenon DEF StepKind
<1>13. CASE UNCHANGED vars
  <2>1. UNCHANGED <<queue, req, chains, queues, rowDep, hwDone, walks, cpu, ftl, order, programmed>>
    BY <1>13 DEF vars
  <2>2. TypedWalks' /\ (Walking' <=> Walking)
    BY <2>1 DEF walks, queues, Base, Typed, TypedWalks, Walking
  <2>3. Base' /\ Quiet
    BY <2>1, <2>2, SameEntries DEF Base, TagsInv
  <2>. QED
    BY <2>3, Zenon DEF StepKind
<1>14. Next => \/ Host \/ Split \/ Transform \/ FlushDataBuf \/ HoldEntry
               \/ (\E s \in Slots : CreateRequest(s)) \/ Select
               \/ StartCheckDone \/ CheckDoneNvmeDmaReq \/ ReleaseBlockedByRowAddrDepReq
               \/ (\E d \in Dies : StartReleaseRow(d)) \/ Engine \/ \E d \in Dies : NandDone(d)
  BY Zenon DEF Next, Cpu, Create, Scheduler
<1>. QED
  BY <1>1, <1>2, <1>3, <1>4, <1>5, <1>6, <1>7, <1>8, <1>9, <1>10, <1>11, <1>12, <1>13, <1>14, Zenon

\* At the start no entry holds a request.
LEMMA InitBase ==
    ASSUME Init
    PROVE  Base
<1>1. PAGES \in Nat \ {0} /\ MaxSlices \in Nat \ {0}
  BY GeometryAssumption, PoolAssumption
<1>2. currentPage \in [Dies -> [Blocks -> 0 .. PAGES]] /\ programmed = currentPage
  <2>1. PICK used \in [Dies -> 0 .. PAGES] :
          currentPage = [d \in Dies |-> [b \in Blocks |->
                            IF b = currentBlock[d] THEN used[d]
                            ELSE IF b \in freeBlocks[d] THEN 0 ELSE PAGES]]
    BY DEF Init
  <2>. QED
    BY <1>1, <2>1 DEF Init
<1>3. rowDep \in [Dies -> [Blocks -> Rows]]
  BY <1>1, <1>2 DEF Init, Rows
<1>4. /\ queue = [s \in Slots |-> "free"] /\ req = [s \in Slots |-> NoReq]
      /\ nvmeDmaReqQ = <<>> /\ nandReqQ = [d \in Dies |-> <<>>] /\ blockedByRowAddrDepReqQ = [d \in Dies |-> <<>>]
      /\ selecting = NONE /\ held = NONE /\ slice = NONE /\ sliceReqQ = <<>> /\ todo = <<>>
      /\ dmaWalk = 0 /\ rowWalk = <<>> /\ hwDone = {} /\ toSplit = 0
  BY DEF Init
<1>5. Len(nvmeDmaReqQ) = 0 /\ Len(sliceReqQ) = 0
  BY <1>4
<1>6. TypedRequests
  BY <1>3, <1>4 DEF Init, TypedRequests, Queues
<1>7. TypedWalks
  BY <1>4, <1>5 DEF TypedWalks
<1>8. TypedCpu
  <2>1. <<>> \in Seq(Slots) /\ <<>> \in Seq(Proper \cup {Hold}) /\ 0 \in 0 .. MaxSlices
    BY <1>1
  <2>2. bufBlocked = FALSE /\ toFlush = {}
    BY DEF Init
  <2>. QED
    BY <1>4, <2>1, <2>2 DEF TypedCpu
<1>9. TypedFlash
  BY <1>2 DEF Init, TypedFlash
<1>10. TagsInv
  BY <1>4 DEF TagsInv, Live, Blocked, Running, NoReq
<1>11. HeldInv
  BY <1>4, <1>5 DEF HeldInv, Distinct, InList
<1>12. ListsInv
  BY <1>4, <1>5 DEF ListsInv, DmaList, DieLists, Distinct, InList
<1>13. FreeInv
  <2>1. PICK used \in [Dies -> 0 .. PAGES] :
          currentPage = [d \in Dies |-> [b \in Blocks |->
                            IF b = currentBlock[d] THEN used[d]
                            ELSE IF b \in freeBlocks[d] THEN 0 ELSE PAGES]]
    BY DEF Init
  <2>2. /\ freeBlocks \in [Dies -> SUBSET Blocks]
        /\ \A d \in Dies : currentBlock[d] \notin freeBlocks[d]
    BY DEF Init
  <2>. QED
    BY <2>1, <2>2 DEF FreeInv
<1>. QED
  BY <1>6, <1>7, <1>8, <1>9, <1>10, <1>11, <1>12, <1>13 DEF Base, Typed
-----------------------------------------------------------------------------
(* blockedReadReqCnt counts the reads that wait.                            *)

\* The reads of a block that wait.
WaitingReads(d, b) == {s \in Slots : queue[s] \in {"bufDep", "rowDep"} /\ OnBlock(s, "read", d, b)}

\* They are finitely many, since the pool is.
LEMMA WaitingReadsFinite ==
    ASSUME NEW d, NEW b
    PROVE  IsFiniteSet(WaitingReads(d, b)) /\ Cardinality(WaitingReads(d, b)) \in Nat
<1>1. WaitingReads(d, b) \subseteq Slots
  BY DEF WaitingReads
<1>. QED
  BY <1>1, PoolAssumption, FS_Subset, FS_CardinalityType

\* blockedReadReqCnt stays exact when one request goes to a queue
LEMMA CountMoved ==
    ASSUME Base, BlockedReadsExact, NEW x \in Slots, NEW q, RowMoves(x, q), Live(x), queue'[x] = q, req'[x] = req[x],
           \A y \in Slots \ {x} : (Blocked(y)' /\ req'[y] = req[y]) \/ ~Blocked(y)',
           \A y \in Slots \ {x} : Blocked(y)' <=> Blocked(y)
    PROVE  BlockedReadsExact'
<1> SUFFICES ASSUME NEW d \in Dies, NEW b \in Blocks
             PROVE  rowDep'[d][b].blockedReadReqCnt = Cardinality(WaitingReads(d, b)')
  BY DEF BlockedReadsExact, WaitingReads
<1>1. rowDep[d][b].blockedReadReqCnt = Cardinality(WaitingReads(d, b))
  BY DEF BlockedReadsExact, WaitingReads
<1> DEFINE w == WaitingReads(d, b)
           v == WaitingReads(d, b)'
           now == IsRead(x) /\ OnRow(x, d, b) /\ Blocked(x)
           then == IsRead(x) /\ OnRow(x, d, b) /\ q \in {"bufDep", "rowDep"}
<1>2. IsFiniteSet(w) /\ Cardinality(w) \in Nat
  BY WaitingReadsFinite
<1>3. rowDep'[d][b].blockedReadReqCnt = rowDep[d][b].blockedReadReqCnt + One(then) - One(now)
  BY DEF RowMoves
<1>4. x \in w <=> now
  <2>1. req[x] # NoReq
    BY DEF Live, NoReq
  <2>. QED
    BY <2>1 DEF WaitingReads, OnBlock, OnRow, IsRead, Blocked
<1>5. x \in v <=> then
  <2>1. req[x] # NoReq
    BY DEF Live, NoReq
  <2>. QED
    BY <2>1 DEF WaitingReads, OnBlock, OnRow, IsRead
<1>6. \A y \in Slots \ {x} : y \in v <=> y \in w
  BY DEF WaitingReads, OnBlock, Blocked
<1>7. w \subseteq Slots /\ v \subseteq Slots
  BY DEF WaitingReads
<1> HIDE DEF w, v, now, then
<1>8. /\ Cardinality(w \cup {x}) = IF x \in w THEN Cardinality(w) ELSE Cardinality(w) + 1
      /\ Cardinality(w \ {x}) = IF x \in w THEN Cardinality(w) - 1 ELSE Cardinality(w)
  BY <1>2, FS_AddElement, FS_RemoveElement
<1>9. One(TRUE) = 1 /\ One(FALSE) = 0
  BY DEF One
<1>10. v = (IF x \in v THEN w \cup {x} ELSE w \ {x})
  BY <1>6, <1>7
<1>11. Cardinality(v) = Cardinality(w) + (IF then THEN 1 ELSE 0) - (IF now THEN 1 ELSE 0)
  <2>1. Cardinality(v) = IF x \in v THEN (IF x \in w THEN Cardinality(w) ELSE Cardinality(w) + 1)
                         ELSE (IF x \in w THEN Cardinality(w) - 1 ELSE Cardinality(w))
    <3>1. CASE x \in v
      <4>1. v = w \cup {x}
        BY <1>10, <3>1
      <4>. QED
        BY <1>8, <3>1, <4>1
    <3>2. CASE x \notin v
      <4>1. v = w \ {x}
        BY <1>10, <3>2
      <4>. QED
        BY <1>8, <3>2, <4>1
    <3>. QED
      BY <3>1, <3>2
  <2>2. (IF x \in v THEN (IF x \in w THEN Cardinality(w) ELSE Cardinality(w) + 1)
                         ELSE (IF x \in w THEN Cardinality(w) - 1 ELSE Cardinality(w)))
         = (IF then THEN (IF now THEN Cardinality(w) ELSE Cardinality(w) + 1)
                         ELSE (IF now THEN Cardinality(w) - 1 ELSE Cardinality(w)))
    BY <1>4, <1>5, Zenon
  <2>3. \A n \in Nat : (IF then THEN (IF now THEN n ELSE n + 1) ELSE (IF now THEN n - 1 ELSE n))
                       = n + (IF then THEN 1 ELSE 0) - (IF now THEN 1 ELSE 0)
    OBVIOUS
  <2>. QED
    BY <1>2, <2>1, <2>2, <2>3
<1>12. One(then) = (IF then THEN 1 ELSE 0) /\ One(now) = (IF now THEN 1 ELSE 0)
  BY DEF One
<1>13. rowDep'[d][b].blockedReadReqCnt = Cardinality(v)
  BY <1>1, <1>2, <1>3, <1>11, <1>12 DEF w
<1>. QED
  BY <1>13 DEF v

\* and when none does.
LEMMA CountSame ==
    ASSUME Base, BlockedReadsExact, UNCHANGED rowDep,
           \A y \in Slots : Blocked(y)' <=> Blocked(y),
           \A y \in Slots : Blocked(y) => req'[y] = req[y]
    PROVE  BlockedReadsExact'
<1> SUFFICES ASSUME NEW d \in Dies, NEW b \in Blocks
             PROVE  rowDep'[d][b].blockedReadReqCnt = Cardinality(WaitingReads(d, b)')
  BY DEF BlockedReadsExact, WaitingReads
<1>1. rowDep[d][b].blockedReadReqCnt = Cardinality(WaitingReads(d, b))
  BY DEF BlockedReadsExact, WaitingReads
<1>2. WaitingReads(d, b)' = WaitingReads(d, b)
  BY DEF WaitingReads, OnBlock, Blocked
<1>. QED
  BY <1>1, <1>2

\* So every step keeps it exact.
LEMMA StepCounts ==
    ASSUME Base, BlockedReadsExact, [Next]_vars
    PROVE  BlockedReadsExact'
<1>1. StepKind /\ queue \in [Slots -> Queues] /\ req \in [Slots -> Proper \cup {NoReq}]
  BY StepIs DEF Base, Typed, TypedRequests
<1>2. CASE Quiet
  <2>1. UNCHANGED <<req, rowDep>>
    BY <1>2 DEF Quiet
  <2>2. \A y \in Slots : Blocked(y)' <=> Blocked(y)
    BY <1>2 DEF Quiet, Blocked
  <2>. QED
    BY <2>1, <2>2, CountSame
<1>3. CASE \E s \in Slots : Creates(s)
  <2>1. PICK s \in Slots : Creates(s)
    BY <1>3
  <2>2. /\ queue[s] \in {"free", "cpu"} /\ queue' = [queue EXCEPT ![s] = "cpu"] /\ req' = [req EXCEPT ![s] = Head(todo)]
        /\ UNCHANGED rowDep
    BY <2>1 DEF Creates
  <2>3. queue'[s] = "cpu" /\ \A y \in Slots \ {s} : queue'[y] = queue[y] /\ req'[y] = req[y]
    BY <1>1, <2>2
  <2>4. \A y \in Slots : (Blocked(y)' <=> Blocked(y)) /\ (Blocked(y) => y # s)
    BY <2>2, <2>3 DEF Blocked
  <2>. QED
    BY <2>2, <2>3, <2>4, CountSame
<1>4. CASE \E q : Selects(selecting, q)
  <2>1. PICK s, q : s = selecting /\ Selects(s, q)
    BY <1>4
  <2>2. s \in Slots /\ Live(s) /\ Selected(q, rowDep') /\ RowMoves(s, q)
    BY <2>1 DEF Selects
  <2>3. queue' = [queue EXCEPT ![s] = q] /\ req' = req
    BY <2>1, <2>2 DEF Selected
  <2>4. queue'[s] = q /\ req'[s] = req[s] /\ \A y \in Slots \ {s} : queue'[y] = queue[y] /\ req'[y] = req[y]
    BY <1>1, <2>2, <2>3
  <2>5. \A y \in Slots \ {s} : Blocked(y)' <=> Blocked(y)
    BY <2>4 DEF Blocked
  <2>. QED
    BY <2>2, <2>4, <2>5, CountMoved
<1>5. CASE \E s \in Slots : RowReleases(s)
  <2>1. PICK s \in Slots : RowReleases(s)
    BY <1>5
  <2>2. /\ queue[s] = "rowDep" /\ queue' = [queue EXCEPT ![s] = "nand"] /\ RowMoves(s, "nand") /\ req' = req
    BY <2>1 DEF RowReleases
  <2>3. Live(s)
    BY <2>2 DEF Base, TagsInv, Blocked
  <2>4. queue'[s] = "nand" /\ req'[s] = req[s] /\ \A y \in Slots \ {s} : queue'[y] = queue[y] /\ req'[y] = req[y]
    BY <1>1, <2>2
  <2>5. \A y \in Slots \ {s} : Blocked(y)' <=> Blocked(y)
    BY <2>4 DEF Blocked
  <2>. QED
    BY <2>2, <2>3, <2>4, <2>5, CountMoved
<1>6. CASE \E s \in Slots : DmaEnds(s) \/ NandEnds(s)
  <2>1. PICK s \in Slots : DmaEnds(s) \/ NandEnds(s)
    BY <1>6
  <2>2. PICK dma0, nand0 : Finishes(s, dma0, nand0)
    BY <2>1 DEF DmaEnds, NandEnds
  <2>3. PICK t, q : t = nextBlockingReq[s] /\ q = ReleasedTo(t)
    OBVIOUS
  <2>4. /\ s \in Slots /\ Live(s) /\ Running(s) /\ queue'[s] = "free" /\ ~Live(s)'
        /\ \A x \in Slots \ {s} : req'[x] = req[x]
        /\ \A x \in Slots : x # s /\ ~(Released(s) /\ x = t) => queue'[x] = queue[x]
        /\ Released(s) => queue'[t] = q
    BY <2>2, <2>3, FinishTags
  <2>5. /\ Released(s) => t \in Slots /\ t # s /\ Live(t) /\ RowMoves(t, q)
        /\ ~Released(s) => UNCHANGED rowDep
    BY <2>2, <2>3, FinishIs DEF Base, Typed
  <2>6. ~Blocked(s) /\ ~Blocked(s)'
    <3>1. queue[s] \in {"nand", "dma"}
      BY <2>2 DEF Finishes
    <3>. QED
      BY <2>4, <3>1 DEF Blocked
  <2>7. CASE Released(s)
    <3>1. \A y \in Slots \ {t} : Blocked(y)' <=> Blocked(y)
      BY <2>4, <2>6 DEF Blocked
    <3>2. \A y \in Slots \ {t} : (Blocked(y)' /\ req'[y] = req[y]) \/ ~Blocked(y)'
      BY <2>4, <2>6
    <3>3. req'[t] = req[t]
      BY <2>4, <2>5, <2>7
    <3>. QED
      BY <2>4, <2>5, <2>7, <3>1, <3>2, <3>3, CountMoved
  <2>8. CASE ~Released(s)
    <3>1. \A y \in Slots : Blocked(y)' <=> Blocked(y)
      BY <2>4, <2>6, <2>8 DEF Blocked
    <3>2. \A y \in Slots : Blocked(y) => req'[y] = req[y]
      BY <2>4, <2>6
    <3>. QED
      BY <2>5, <2>8, <3>1, <3>2, CountSame
  <2>. QED
    BY <2>7, <2>8
<1>. QED
  BY <1>1, <1>2, <1>3, <1>4, <1>5, <1>6, Zenon DEF StepKind
-----------------------------------------------------------------------------
(* Which entry of a list comes before which.                                *)

\* Entry x comes before entry y on list l.
Precedes(l, x, y) == \E i, j \in 1 .. Len(l) : i < j /\ l[i] = x /\ l[j] = y

\* On a list without repetitions this is a strict order of its entries.
LEMMA PrecedesOrder ==
    ASSUME NEW S, NEW l \in Seq(S), Distinct(l), NEW x, NEW y
    PROVE  /\ Precedes(l, x, y) => InList(l, x) /\ InList(l, y) /\ x # y /\ ~Precedes(l, y, x)
           /\ InList(l, x) /\ InList(l, y) /\ x # y => Precedes(l, x, y) \/ Precedes(l, y, x)
           /\ \A z : Precedes(l, x, y) /\ Precedes(l, y, z) => Precedes(l, x, z)
<1>1. Len(l) \in Nat
  BY LenProperties
<1>2. ASSUME Precedes(l, x, y)
      PROVE  InList(l, x) /\ InList(l, y) /\ x # y /\ ~Precedes(l, y, x)
  <2>1. PICK i, j \in 1 .. Len(l) : i < j /\ l[i] = x /\ l[j] = y
    BY <1>2 DEF Precedes
  <2>2. x # y
    BY <1>1, <2>1 DEF Distinct
  <2>3. ASSUME NEW m \in 1 .. Len(l), NEW n \in 1 .. Len(l), m < n, l[m] = y, l[n] = x
        PROVE  FALSE
    <3>1. m = j /\ n = i
      BY <2>1, <2>3 DEF Distinct
    <3>. QED
      BY <1>1, <2>1, <2>3, <3>1
  <2>. QED
    BY <2>1, <2>2, <2>3 DEF InList, Precedes
<1>3. ASSUME InList(l, x), InList(l, y), x # y
      PROVE  Precedes(l, x, y) \/ Precedes(l, y, x)
  <2>1. PICK i, j \in 1 .. Len(l) : l[i] = x /\ l[j] = y
    BY <1>3 DEF InList
  <2>2. i < j \/ j < i
    BY <1>1, <1>3, <2>1
  <2>. QED
    BY <2>1, <2>2 DEF Precedes
<1>4. ASSUME NEW z, Precedes(l, x, y), Precedes(l, y, z)
      PROVE  Precedes(l, x, z)
  <2>1. PICK i, j \in 1 .. Len(l) : i < j /\ l[i] = x /\ l[j] = y
    BY <1>4 DEF Precedes
  <2>2. PICK m, n \in 1 .. Len(l) : m < n /\ l[m] = y /\ l[n] = z
    BY <1>4 DEF Precedes
  <2>3. m = j
    BY <2>1, <2>2 DEF Distinct
  <2>4. i < n
    BY <1>1, <2>1, <2>2, <2>3
  <2>. QED
    BY <2>1, <2>2, <2>4 DEF Precedes
<1>. QED
  BY <1>2, <1>3, <1>4

\* A new entry comes after all others.
LEMMA AppendPrecedes ==
    ASSUME NEW S, NEW l \in Seq(S), NEW e \in S, NEW x, NEW y
    PROVE  Precedes(Append(l, e), x, y) <=> Precedes(l, x, y) \/ (InList(l, x) /\ y = e)
<1>1. Len(l) \in Nat
  BY LenProperties
<1> DEFINE r == Append(l, e)
<1>2. Len(r) = Len(l) + 1 /\ (\A i \in 1 .. Len(l) : r[i] = l[i]) /\ r[Len(l) + 1] = e
  <2>1. Len(r) = Len(l) + 1 /\ \A j \in 1 .. Len(l) + 1 : r[j] = IF j <= Len(l) THEN l[j] ELSE e
    BY AppendEntry
  <2>. QED
    BY <1>1, <2>1
<1> HIDE DEF r
<1>3. ASSUME NEW i \in 1 .. Len(r), NEW j \in 1 .. Len(r), i < j, r[i] = x, r[j] = y
      PROVE  Precedes(l, x, y) \/ (InList(l, x) /\ y = e)
  <2>1. i \in 1 .. Len(l) /\ l[i] = x
    BY <1>1, <1>2, <1>3
  <2>2. CASE j <= Len(l)
    <3>1. j \in 1 .. Len(l) /\ l[j] = y
      BY <1>1, <1>2, <1>3, <2>2
    <3>. QED
      BY <1>3, <2>1, <3>1 DEF Precedes
  <2>3. CASE ~(j <= Len(l))
    <3>1. j = Len(l) + 1
      BY <1>1, <1>2, <2>3
    <3>. QED
      BY <1>2, <1>3, <2>1, <3>1 DEF InList
  <2>. QED
    BY <2>2, <2>3
<1>4. ASSUME NEW i \in 1 .. Len(l), NEW j \in 1 .. Len(l), i < j, l[i] = x, l[j] = y
      PROVE  Precedes(r, x, y)
  <2>1. i \in 1 .. Len(r) /\ j \in 1 .. Len(r)
    BY <1>1, <1>2
  <2>. QED
    BY <1>2, <1>4, <2>1 DEF Precedes
<1>5. ASSUME NEW i \in 1 .. Len(l), l[i] = x, y = e
      PROVE  Precedes(r, x, y)
  <2>1. i \in 1 .. Len(r) /\ Len(l) + 1 \in 1 .. Len(r) /\ i < Len(l) + 1
    BY <1>1, <1>2
  <2>. QED
    BY <1>2, <1>5, <2>1 DEF Precedes
<1>. QED
  BY <1>3, <1>4, <1>5 DEF r, Precedes, InList

\* The other entries stay in order when one is unlinked.
LEMMA UnlinkPrecedes ==
    ASSUME NEW S, NEW l \in Seq(S), NEW e, Distinct(l), NEW x, NEW y
    PROVE  Precedes(Unlink(l, e), x, y) <=> Precedes(l, x, y) /\ x # e /\ y # e
<1>1. CASE ~InList(l, e)
  <2>1. Unlink(l, e) = l
    BY <1>1 DEF Unlink
  <2>2. Precedes(l, x, y) => x # e /\ y # e
    BY <1>1, PrecedesOrder
  <2>. QED
    BY <2>1, <2>2
<1>2. CASE InList(l, e)
  <2>1. PICK k \in 1 .. Len(l) : k = (CHOOSE i \in 1 .. Len(l) : l[i] = e) /\ l[k] = e
    BY <1>2 DEF InList
  <2> DEFINE r == RemoveAtIndex(l, k)
  <2>2. Unlink(l, e) = r
    BY <1>2, <2>1 DEF Unlink
  <2>3. Len(l) \in Nat
    BY LenProperties
  <2>4. /\ Len(r) = Len(l) - 1
        /\ \A j \in 1 .. Len(l) - 1 : r[j] = IF j < k THEN l[j] ELSE l[j + 1]
    BY RemoveAtIndexProperties
  <2> HIDE DEF r
  <2> DEFINE old(j) == IF j < k THEN j ELSE j + 1
  <2>5. \A j \in 1 .. Len(r) : old(j) \in 1 .. Len(l) /\ old(j) # k /\ r[j] = l[old(j)]
    BY <2>3, <2>4
  <2>6. \A i, j \in 1 .. Len(r) : i < j <=> old(i) < old(j)
    BY <2>3, <2>4
  <2>7. \A i \in 1 .. Len(l) : i # k => \E j \in 1 .. Len(r) : old(j) = i
    <3> SUFFICES ASSUME NEW i \in 1 .. Len(l), i # k
                 PROVE  \E j \in 1 .. Len(r) : old(j) = i
      OBVIOUS
    <3>1. CASE i < k
      <4>1. i \in 1 .. Len(r) /\ old(i) = i
        BY <2>3, <2>4, <3>1
      <4>. QED
        BY <4>1
    <3>2. CASE i > k
      <4>1. i - 1 \in 1 .. Len(r) /\ old(i - 1) = i
        BY <2>3, <2>4, <3>2
      <4>. QED
        BY <4>1
    <3>. QED
      BY <3>1, <3>2
  <2> HIDE DEF old
  <2>8. ASSUME NEW i \in 1 .. Len(r), NEW j \in 1 .. Len(r), i < j, r[i] = x, r[j] = y
        PROVE  Precedes(l, x, y) /\ x # e /\ y # e
    <3>1. /\ old(i) \in 1 .. Len(l) /\ l[old(i)] = x /\ old(i) # k
          /\ old(j) \in 1 .. Len(l) /\ l[old(j)] = y /\ old(j) # k
          /\ old(i) < old(j)
      BY <2>5, <2>6, <2>8
    <3>2. x # e /\ y # e
      BY <2>1, <3>1 DEF Distinct
    <3>. QED
      BY <3>1, <3>2 DEF Precedes
  <2>9. ASSUME NEW m \in 1 .. Len(l), NEW n \in 1 .. Len(l), m < n, l[m] = x, l[n] = y, x # e, y # e
        PROVE  Precedes(r, x, y)
    <3>1. m # k /\ n # k
      BY <2>1, <2>9
    <3>2. PICK i \in 1 .. Len(r) : old(i) = m
      BY <2>7, <3>1
    <3>3. PICK j \in 1 .. Len(r) : old(j) = n
      BY <2>7, <3>1
    <3>4. i < j /\ r[i] = x /\ r[j] = y
      BY <2>5, <2>6, <2>9, <3>2, <3>3
    <3>. QED
      BY <3>4 DEF Precedes
  <2>. QED
    BY <2>2, <2>8, <2>9 DEF Precedes
<1>. QED
  BY <1>1, <1>2

\* The head comes before all others, which stay in order when it leaves.
LEMMA TailPrecedes ==
    ASSUME NEW S, NEW l \in Seq(S), l # <<>>, Distinct(l), NEW x, NEW y
    PROVE  /\ Precedes(Tail(l), x, y) <=> Precedes(l, x, y) /\ x # Head(l)
           /\ InList(l, x) /\ x # Head(l) => Precedes(l, Head(l), x)
           /\ Precedes(l, x, y) => y # Head(l)
<1>1. Len(l) \in Nat /\ Len(l) # 0 /\ 1 \in 1 .. Len(l)
  BY EmptySeq, LenProperties
<1>2. Head(l) = l[1]
  BY <1>1, HeadTailProperties
<1> DEFINE r == Tail(l)
<1>3. Len(r) = Len(l) - 1 /\ \A i \in 1 .. Len(l) - 1 : r[i] = l[i + 1]
  BY <1>1, HeadTailProperties
<1> HIDE DEF r
<1>4. ASSUME NEW i \in 1 .. Len(r), NEW j \in 1 .. Len(r), i < j, r[i] = x, r[j] = y
      PROVE  Precedes(l, x, y) /\ x # Head(l)
  <2>1. i + 1 \in 1 .. Len(l) /\ j + 1 \in 1 .. Len(l) /\ i + 1 < j + 1 /\ i + 1 # 1 /\ l[i + 1] = x /\ l[j + 1] = y
    BY <1>1, <1>3, <1>4
  <2>2. x # l[1]
    BY <1>1, <2>1 DEF Distinct
  <2>. QED
    BY <1>2, <2>1, <2>2 DEF Precedes
<1>5. ASSUME NEW i \in 1 .. Len(l), NEW j \in 1 .. Len(l), i < j, l[i] = x, l[j] = y
      PROVE  (x # Head(l) => Precedes(r, x, y)) /\ y # Head(l)
  <2>1. j # 1
    BY <1>1, <1>5
  <2>2. y # Head(l)
    BY <1>1, <1>2, <1>5, <2>1 DEF Distinct
  <2>3. ASSUME x # Head(l) PROVE Precedes(r, x, y)
    <3>1. i # 1
      BY <1>2, <1>5, <2>3
    <3>2. i - 1 \in 1 .. Len(r) /\ j - 1 \in 1 .. Len(r) /\ i - 1 < j - 1 /\ (i - 1) + 1 = i /\ (j - 1) + 1 = j
      BY <1>1, <1>3, <1>5, <2>1, <3>1
    <3>3. r[i - 1] = x /\ r[j - 1] = y
      BY <1>3, <1>5, <3>2
    <3>. QED
      BY <3>2, <3>3 DEF Precedes
  <2>. QED
    BY <2>2, <2>3
<1>6. ASSUME InList(l, x), x # Head(l) PROVE Precedes(l, Head(l), x)
  <2>1. PICK i \in 1 .. Len(l) : l[i] = x
    BY <1>6 DEF InList
  <2>2. 1 < i
    BY <1>1, <1>2, <1>6, <2>1
  <2>. QED
    BY <1>1, <1>2, <2>1, <2>2 DEF Precedes
<1>. QED
  BY <1>4, <1>5, <1>6 DEF r, Precedes
-----------------------------------------------------------------------------
(* The chain of a buffer: its live requests in the order of their creation. *)

\* Request s was asked for before t; the two want the same buffer.
Before(s, t) == Precedes(order, s, t)
SameBuf(s, t) == Live(s) /\ Live(t) /\ req[s].buf # NONE /\ req[s].buf = req[t].buf

\* The history has the live requests, once each, and the one that the CPU works on last.
OrderInv ==
    /\ Distinct(order)
    /\ \A s \in Slots : InList(order, s) <=> Live(s)
    /\ selecting # NONE => \A u \in Slots : Live(u) /\ u # selecting => Before(u, selecting)

\* The chain of a buffer: a request has no neighbours, or its predecessor is the last
\* one asked for before it, its successor points back, and blockingReqTail is the
\* last of all.
Unchained(s) == prevBlockingReq[s] = NONE /\ nextBlockingReq[s] = NONE
ChainedBack(s) ==
    LET p == prevBlockingReq[s]
    IN  IF p = NONE THEN \A u \in Slots : SameBuf(s, u) /\ u # s => Before(s, u)
        ELSE /\ SameBuf(s, p) /\ Before(p, s) /\ nextBlockingReq[p] = s
             /\ \A u \in Slots : SameBuf(s, u) /\ u # s /\ u # p => Before(u, p) \/ Before(s, u)
ChainedOn(s) ==
    LET n == nextBlockingReq[s]
    IN  IF n = NONE THEN blockingReqTail[req[s].buf] = s
        ELSE SameBuf(s, n) /\ prevBlockingReq[n] = s
TailOf(b) ==
    LET t == blockingReqTail[b]
    IN  IF t = NONE THEN \A u \in Slots : Live(u) => req[u].buf # b
        ELSE /\ Live(t) /\ req[t].buf = b /\ nextBlockingReq[t] = NONE
             /\ \A u \in Slots : SameBuf(t, u) /\ u # t => Before(u, t)

\* The requests of a buffer are chained in the order they were asked for, those that
\* wait for it are behind another, and those that left are the first.
ChainInv ==
    /\ \A s \in Slots : ~Live(s) \/ req[s].buf = NONE => Unchained(s)
    /\ \A s \in Slots : Live(s) /\ req[s].buf # NONE => ChainedBack(s) /\ ChainedOn(s)
    /\ \A b \in AllBufs : TailOf(b)
    /\ \A s \in Slots : queue[s] = "bufDep" => prevBlockingReq[s] # NONE
    /\ \A s \in Slots : Running(s) => prevBlockingReq[s] = NONE

\* The types the lemmas on chains use.
LEMMA OrderTyped ==
    ASSUME Base
    PROVE  order \in Seq(Slots) /\ NONE \notin Slots /\ NONE \notin AllBufs /\ queue \in [Slots -> Queues]
           /\ req \in [Slots -> Proper \cup {NoReq}]
           /\ prevBlockingReq \in [Slots -> Slots \cup {NONE}] /\ nextBlockingReq \in [Slots -> Slots \cup {NONE}]
           /\ blockingReqTail \in [AllBufs -> Slots \cup {NONE}]
  BY GeometryAssumption DEF Base, Typed, TypedRequests

\* A new request is the last.
LEMMA CreateKeepsOrder ==
    ASSUME Base, OrderInv, NEW s \in Slots, Creates(s)
    PROVE  /\ OrderInv'
           /\ \A x, y : Before(x, y)' <=> Before(x, y) \/ (InList(order, x) /\ y = s)
           /\ req'[s] = Head(todo) /\ Live(s)' /\ ~Live(s)
           /\ \A x \in Slots \ {s} : req'[x] = req[x] /\ queue'[x] = queue[x] /\ (Live(x)' <=> Live(x))
<1>1. /\ ~Live(s) /\ Head(todo) \in Proper /\ req' = [req EXCEPT ![s] = Head(todo)]
      /\ order' = Append(order, s) /\ selecting' = s /\ queue' = [queue EXCEPT ![s] = "cpu"]
  BY DEF Creates
<1>2. order \in Seq(Slots) /\ req \in [Slots -> Proper \cup {NoReq}] /\ queue \in [Slots -> Queues]
  BY OrderTyped
<1>3. Distinct(order) /\ ~InList(order, s)
  BY <1>1 DEF OrderInv
<1>4. Distinct(order') /\ \A x : InList(order', x) <=> InList(order, x) \/ x = s
  BY <1>1, <1>2, <1>3, AppendList
<1>5. \A x, y : Before(x, y)' <=> Before(x, y) \/ (InList(order, x) /\ y = s)
  <2>1. ASSUME NEW x, NEW y
        PROVE  Precedes(Append(order, s), x, y) <=> Precedes(order, x, y) \/ (InList(order, x) /\ y = s)
    BY <1>2, AppendPrecedes
  <2>. QED
    BY <1>1, <2>1 DEF Before
<1>6. req'[s] = Head(todo) /\ \A x \in Slots \ {s} : req'[x] = req[x] /\ queue'[x] = queue[x]
  BY <1>1, <1>2
<1>7. Live(s)'
  <2>1. Head(todo).code \in Codes
    BY <1>1 DEF Proper, Requests
  <2>. QED
    BY <1>6, <2>1 DEF Live, Codes
<1>8. \A x \in Slots \ {s} : Live(x)' <=> Live(x)
  BY <1>6 DEF Live
<1>9. OrderInv'
  <2>1. \A x \in Slots : InList(order', x) <=> Live(x)'
    BY <1>4, <1>7, <1>8 DEF OrderInv
  <2>2. \A u \in Slots : Live(u)' /\ u # s => Before(u, s)'
    BY <1>5, <1>8 DEF OrderInv
  <2>3. selecting' # NONE => \A u \in Slots : Live(u)' /\ u # selecting' => Precedes(order', u, selecting')
    BY <1>1, <2>2 DEF Before
  <2>. QED
    BY <1>4, <2>1, <2>3 DEF OrderInv, Before
<1>. QED
  BY <1>1, <1>5, <1>6, <1>7, <1>8, <1>9

\* It is chained behind the tail of its buffer, which is the last asked for before it.
LEMMA CreateKeepsChains ==
    ASSUME Base, OrderInv, ChainInv, NEW s \in Slots, Creates(s)
    PROVE  ChainInv'
<1>1. PICK b : b = Head(todo).buf
  OBVIOUS
<1>2. PICK t : t = IF b = NONE THEN NONE ELSE blockingReqTail[b]
  OBVIOUS
<1>3. /\ blockingReqTail' = IF b = NONE THEN blockingReqTail ELSE [blockingReqTail EXCEPT ![b] = s]
      /\ prevBlockingReq' = IF t = NONE THEN prevBlockingReq ELSE [prevBlockingReq EXCEPT ![s] = t]
      /\ nextBlockingReq' = IF t = NONE THEN nextBlockingReq ELSE [nextBlockingReq EXCEPT ![t] = s]
      /\ Head(todo) \in Proper /\ queue' = [queue EXCEPT ![s] = "cpu"]
  BY <1>1, <1>2 DEF Creates
<1>4. /\ \A x, y : Before(x, y)' <=> Before(x, y) \/ (InList(order, x) /\ y = s)
      /\ req'[s].buf = b /\ Live(s)' /\ ~Live(s)
      /\ \A x \in Slots \ {s} : req'[x] = req[x] /\ queue'[x] = queue[x] /\ (Live(x)' <=> Live(x))
  BY <1>1, CreateKeepsOrder
<1>5. /\ order \in Seq(Slots) /\ NONE \notin Slots /\ NONE \notin AllBufs /\ queue \in [Slots -> Queues]
      /\ req \in [Slots -> Proper \cup {NoReq}]
      /\ prevBlockingReq \in [Slots -> Slots \cup {NONE}] /\ nextBlockingReq \in [Slots -> Slots \cup {NONE}]
      /\ blockingReqTail \in [AllBufs -> Slots \cup {NONE}]
  BY OrderTyped
<1>6. b \in AllBufs \cup {NONE}
  BY <1>1, <1>3 DEF Proper, Requests
<1>7. t \in Slots \cup {NONE} /\ (t # NONE => b # NONE /\ t = blockingReqTail[b])
  BY <1>2, <1>5, <1>6
<1>8. t # NONE => Live(t) /\ t # s /\ req[t].buf = b /\ nextBlockingReq[t] = NONE
                  /\ \A u \in Slots : SameBuf(t, u) /\ u # t => Before(u, t)
  BY <1>4, <1>5, <1>6, <1>7 DEF ChainInv, TailOf
<1>9. prevBlockingReq[s] = NONE /\ nextBlockingReq[s] = NONE
  BY <1>4 DEF ChainInv, Unchained
<1>10. /\ prevBlockingReq'[s] = t /\ nextBlockingReq'[s] = NONE
       /\ \A x \in Slots : x # s => prevBlockingReq'[x] = prevBlockingReq[x]
       /\ \A x \in Slots : x # t => nextBlockingReq'[x] = nextBlockingReq[x]
       /\ t # NONE => nextBlockingReq'[t] = s
  BY <1>3, <1>5, <1>7, <1>8, <1>9
<1>11. /\ b # NONE => blockingReqTail'[b] = s
       /\ \A c \in AllBufs : c # b => blockingReqTail'[c] = blockingReqTail[c]
  BY <1>3, <1>5, <1>6
<1>12. \A x, y \in Slots : x # s /\ y # s => (SameBuf(x, y)' <=> SameBuf(x, y))
  BY <1>4 DEF SameBuf
<1>13. \A x \in Slots : x # s => (SameBuf(s, x)' <=> Live(x) /\ b # NONE /\ req[x].buf = b)
                                 /\ (SameBuf(x, s)' <=> Live(x) /\ b # NONE /\ req[x].buf = b)
  BY <1>4 DEF SameBuf
<1>14. \A x \in Slots : Live(x) => Before(x, s)'
  BY <1>4 DEF OrderInv
<1>15. \A x \in Slots \ {s} : (Running(x)' <=> Running(x))
  BY <1>4 DEF Running
<1>16. queue'[s] = "cpu" /\ ~Running(s)'
  BY <1>3, <1>5 DEF Running
<1>17. ASSUME NEW x \in Slots, ~Live(x)' \/ req'[x].buf = NONE
       PROVE  Unchained(x)'
  <2>1. CASE x = s
    <3>1. t = NONE
      BY <1>4, <1>7, <1>17, <2>1
    <3>. QED
      BY <1>10, <2>1, <3>1 DEF Unchained
  <2>2. CASE x # s
    <3>1. Unchained(x) /\ (~Live(x) \/ req[x].buf = NONE)
      BY <1>4, <1>17, <2>2 DEF ChainInv
    <3>2. x # t
      BY <1>5, <1>7, <1>8, <3>1
    <3>. QED
      BY <1>10, <2>2, <3>1, <3>2 DEF Unchained
  <2>. QED
    BY <2>1, <2>2
<1>18. ASSUME NEW x \in Slots, Live(x)', req'[x].buf # NONE
       PROVE  ChainedBack(x)'
  <2>1. CASE x = s /\ t = NONE
    <3>1. b \in AllBufs /\ \A u \in Slots : Live(u) => req[u].buf # b
      BY <1>2, <1>4, <1>5, <1>6, <1>18, <2>1 DEF ChainInv, TailOf
    <3>2. \A u \in Slots : SameBuf(s, u)' /\ u # s => FALSE
      BY <1>13, <3>1
    <3>. QED
      BY <1>10, <2>1, <3>2 DEF ChainedBack
  <2>2. CASE x = s /\ t # NONE
    <3>1. t \in Slots /\ t # s /\ SameBuf(s, t)' /\ Before(t, s)' /\ nextBlockingReq'[t] = s
      BY <1>5, <1>7, <1>8, <1>10, <1>13, <1>14, <2>2
    <3>2. ASSUME NEW u \in Slots, SameBuf(s, u)', u # s, u # t
          PROVE  Before(u, t)'
      <4>1. SameBuf(t, u)
        BY <1>7, <1>8, <1>13, <2>2, <3>2 DEF SameBuf
      <4>. QED
        BY <1>4, <1>8, <2>2, <3>2, <4>1
    <3>. QED
      BY <1>10, <2>2, <3>1, <3>2 DEF ChainedBack
  <2>3. CASE x # s /\ prevBlockingReq[x] = NONE
    <3>1. ChainedBack(x) /\ Live(x) /\ req[x].buf # NONE
      BY <1>4, <1>18, <2>3 DEF ChainInv
    <3>2. ASSUME NEW u \in Slots, SameBuf(x, u)', u # x
          PROVE  Before(x, u)'
      <4>1. CASE u = s
        BY <1>14, <3>1, <4>1
      <4>2. CASE u # s
        BY <1>4, <1>12, <2>3, <3>1, <3>2, <4>2 DEF ChainedBack
      <4>. QED
        BY <4>1, <4>2
    <3>. QED
      BY <1>10, <2>3, <3>2 DEF ChainedBack
  <2>4. CASE x # s /\ prevBlockingReq[x] # NONE
    <3>1. PICK p : p = prevBlockingReq[x]
      OBVIOUS
    <3>2. ChainedBack(x) /\ Live(x) /\ req[x].buf # NONE /\ p \in Slots
      BY <1>4, <1>5, <1>18, <2>4, <3>1 DEF ChainInv
    <3>3. /\ SameBuf(x, p) /\ Before(p, x) /\ nextBlockingReq[p] = x
          /\ \A u \in Slots : SameBuf(x, u) /\ u # x /\ u # p => Before(u, p) \/ Before(x, u)
      BY <2>4, <3>1, <3>2 DEF ChainedBack
    <3>4. p # s /\ p # t
      BY <1>4, <1>5, <1>8, <3>2, <3>3 DEF SameBuf
    <3>5. SameBuf(x, p)' /\ Before(p, x)' /\ nextBlockingReq'[p] = x
      BY <1>4, <1>10, <1>12, <2>4, <3>2, <3>3, <3>4
    <3>6. ASSUME NEW u \in Slots, SameBuf(x, u)', u # x, u # p
          PROVE  Before(u, p)' \/ Before(x, u)'
      <4>1. CASE u = s
        BY <1>14, <3>2, <4>1
      <4>2. CASE u # s
        BY <1>4, <1>12, <2>4, <3>3, <3>6, <4>2
      <4>. QED
        BY <4>1, <4>2
    <3>. QED
      BY <1>10, <2>4, <3>1, <3>5, <3>6 DEF ChainedBack
  <2>. QED
    BY <2>1, <2>2, <2>3, <2>4
<1>19. ASSUME NEW x \in Slots, Live(x)', req'[x].buf # NONE
       PROVE  ChainedOn(x)'
  <2>1. CASE x = s
    BY <1>4, <1>10, <1>11, <1>19, <2>1 DEF ChainedOn
  <2>2. CASE x # s /\ x = t
    <3>1. SameBuf(x, s)' /\ prevBlockingReq'[s] = x /\ nextBlockingReq'[x] = s
      BY <1>5, <1>7, <1>8, <1>10, <1>13, <2>2
    <3>. QED
      BY <1>5, <3>1 DEF ChainedOn
  <2>3. CASE x # s /\ x # t
    <3>1. ChainedOn(x) /\ Live(x) /\ req[x].buf # NONE /\ req[x].buf = req'[x].buf
      BY <1>4, <1>19, <2>3 DEF ChainInv
    <3>2. req[x].buf \in AllBufs
      BY <3>1, LiveRequest DEF Base, Typed
    <3>3. nextBlockingReq'[x] = nextBlockingReq[x]
      BY <1>10, <2>3
    <3>4. CASE nextBlockingReq[x] = NONE
      <4>1. blockingReqTail[req[x].buf] = x
        BY <3>1, <3>4 DEF ChainedOn
      <4>2. req[x].buf # b
        BY <1>2, <2>3, <3>1, <4>1
      <4>3. blockingReqTail'[req[x].buf] = x
        BY <1>11, <3>2, <4>1, <4>2
      <4>. QED
        BY <3>1, <3>3, <3>4, <4>3 DEF ChainedOn
    <3>5. CASE nextBlockingReq[x] # NONE
      <4>1. PICK n : n = nextBlockingReq[x]
        OBVIOUS
      <4>2. n \in Slots /\ SameBuf(x, n) /\ prevBlockingReq[n] = x
        BY <1>5, <3>1, <3>5, <4>1 DEF ChainedOn
      <4>3. n # s
        BY <1>4, <4>2 DEF SameBuf
      <4>4. SameBuf(x, n)' /\ prevBlockingReq'[n] = x
        BY <1>10, <1>12, <2>3, <4>2, <4>3
      <4>. QED
        BY <3>3, <3>5, <4>1, <4>4 DEF ChainedOn
    <3>. QED
      BY <3>4, <3>5
  <2>. QED
    BY <2>1, <2>2, <2>3
<1>20. ASSUME NEW c \in AllBufs
       PROVE  TailOf(c)'
  <2>1. CASE c = b
    <3>1. blockingReqTail'[c] = s /\ s # NONE /\ b # NONE
      BY <1>5, <1>11, <2>1
    <3>2. \A u \in Slots : SameBuf(s, u)' /\ u # s => Before(u, s)'
      BY <1>13, <1>14
    <3>. QED
      BY <1>4, <1>10, <2>1, <3>1, <3>2 DEF TailOf
  <2>2. CASE c # b /\ blockingReqTail[c] = NONE
    <3>1. \A u \in Slots : Live(u) => req[u].buf # c
      BY <2>2 DEF ChainInv, TailOf
    <3>2. \A u \in Slots : Live(u)' => req'[u].buf # c
      BY <1>4, <2>2, <3>1
    <3>. QED
      BY <1>11, <2>2, <3>2 DEF TailOf
  <2>3. CASE c # b /\ blockingReqTail[c] # NONE
    <3>1. PICK e : e = blockingReqTail[c]
      OBVIOUS
    <3>2. /\ e \in Slots /\ Live(e) /\ req[e].buf = c /\ nextBlockingReq[e] = NONE
          /\ \A u \in Slots : SameBuf(e, u) /\ u # e => Before(u, e)
      BY <1>5, <2>3, <3>1 DEF ChainInv, TailOf
    <3>3. e # s /\ e # t
      BY <1>4, <1>5, <1>8, <2>3, <3>2
    <3>4. Live(e)' /\ req'[e].buf = c /\ nextBlockingReq'[e] = NONE /\ blockingReqTail'[c] = e
      BY <1>4, <1>10, <1>11, <2>3, <3>1, <3>2, <3>3
    <3>5. ASSUME NEW u \in Slots, SameBuf(e, u)', u # e
          PROVE  Before(u, e)'
      <4>1. u # s
        BY <1>13, <2>3, <3>2, <3>3, <3>5
      <4>. QED
        BY <1>4, <1>12, <3>2, <3>3, <3>5, <4>1
    <3>. QED
      BY <2>3, <3>1, <3>4, <3>5 DEF TailOf
  <2>. QED
    BY <2>1, <2>2, <2>3
<1>21. \A x \in Slots : (queue'[x] = "bufDep" => prevBlockingReq'[x] # NONE) /\ (Running(x)' => prevBlockingReq'[x] = NONE)
  BY <1>4, <1>10, <1>15, <1>16 DEF ChainInv
<1>. QED
  BY <1>17, <1>18, <1>19, <1>20, <1>21 DEF ChainInv
-----------------------------------------------------------------------------
\* A request that ends leaves the others in order.
LEMMA FinishKeepsOrder ==
    ASSUME Base, OrderInv, NEW s, NEW dma0, NEW nand0, Finishes(s, dma0, nand0), UNCHANGED cpu
    PROVE  /\ OrderInv' /\ s \in Slots /\ Live(s) /\ ~Live(s)'
           /\ \A x, y : Before(x, y)' <=> Before(x, y) /\ x # s /\ y # s
           /\ \A x \in Slots \ {s} : req'[x] = req[x] /\ (Live(x)' <=> Live(x))
<1>1. /\ s \in Slots /\ Live(s) /\ Running(s) /\ ~Live(s)'
      /\ \A x \in Slots \ {s} : req'[x] = req[x]
  BY FinishTags
<1>2. order' = Without(order, s)
  BY DEF Finishes, ReleaseBlockedByBufDepReq
<1>3. order \in Seq(Slots) /\ Distinct(order)
  BY OrderTyped DEF OrderInv
<1>4. Distinct(order') /\ \A x : InList(order', x) <=> InList(order, x) /\ x # s
  BY <1>2, <1>3, UnlinkList DEF Without
<1>5. \A x, y : Before(x, y)' <=> Before(x, y) /\ x # s /\ y # s
  <2>1. ASSUME NEW x, NEW y
        PROVE  Precedes(Unlink(order, s), x, y) <=> Precedes(order, x, y) /\ x # s /\ y # s
    BY <1>3, UnlinkPrecedes
  <2>. QED
    BY <1>2, <2>1 DEF Before, Without
<1>6. \A x \in Slots \ {s} : Live(x)' <=> Live(x)
  BY <1>1 DEF Live
<1>7. \A x \in Slots : InList(order', x) <=> Live(x)'
  BY <1>1, <1>4, <1>6 DEF OrderInv
<1>8. selecting' = selecting /\ selecting # s
  <2>1. selecting # NONE => queue[selecting] = "cpu"
    BY DEF Base, TagsInv
  <2>2. s # NONE
    BY <1>1, GeometryAssumption
  <2>. QED
    BY <1>1, <2>1, <2>2 DEF Running, cpu
<1>9. selecting # NONE => \A u \in Slots : Live(u)' /\ u # selecting => Before(u, selecting)'
  BY <1>1, <1>5, <1>6, <1>8 DEF OrderInv
<1>10. OrderInv'
  <2>1. selecting' # NONE => \A u \in Slots : Live(u)' /\ u # selecting' => Precedes(order', u, selecting')
    BY <1>8, <1>9 DEF Before
  <2>. QED
    BY <1>4, <1>7, <2>1 DEF OrderInv, Before
<1>. QED
  BY <1>1, <1>5, <1>6, <1>10

\* The first of a chain ends, and the second becomes the first.
LEMMA FinishKeepsChains ==
    ASSUME Base, OrderInv, ChainInv, NEW s, NEW dma0, NEW nand0, Finishes(s, dma0, nand0), UNCHANGED cpu
    PROVE  ChainInv'
<1>1. PICK t : t = nextBlockingReq[s]
  OBVIOUS
<1>2. PICK b : b = req[s].buf
  OBVIOUS
<1>3. /\ nextBlockingReq' = [nextBlockingReq EXCEPT ![s] = NONE]
      /\ prevBlockingReq' = IF t = NONE THEN prevBlockingReq ELSE [prevBlockingReq EXCEPT ![t] = NONE]
      /\ blockingReqTail' = IF b # NONE /\ blockingReqTail[b] = s
                            THEN [blockingReqTail EXCEPT ![b] = NONE] ELSE blockingReqTail
  BY <1>1, <1>2 DEF Finishes, ReleaseBlockedByBufDepReq
<1>4. /\ s \in Slots /\ Live(s) /\ ~Live(s)'
      /\ \A x, y : Before(x, y)' <=> Before(x, y) /\ x # s /\ y # s
      /\ \A x \in Slots \ {s} : req'[x] = req[x] /\ (Live(x)' <=> Live(x))
  BY FinishKeepsOrder
<1>5. /\ order \in Seq(Slots) /\ NONE \notin Slots /\ NONE \notin AllBufs /\ queue \in [Slots -> Queues]
      /\ req \in [Slots -> Proper \cup {NoReq}]
      /\ prevBlockingReq \in [Slots -> Slots \cup {NONE}] /\ nextBlockingReq \in [Slots -> Slots \cup {NONE}]
      /\ blockingReqTail \in [AllBufs -> Slots \cup {NONE}]
  BY OrderTyped
<1>6. Running(s) /\ prevBlockingReq[s] = NONE
  BY <1>4, FinishTags DEF ChainInv
<1>7. b \in AllBufs \cup {NONE}
  BY <1>2, <1>4, LiveRequest DEF Base, Typed
<1>8. t # NONE => t \in Slots /\ t # s /\ SameBuf(s, t) /\ prevBlockingReq[t] = s /\ b # NONE /\ Live(t)
  <2>1. ASSUME t # NONE PROVE b # NONE
    BY <1>1, <1>2, <1>4, <2>1 DEF ChainInv, Unchained
  <2>2. ASSUME t # NONE PROVE SameBuf(s, t) /\ prevBlockingReq[t] = s
    BY <1>1, <1>2, <1>4, <2>1, <2>2 DEF ChainInv, ChainedOn
  <2>. QED
    BY <1>1, <1>4, <1>5, <1>6, <2>1, <2>2 DEF SameBuf
<1>9. b # NONE => \A u \in Slots : SameBuf(s, u) /\ u # s => Before(s, u)
  BY <1>2, <1>4, <1>6 DEF ChainInv, ChainedBack
<1>10. /\ nextBlockingReq'[s] = NONE
       /\ \A x \in Slots : x # s => nextBlockingReq'[x] = nextBlockingReq[x]
       /\ \A x \in Slots : x # t => prevBlockingReq'[x] = prevBlockingReq[x]
       /\ t # NONE => prevBlockingReq'[t] = NONE
  BY <1>3, <1>4, <1>5, <1>8
<1>11. /\ \A c \in AllBufs : c # b \/ blockingReqTail[c] # s => blockingReqTail'[c] = blockingReqTail[c]
       /\ b # NONE /\ blockingReqTail[b] = s => blockingReqTail'[b] = NONE
  BY <1>3, <1>5, <1>7
<1>12. \A x, y \in Slots : SameBuf(x, y)' <=> SameBuf(x, y) /\ x # s /\ y # s
  BY <1>4 DEF SameBuf
<1>13. \A x, y : ~(Before(x, y) /\ Before(y, x))
  <2>1. ASSUME NEW x, NEW y PROVE ~(Before(x, y) /\ Before(y, x))
    BY <1>5, PrecedesOrder DEF OrderInv, Before
  <2>. QED
    BY <2>1
<1>14. ASSUME NEW x \in Slots, ~Live(x)' \/ req'[x].buf = NONE
       PROVE  Unchained(x)'
  <2>1. CASE x = s
    <3>1. t # s
      BY <1>4, <1>5, <1>8
    <3>. QED
      BY <1>6, <1>10, <2>1, <3>1 DEF Unchained
  <2>2. CASE x # s
    <3>1. Unchained(x) /\ (~Live(x) \/ req[x].buf = NONE)
      BY <1>4, <1>14, <2>2 DEF ChainInv
    <3>2. x # t
      BY <1>5, <1>8, <3>1 DEF SameBuf
    <3>. QED
      BY <1>10, <2>2, <3>1, <3>2 DEF Unchained
  <2>. QED
    BY <2>1, <2>2
<1>15. ASSUME NEW x \in Slots, Live(x)', req'[x].buf # NONE
       PROVE  ChainedBack(x)'
  <2>0. x # s /\ ChainedBack(x) /\ Live(x) /\ req[x].buf # NONE
    <3>1. x # s
      BY <1>4, <1>15
    <3>. QED
      BY <1>4, <1>15, <3>1 DEF ChainInv
  <2>1. CASE x = t
    <3>1. /\ prevBlockingReq[x] = s /\ t # NONE
          /\ \A u \in Slots : SameBuf(x, u) /\ u # x /\ u # s => Before(u, s) \/ Before(x, u)
      BY <1>5, <1>8, <2>0, <2>1 DEF ChainedBack
    <3>2. ASSUME NEW u \in Slots, SameBuf(x, u)', u # x
          PROVE  Before(x, u)'
      <4>1. SameBuf(x, u) /\ u # s
        BY <1>12, <3>2
      <4>2. SameBuf(s, u) /\ b # NONE
        BY <1>8, <2>1, <3>1, <4>1 DEF SameBuf
      <4>3. Before(s, u)
        BY <1>9, <4>1, <4>2
      <4>4. Before(x, u)
        BY <1>13, <3>1, <3>2, <4>1, <4>3
      <4>. QED
        BY <1>4, <2>0, <4>1, <4>4
    <3>. QED
      BY <1>10, <2>1, <3>1, <3>2 DEF ChainedBack
  <2>2. CASE x # t /\ prevBlockingReq[x] = NONE
    <3>1. \A u \in Slots : SameBuf(x, u)' /\ u # x => Before(x, u)'
      BY <1>4, <1>12, <2>0, <2>2 DEF ChainedBack
    <3>. QED
      BY <1>10, <2>2, <3>1 DEF ChainedBack
  <2>3. CASE x # t /\ prevBlockingReq[x] # NONE
    <3>1. PICK p : p = prevBlockingReq[x]
      OBVIOUS
    <3>2. /\ p \in Slots /\ SameBuf(x, p) /\ Before(p, x) /\ nextBlockingReq[p] = x
          /\ \A u \in Slots : SameBuf(x, u) /\ u # x /\ u # p => Before(u, p) \/ Before(x, u)
      BY <1>5, <2>0, <2>3, <3>1 DEF ChainedBack
    <3>3. p # s
      BY <1>1, <2>3, <3>2
    <3>4. SameBuf(x, p)' /\ Before(p, x)' /\ nextBlockingReq'[p] = x
      BY <1>4, <1>10, <1>12, <2>0, <3>2, <3>3
    <3>5. \A u \in Slots : SameBuf(x, u)' /\ u # x /\ u # p => Before(u, p)' \/ Before(x, u)'
      BY <1>4, <1>12, <2>0, <3>2, <3>3
    <3>. QED
      BY <1>10, <2>3, <3>1, <3>4, <3>5 DEF ChainedBack
  <2>. QED
    BY <2>1, <2>2, <2>3
<1>16. ASSUME NEW x \in Slots, Live(x)', req'[x].buf # NONE
       PROVE  ChainedOn(x)'
  <2>0. x # s /\ ChainedOn(x) /\ Live(x) /\ req[x].buf # NONE /\ req'[x].buf = req[x].buf
    <3>1. x # s
      BY <1>4, <1>16
    <3>. QED
      BY <1>4, <1>16, <3>1 DEF ChainInv
  <2>1. nextBlockingReq'[x] = nextBlockingReq[x] /\ req[x].buf \in AllBufs
    BY <1>10, <2>0, LiveRequest DEF Base, Typed
  <2>2. CASE nextBlockingReq[x] = NONE
    <3>1. blockingReqTail[req[x].buf] = x
      BY <2>0, <2>2 DEF ChainedOn
    <3>2. blockingReqTail'[req[x].buf] = x
      BY <1>11, <2>0, <2>1, <3>1
    <3>. QED
      BY <2>0, <2>1, <2>2, <3>2 DEF ChainedOn
  <2>3. CASE nextBlockingReq[x] # NONE
    <3>1. PICK n : n = nextBlockingReq[x]
      OBVIOUS
    <3>2. n \in Slots /\ SameBuf(x, n) /\ prevBlockingReq[n] = x
      BY <1>5, <2>0, <2>3, <3>1 DEF ChainedOn
    <3>3. n # s /\ n # t
      BY <1>5, <1>6, <1>8, <2>0, <3>2
    <3>4. SameBuf(x, n)' /\ prevBlockingReq'[n] = x
      BY <1>10, <1>12, <2>0, <3>2, <3>3
    <3>. QED
      BY <2>1, <2>3, <3>1, <3>4 DEF ChainedOn
  <2>. QED
    BY <2>2, <2>3
<1>17. ASSUME NEW c \in AllBufs
       PROVE  TailOf(c)'
  <2>1. CASE blockingReqTail[c] = s
    <3>1. /\ req[s].buf = c /\ \A u \in Slots : SameBuf(s, u) /\ u # s => Before(u, s)
      BY <1>4, <1>5, <2>1 DEF ChainInv, TailOf
    <3>2. c = b /\ b # NONE /\ blockingReqTail'[c] = NONE
      BY <1>2, <1>5, <1>11, <2>1, <3>1
    <3>3. ASSUME NEW u \in Slots, Live(u)', req'[u].buf = c
          PROVE  FALSE
      <4>1. u # s /\ Live(u) /\ req[u].buf = c
        BY <1>4, <3>3
      <4>2. SameBuf(s, u)
        BY <1>2, <1>4, <3>2, <4>1 DEF SameBuf
      <4>. QED
        BY <1>9, <1>13, <3>1, <3>2, <4>1, <4>2
    <3>. QED
      BY <3>2, <3>3 DEF TailOf
  <2>2. CASE blockingReqTail[c] = NONE
    <3>1. \A u \in Slots : Live(u) => req[u].buf # c
      BY <2>2 DEF ChainInv, TailOf
    <3>2. \A u \in Slots : Live(u)' => req'[u].buf # c
      BY <1>4, <3>1
    <3>3. blockingReqTail'[c] = NONE
      BY <1>4, <1>5, <1>11, <2>2
    <3>. QED
      BY <3>2, <3>3 DEF TailOf
  <2>3. CASE blockingReqTail[c] # s /\ blockingReqTail[c] # NONE
    <3>1. PICK e : e = blockingReqTail[c]
      OBVIOUS
    <3>2. /\ e \in Slots /\ Live(e) /\ req[e].buf = c /\ nextBlockingReq[e] = NONE
          /\ \A u \in Slots : SameBuf(e, u) /\ u # e => Before(u, e)
      BY <1>5, <2>3, <3>1 DEF ChainInv, TailOf
    <3>3. Live(e)' /\ req'[e].buf = c /\ nextBlockingReq'[e] = NONE /\ blockingReqTail'[c] = e
      BY <1>4, <1>10, <1>11, <2>3, <3>1, <3>2
    <3>4. \A u \in Slots : SameBuf(e, u)' /\ u # e => Before(u, e)'
      BY <1>4, <1>12, <3>2
    <3>. QED
      BY <2>3, <3>1, <3>3, <3>4 DEF TailOf
  <2>. QED
    BY <2>1, <2>2, <2>3
<1>18. ASSUME NEW x \in Slots
       PROVE  (queue'[x] = "bufDep" => prevBlockingReq'[x] # NONE) /\ (Running(x)' => prevBlockingReq'[x] = NONE)
  <2>1. PICK q : q = ReleasedTo(t)
    OBVIOUS
  <2>2. /\ queue'[s] = "free"
        /\ \A y \in Slots : y # s /\ ~(Released(s) /\ y = t) => queue'[y] = queue[y]
        /\ Released(s) => queue'[t] = q
    BY <1>1, <2>1, FinishTags
  <2>3. Released(s) => t \in Slots /\ q \in {"dma", "nand", "rowDep"}
    BY <1>1, <2>1, FinishIs DEF Base, Typed
  <2>4. CASE x = s
    BY <2>2, <2>4 DEF Running
  <2>5. CASE x # s /\ Released(s) /\ x = t
    BY <1>5, <1>10, <2>2, <2>3, <2>5
  <2>6. CASE x # s /\ ~(Released(s) /\ x = t)
    <3>1. queue'[x] = queue[x]
      BY <2>2, <2>6
    <3>2. (queue[x] = "bufDep" => prevBlockingReq[x] # NONE) /\ (Running(x) => prevBlockingReq[x] = NONE)
      BY DEF ChainInv
    <3>3. CASE x = t
      <4>1. queue[x] # "bufDep" /\ prevBlockingReq'[x] = NONE
        BY <1>1, <1>5, <1>10, <2>6, <3>3 DEF Released
      <4>. QED
        BY <3>1, <4>1
    <3>4. CASE x # t
      BY <1>10, <3>1, <3>2, <3>4 DEF Running
    <3>. QED
      BY <3>3, <3>4
  <2>. QED
    BY <2>4, <2>5, <2>6
<1>. QED
  BY <1>14, <1>15, <1>16, <1>17, <1>18 DEF ChainInv

\* A step that creates and ends no request leaves the chains.
LEMMA SameChains ==
    ASSUME Base, OrderInv, ChainInv, UNCHANGED <<req, chains, order>>, selecting' \in {selecting, NONE},
           \A x \in Slots : queue'[x] = "bufDep" => prevBlockingReq[x] # NONE,
           \A x \in Slots : Running(x)' => prevBlockingReq[x] = NONE
    PROVE  OrderInv' /\ ChainInv'
<1>1. UNCHANGED <<prevBlockingReq, nextBlockingReq, blockingReqTail>>
  BY DEF chains
<1>2. OrderInv'
  BY DEF OrderInv, Live, Before
<1>3. \A x \in Slots : ~Live(x)' \/ req'[x].buf = NONE => Unchained(x)'
  BY <1>1 DEF ChainInv, Live, Unchained
<1>4. \A x \in Slots : Live(x)' /\ req'[x].buf # NONE => ChainedBack(x)' /\ ChainedOn(x)'
  BY <1>1 DEF ChainInv, Live, ChainedBack, ChainedOn, SameBuf, Before
<1>5. \A c \in AllBufs : TailOf(c)'
  BY <1>1 DEF ChainInv, Live, TailOf, SameBuf, Before
<1>6. \A x \in Slots : (queue'[x] = "bufDep" => prevBlockingReq'[x] # NONE) /\ (Running(x)' => prevBlockingReq'[x] = NONE)
  BY <1>1
<1>. QED
  BY <1>2, <1>3, <1>4, <1>5, <1>6 DEF ChainInv

\* So every step keeps the chains.
LEMMA StepChains ==
    ASSUME Base, OrderInv, ChainInv, [Next]_vars
    PROVE  OrderInv' /\ ChainInv'
<1>1. StepKind /\ queue \in [Slots -> Queues]
  BY StepIs DEF Base, Typed, TypedRequests
<1>2. CASE Quiet
  <2>1. UNCHANGED <<req, chains, order, selecting>>
    BY <1>2 DEF Quiet
  <2>2. \A x \in Slots : queue'[x] = "bufDep" => prevBlockingReq[x] # NONE
    BY <1>2 DEF Quiet, ChainInv
  <2>3. \A x \in Slots : Running(x)' => prevBlockingReq[x] = NONE
    BY <1>2 DEF Quiet, ChainInv, Running
  <2>. QED
    BY <2>1, <2>2, <2>3, SameChains
<1>3. CASE \E s \in Slots : Creates(s)
  <2>1. PICK s \in Slots : Creates(s)
    BY <1>3
  <2>. QED
    BY <2>1, CreateKeepsOrder, CreateKeepsChains, Zenon
<1>4. CASE \E q : Selects(selecting, q)
  <2>1. PICK s, q : s = selecting /\ Selects(s, q)
    BY <1>4
  <2>2. s \in Slots /\ Selected(q, rowDep') /\ (q = "bufDep" <=> prevBlockingReq[s] # NONE)
    BY <2>1 DEF Selects
  <2>3. queue' = [queue EXCEPT ![s] = q] /\ selecting' = NONE /\ UNCHANGED <<req, chains, order>>
    BY <2>1, <2>2 DEF Selected
  <2>4. queue'[s] = q /\ \A y \in Slots \ {s} : queue'[y] = queue[y]
    BY <1>1, <2>2, <2>3
  <2>5. \A x \in Slots : queue'[x] = "bufDep" => prevBlockingReq[x] # NONE
    BY <2>2, <2>4 DEF ChainInv
  <2>6. \A x \in Slots : Running(x)' => prevBlockingReq[x] = NONE
    BY <2>2, <2>4 DEF ChainInv, Running
  <2>. QED
    BY <2>3, <2>5, <2>6, SameChains
<1>5. CASE \E s \in Slots : RowReleases(s)
  <2>1. PICK s \in Slots : RowReleases(s)
    BY <1>5
  <2>2. /\ queue[s] = "rowDep" /\ queue' = [queue EXCEPT ![s] = "nand"] /\ UNCHANGED <<req, chains, order, cpu>>
    BY <2>1 DEF RowReleases
  <2>3. queue'[s] = "nand" /\ (\A y \in Slots \ {s} : queue'[y] = queue[y]) /\ selecting' = selecting
    BY <1>1, <2>2 DEF cpu
  <2>4. \A x \in Slots : queue'[x] = "bufDep" => prevBlockingReq[x] # NONE
    BY <2>3 DEF ChainInv
  <2>5. \A x \in Slots : Running(x)' => prevBlockingReq[x] = NONE
    BY <2>2, <2>3 DEF ChainInv, Running
  <2>. QED
    BY <2>2, <2>3, <2>4, <2>5, SameChains
<1>6. CASE \E s \in Slots : DmaEnds(s) \/ NandEnds(s)
  <2>1. PICK s \in Slots : DmaEnds(s) \/ NandEnds(s)
    BY <1>6
  <2>2. PICK dma0, nand0 : Finishes(s, dma0, nand0)
    BY <2>1 DEF DmaEnds, NandEnds
  <2>3. UNCHANGED cpu
    BY <2>1 DEF DmaEnds, NandEnds
  <2>. QED
    BY <2>2, <2>3, FinishKeepsOrder, FinishKeepsChains, Zenon
<1>. QED
  BY <1>1, <1>2, <1>3, <1>4, <1>5, <1>6, Zenon DEF StepKind

\* Two requests that left the chain of one buffer would both be its first.
LEMMA ChainsExclude ==
    ASSUME Base, OrderInv, ChainInv
    PROVE  BufferExclusive
<1> SUFFICES ASSUME NEW s \in Slots, NEW t \in Slots, s # t, Running(s), Running(t),
                    req[s].buf # NONE, req[s].buf = req[t].buf
             PROVE  FALSE
  BY DEF BufferExclusive
<1>1. Live(s) /\ Live(t) /\ prevBlockingReq[s] = NONE /\ prevBlockingReq[t] = NONE
  BY DEF Base, TagsInv, ChainInv
<1>2. SameBuf(s, t) /\ SameBuf(t, s)
  BY <1>1 DEF SameBuf
<1>3. Before(s, t) /\ Before(t, s)
  BY <1>1, <1>2 DEF ChainInv, ChainedBack
<1>. QED
  BY <1>3, OrderTyped, PrecedesOrder DEF Before, OrderInv
-----------------------------------------------------------------------------
(* Programs and erases of a block take turns with its pages.                *)

\* Request r programs a page of block b or erases the block.
ModOn(r, d, b) == r.code \in ModCodes /\ r.die = d /\ r.block = b

\* Carried out in this order, the requests l take block b of die d from p
\* programmed pages to q, each finding the pages it counts on.
Turns(l, d, b, p, q) ==
    \E f \in [0 .. Len(l) -> Int] :
        /\ f[0] = p /\ f[Len(l)] = q
        /\ \A i \in 1 .. Len(l) :
              IF ModOn(l[i], d, b) THEN l[i].page = f[i - 1] /\ f[i] = After(l[i]) ELSE f[i] = f[i - 1]

\* The next page of the block after request r.
NextPage(r, d, b, p) == IF ModOn(r, d, b) THEN After(r) ELSE p

\* Nothing to do leaves the block as it is.
LEMMA TurnsEmpty ==
    ASSUME NEW l, Len(l) = 0, NEW d, NEW b, NEW p \in Int
    PROVE  Turns(l, d, b, p, p)
<1> DEFINE f == [i \in 0 .. Len(l) |-> p]
<1>1. f \in [0 .. Len(l) -> Int] /\ f[0] = p /\ f[Len(l)] = p
  OBVIOUS
<1>2. \A i \in 1 .. Len(l) : FALSE
  OBVIOUS
<1> HIDE DEF f
<1>. QED
  BY <1>1, <1>2 DEF Turns

\* The numbers of pages are numbers.
LEMMA TurnsTyped ==
    ASSUME NEW l, Len(l) \in Nat, NEW d, NEW b, NEW p, NEW q, Turns(l, d, b, p, q)
    PROVE  p \in Int /\ q \in Int /\ (Len(l) = 0 => p = q)
<1>1. PICK f \in [0 .. Len(l) -> Int] : f[0] = p /\ f[Len(l)] = q
  BY DEF Turns
<1>2. 0 \in 0 .. Len(l) /\ Len(l) \in 0 .. Len(l)
  OBVIOUS
<1>. QED
  BY <1>1, <1>2

\* One more request goes on from where the list ends,
LEMMA TurnsAppend ==
    ASSUME NEW l, NEW m, Len(l) \in Nat, Len(m) = Len(l) + 1, \A i \in 1 .. Len(l) : m[i] = l[i],
           NEW d, NEW b, NEW p, NEW q, NEW r, m[Len(l) + 1] = r,
           ModOn(r, d, b) => r.page = q /\ After(r) \in Int,
           Turns(l, d, b, p, q)
    PROVE  Turns(m, d, b, p, NextPage(r, d, b, q))
<1>1. PICK f \in [0 .. Len(l) -> Int] :
        /\ f[0] = p /\ f[Len(l)] = q
        /\ \A i \in 1 .. Len(l) :
              IF ModOn(l[i], d, b) THEN l[i].page = f[i - 1] /\ f[i] = After(l[i]) ELSE f[i] = f[i - 1]
  BY DEF Turns
<1>2. q \in Int
  BY TurnsTyped
<1>3. PICK x : x = NextPage(r, d, b, q)
  OBVIOUS
<1>4. x \in Int
  BY <1>2, <1>3 DEF NextPage
<1> DEFINE g == [i \in 0 .. Len(m) |-> IF i <= Len(l) THEN f[i] ELSE x]
<1>5. g \in [0 .. Len(m) -> Int]
  BY <1>4
<1>6. (\A i \in 0 .. Len(l) : g[i] = f[i]) /\ g[Len(m)] = x
  OBVIOUS
<1> HIDE DEF g
<1>7. g[0] = p /\ g[Len(m)] = x
  BY <1>1, <1>6
<1>8. ASSUME NEW i \in 1 .. Len(m)
      PROVE  IF ModOn(m[i], d, b) THEN m[i].page = g[i - 1] /\ g[i] = After(m[i]) ELSE g[i] = g[i - 1]
  <2>1. CASE i <= Len(l)
    <3>1. i \in 1 .. Len(l) /\ i - 1 \in 0 .. Len(l) /\ i \in 0 .. Len(l)
      BY <2>1
    <3>2. m[i] = l[i] /\ g[i - 1] = f[i - 1] /\ g[i] = f[i]
      BY <1>6, <3>1
    <3>. QED
      BY <1>1, <3>1, <3>2
  <2>2. CASE ~(i <= Len(l))
    <3>1. i = Len(l) + 1 /\ i - 1 = Len(l) /\ i = Len(m) /\ Len(l) \in 0 .. Len(l)
      BY <2>2
    <3>2. m[i] = r /\ g[i - 1] = q /\ g[i] = x
      BY <1>1, <1>6, <3>1
    <3>. QED
      BY <1>3, <3>2 DEF NextPage
  <2>. QED
    BY <2>1, <2>2
<1>9. Turns(m, d, b, p, x)
  BY <1>5, <1>7, <1>8 DEF Turns
<1>. QED
  BY <1>3, <1>9

\* and the rest of a list from where its head ends, if the head found its page.
LEMMA TurnsTail ==
    ASSUME NEW l, NEW m, Len(l) \in Nat, Len(l) > 0, Len(m) = Len(l) - 1, \A i \in 1 .. Len(l) - 1 : m[i] = l[i + 1],
           NEW d, NEW b, NEW p, NEW q, Turns(l, d, b, p, q)
    PROVE  /\ Turns(m, d, b, NextPage(l[1], d, b, p), q)
           /\ ModOn(l[1], d, b) => l[1].page = p
<1>1. PICK f \in [0 .. Len(l) -> Int] :
        /\ f[0] = p /\ f[Len(l)] = q
        /\ \A i \in 1 .. Len(l) :
              IF ModOn(l[i], d, b) THEN l[i].page = f[i - 1] /\ f[i] = After(l[i]) ELSE f[i] = f[i - 1]
  BY DEF Turns
<1>2. 1 \in 1 .. Len(l) /\ 1 - 1 = 0
  OBVIOUS
<1>3. f[1] = NextPage(l[1], d, b, p) /\ (ModOn(l[1], d, b) => l[1].page = p)
  BY <1>1, <1>2 DEF NextPage
<1> DEFINE g == [i \in 0 .. Len(m) |-> f[i + 1]]
<1>4. g \in [0 .. Len(m) -> Int]
  <2>1. \A i \in 0 .. Len(m) : i + 1 \in 0 .. Len(l)
    OBVIOUS
  <2>. QED
    BY <1>1, <2>1
<1>5. (\A i \in 0 .. Len(m) : g[i] = f[i + 1]) /\ 0 \in 0 .. Len(m) /\ Len(m) \in 0 .. Len(m) /\ Len(m) + 1 = Len(l)
  OBVIOUS
<1> HIDE DEF g
<1>6. g[0] = f[1] /\ g[Len(m)] = q
  BY <1>1, <1>5
<1>7. ASSUME NEW i \in 1 .. Len(m)
      PROVE  IF ModOn(m[i], d, b) THEN m[i].page = g[i - 1] /\ g[i] = After(m[i]) ELSE g[i] = g[i - 1]
  <2>1. /\ i + 1 \in 1 .. Len(l) /\ i \in 1 .. Len(l) - 1 /\ i \in 0 .. Len(m) /\ i - 1 \in 0 .. Len(m)
        /\ (i + 1) - 1 = i /\ (i - 1) + 1 = i
    OBVIOUS
  <2>2. m[i] = l[i + 1] /\ g[i] = f[i + 1] /\ g[i - 1] = f[i]
    BY <1>5, <2>1
  <2>. QED
    BY <1>1, <2>1, <2>2
<1>8. Turns(m, d, b, f[1], q)
  BY <1>4, <1>6, <1>7 DEF Turns
<1>. QED
  BY <1>3, <1>8

\* The requests of a list.
Reqs(r, l) == [i \in 1 .. Len(l) |-> r[l[i]]]

\* These are requests, as many as entries,
LEMMA ReqsIs ==
    ASSUME NEW l \in Seq(Slots), NEW r
    PROVE  /\ Len(l) \in Nat /\ Len(Reqs(r, l)) = Len(l) /\ Reqs(r, l) \in Seq({r[x] : x \in Slots})
           /\ \A i \in 1 .. Len(l) : Reqs(r, l)[i] = r[l[i]] /\ l[i] \in Slots /\ InList(l, l[i])
<1>1. Len(l) \in Nat /\ \A i \in 1 .. Len(l) : l[i] \in Slots
  BY LenProperties, ElementOfSeq
<1>2. Reqs(r, l) \in Seq({r[x] : x \in Slots}) /\ Len(Reqs(r, l)) = Len(l)
  BY <1>1, IsASeq DEF Reqs
<1>3. \A i \in 1 .. Len(l) : Reqs(r, l)[i] = r[l[i]]
  BY DEF Reqs
<1>4. \A i \in 1 .. Len(l) : InList(l, l[i])
  BY DEF InList
<1>. QED
  BY <1>1, <1>2, <1>3, <1>4

\* and the same as long as the entries are left alone.
LEMMA ReqsSame ==
    ASSUME NEW l \in Seq(Slots), NEW r, NEW rr, \A x \in Slots : InList(l, x) => rr[x] = r[x]
    PROVE  Reqs(rr, l) = Reqs(r, l)
<1>1. \A i \in 1 .. Len(l) : rr[l[i]] = r[l[i]]
  BY ReqsIs
<1>. QED
  BY <1>1 DEF Reqs

\* What is queued at each die takes each block from the pages the flash has
\* programmed to the page the table permits.
RowInv ==
    \A d \in Dies, b \in Blocks :
        Turns(Reqs(req, nandReqQ[d]), d, b, programmed[d][b], rowDep[d][b].permittedProgPage)

\* CheckRowAddrDep lets a request pass that continues what is queued at its die.
LEMMA RowAppend ==
    ASSUME TypedRequests, NEW s \in Slots, Live(s), NEW q,
           NEW nand0 \in [Dies -> Seq(Slots)],
           nandReqQ' = IF q = "nand" THEN [nand0 EXCEPT ![req[s].die] = Append(@, s)] ELSE nand0,
           NEW P, NEW d \in Dies, NEW b \in Blocks,
           q = "nand" /\ IsMod(s) => req[s].page = Row(s).permittedProgPage,
           rowDep'[d][b].permittedProgPage =
                IF q = "nand" /\ IsMod(s) /\ OnRow(s, d, b) THEN After(req[s]) ELSE rowDep[d][b].permittedProgPage,
           Turns(Reqs(req, nand0[d]), d, b, P, rowDep[d][b].permittedProgPage)
    PROVE  Turns(Reqs(req, nandReqQ'[d]), d, b, P, rowDep'[d][b].permittedProgPage)
<1>1. rowDep'[d][b].permittedProgPage =
                IF q = "nand" /\ IsMod(s) /\ OnRow(s, d, b) THEN After(req[s]) ELSE rowDep[d][b].permittedProgPage
  OBVIOUS
<1>2. CASE ~(q = "nand" /\ req[s].die = d)
  <2>1. nandReqQ'[d] = nand0[d]
    BY <1>2
  <2>2. rowDep'[d][b].permittedProgPage = rowDep[d][b].permittedProgPage
    BY <1>1, <1>2 DEF OnRow
  <2>. QED
    BY <2>1, <2>2
<1>3. CASE q = "nand" /\ req[s].die = d
  <2>1. nandReqQ'[d] = Append(nand0[d], s) /\ nand0[d] \in Seq(Slots)
    BY <1>3
  <2>2. PICK l, m : l = Reqs(req, nand0[d]) /\ m = Reqs(req, nandReqQ'[d])
    OBVIOUS
  <2>3. /\ nandReqQ'[d] \in Seq(Slots) /\ Len(nandReqQ'[d]) = Len(nand0[d]) + 1
        /\ \A i \in 1 .. Len(nand0[d]) : nandReqQ'[d][i] = nand0[d][i]
        /\ nandReqQ'[d][Len(nand0[d]) + 1] = s
    BY <2>1, AppendProperties
  <2>4. /\ Len(nand0[d]) \in Nat /\ Len(l) = Len(nand0[d]) /\ Len(m) = Len(nandReqQ'[d])
        /\ \A i \in 1 .. Len(nand0[d]) : l[i] = req[nand0[d][i]]
        /\ \A i \in 1 .. Len(nandReqQ'[d]) : m[i] = req[nandReqQ'[d][i]]
    <3>1. /\ Len(nand0[d]) \in Nat /\ Len(Reqs(req, nand0[d])) = Len(nand0[d])
          /\ \A i \in 1 .. Len(nand0[d]) : Reqs(req, nand0[d])[i] = req[nand0[d][i]]
      BY <2>1, ReqsIs
    <3>2. PICK n : n = nandReqQ'[d]
      OBVIOUS
    <3>3. n \in Seq(Slots)
      BY <2>3, <3>2
    <3>4. /\ Len(Reqs(req, n)) = Len(n)
          /\ \A i \in 1 .. Len(n) : Reqs(req, n)[i] = req[n[i]]
      BY <3>3, ReqsIs
    <3>5. m = Reqs(req, n)
      BY <2>2, <3>2
    <3>6. Len(l) = Len(nand0[d]) /\ \A i \in 1 .. Len(nand0[d]) : l[i] = req[nand0[d][i]]
      BY <2>2, <3>1, Zenon
    <3>7. Len(m) = Len(n) /\ \A i \in 1 .. Len(n) : m[i] = req[n[i]]
      BY <3>4, <3>5, Zenon
    <3>8. Len(m) = Len(nandReqQ'[d]) /\ \A i \in 1 .. Len(nandReqQ'[d]) : m[i] = req[nandReqQ'[d][i]]
      BY <3>2, <3>7, Zenon
    <3>. QED
      BY <3>1, <3>6, <3>8, Zenon
  <2>5. Len(m) = Len(l) + 1 /\ (\A i \in 1 .. Len(l) : m[i] = l[i]) /\ m[Len(l) + 1] = req[s]
    <3>1. \A i \in 1 .. Len(l) : i \in 1 .. Len(nandReqQ'[d])
      BY <2>3, <2>4
    <3>2. Len(l) + 1 \in 1 .. Len(nandReqQ'[d])
      BY <2>3, <2>4
    <3>. QED
      BY <2>3, <2>4, <3>1, <3>2
  <2>6. ModOn(req[s], d, b) <=> IsMod(s) /\ OnRow(s, d, b)
    BY DEF ModOn, IsMod, OnRow
  <2>7. ModOn(req[s], d, b) => Row(s) = rowDep[d][b]
    BY DEF ModOn, Row
  <2>8. ModOn(req[s], d, b) => req[s].page = rowDep[d][b].permittedProgPage
    BY <1>3, <2>6, <2>7
  <2>9. ModOn(req[s], d, b) => After(req[s]) \in Int
    <3>1. PAGES \in Nat
      BY GeometryAssumption
    <3>2. req[s].code = "write" => req[s].page \in Pages
      BY LiveRequest
    <3>3. req[s].code = "write" => req[s].page + 1 \in Int
      BY <3>1, <3>2 DEF Pages
    <3>. QED
      BY <3>3 DEF After, ModOn, ModCodes
  <2>10. Turns(m, d, b, P, NextPage(req[s], d, b, rowDep[d][b].permittedProgPage))
    BY <2>2, <2>4, <2>5, <2>8, <2>9, TurnsAppend
  <2>11. NextPage(req[s], d, b, rowDep[d][b].permittedProgPage) = rowDep'[d][b].permittedProgPage
    BY <1>1, <1>3, <2>6, Zenon DEF NextPage
  <2>. QED
    BY <2>2, <2>10, <2>11
<1>. QED
  BY <1>2, <1>3

\* A request that is taken off the head of a die's list is what the flash does next.
LEMMA RowTail ==
    ASSUME Base, RowInv, NEW s, NandEnds(s), NEW d \in Dies, NEW b \in Blocks,
           NEW l, l = IF d = req[s].die THEN Tail(nandReqQ[d]) ELSE nandReqQ[d]
    PROVE  Turns(Reqs(req, l), d, b, programmed'[d][b], rowDep[d][b].permittedProgPage)
<1>1. /\ s \in Slots /\ queue[s] = "nand" /\ nandReqQ[req[s].die] # <<>> /\ s = Head(nandReqQ[req[s].die])
      /\ Programs(s)
  BY DEF NandEnds, Finishes
<1>2. /\ nandReqQ[d] \in Seq(Slots) /\ programmed \in [Dies -> [Blocks -> 0 .. PAGES]]
      /\ Turns(Reqs(req, nandReqQ[d]), d, b, programmed[d][b], rowDep[d][b].permittedProgPage)
  BY DEF Base, Typed, TypedRequests, TypedFlash, RowInv
<1>3. req[s].code \in NandCodes
  BY <1>1 DEF Base, TagsInv
<1>4. programmed'[d][b] = NextPage(req[s], d, b, programmed[d][b])
  <2>1. req[s].die \in Dies /\ req[s].block \in Blocks
    BY <1>1, <1>3, LiveRequest DEF Base, Typed, Live, NandCodes
  <2>2. CASE req[s].code = "read"
    BY <1>1, <2>2 DEF Programs, NextPage, ModOn, ModCodes
  <2>3. CASE req[s].code = "write"
    <3>1. programmed' = [programmed EXCEPT ![req[s].die][req[s].block] = req[s].page + 1]
      BY <1>1, <2>3 DEF Programs
    <3>2. After(req[s]) = req[s].page + 1
      BY <2>3 DEF After
    <3>3. ModOn(req[s], d, b) <=> req[s].die = d /\ req[s].block = b
      BY <2>3 DEF ModOn, ModCodes
    <3>. QED
      BY <1>2, <2>1, <3>1, <3>2, <3>3 DEF NextPage
  <2>4. CASE req[s].code = "erase"
    <3>1. programmed' = [programmed EXCEPT ![req[s].die][req[s].block] = 0]
      BY <1>1, <2>4 DEF Programs
    <3>2. After(req[s]) = 0
      BY <2>4 DEF After
    <3>3. ModOn(req[s], d, b) <=> req[s].die = d /\ req[s].block = b
      BY <2>4 DEF ModOn, ModCodes
    <3>. QED
      BY <1>2, <2>1, <3>1, <3>2, <3>3 DEF NextPage
  <2>. QED
    BY <1>3, <2>2, <2>3, <2>4 DEF NandCodes
<1>5. CASE d # req[s].die
  <2>1. programmed'[d][b] = programmed[d][b]
    BY <1>4, <1>5 DEF NextPage, ModOn
  <2>. QED
    BY <1>2, <1>5, <2>1
<1>6. CASE d = req[s].die
  <2>1. PICK n, k, m : n = nandReqQ[d] /\ k = Reqs(req, n) /\ m = Reqs(req, l)
    OBVIOUS
  <2>2. n \in Seq(Slots) /\ n # <<>> /\ s = n[1] /\ l = Tail(n)
    BY <1>1, <1>2, <1>6, <2>1
  <2>3. /\ l \in Seq(Slots) /\ Len(n) \in Nat /\ Len(n) > 0 /\ Len(l) = Len(n) - 1
        /\ \A i \in 1 .. Len(n) - 1 : l[i] = n[i + 1]
    <3>1. Len(n) \in Nat /\ Len(n) # 0
      BY <2>2, EmptySeq, LenProperties
    <3>. QED
      <4>1. /\ Tail(n) \in Seq(Slots) /\ Len(Tail(n)) = Len(n) - 1
            /\ \A i \in 1 .. Len(Tail(n)) : Tail(n)[i] = n[i + 1]
        BY <2>2, HeadTailProperties
      <4>2. /\ l \in Seq(Slots) /\ Len(l) = Len(n) - 1
            /\ \A i \in 1 .. Len(l) : l[i] = n[i + 1]
        BY <2>2, <4>1, Zenon
      <4>3. Len(n) > 0
        BY <3>1
      <4>4. Len(n) - 1 = Len(l)
        BY <4>2
      <4>. QED
        BY <3>1, <4>2, <4>3, <4>4, Zenon
  <2>4. Len(k) = Len(n) /\ \A i \in 1 .. Len(n) : k[i] = req[n[i]]
    BY <2>1, <2>2, ReqsIs, Zenon
  <2>5. Len(m) = Len(l) /\ \A i \in 1 .. Len(l) : m[i] = req[l[i]]
    BY <2>1, <2>3, ReqsIs, Zenon
  <2>6. Len(k) \in Nat /\ Len(k) > 0 /\ Len(m) = Len(k) - 1 /\ \A i \in 1 .. Len(k) - 1 : m[i] = k[i + 1]
    <3>1. \A i \in 1 .. Len(k) - 1 : i \in 1 .. Len(l) /\ i + 1 \in 1 .. Len(n) /\ i \in 1 .. Len(n) - 1
      BY <2>3, <2>4
    <3>. QED
      BY <2>3, <2>4, <2>5, <3>1
  <2>7. k[1] = req[s]
    <3>1. 1 \in 1 .. Len(n)
      BY <2>3
    <3>. QED
      BY <2>2, <2>4, <3>1
  <2>8. Turns(k, d, b, programmed[d][b], rowDep[d][b].permittedProgPage)
    BY <1>2, <2>1, Zenon
  <2>9. Turns(m, d, b, NextPage(k[1], d, b, programmed[d][b]), rowDep[d][b].permittedProgPage)
    BY <2>6, <2>8, TurnsTail
  <2>. QED
    BY <1>4, <2>1, <2>7, <2>9, Zenon
<1>. QED
  BY <1>5, <1>6

\* The release of the next request of a buffer keeps the order at the dies.
LEMMA FinishKeepsRows ==
    ASSUME Base, ListsInv', NEW s, NEW dma0, NEW nand0 \in [Dies -> Seq(Slots)], Finishes(s, dma0, nand0),
           NEW d \in Dies, NEW b \in Blocks, NEW P,
           Turns(Reqs(req, nand0[d]), d, b, P, rowDep[d][b].permittedProgPage)
    PROVE  Turns(Reqs(req', nandReqQ'[d]), d, b, P, rowDep'[d][b].permittedProgPage)
<1>1. PICK t, q : t = nextBlockingReq[s] /\ q = ReleasedTo(t)
  OBVIOUS
<1>2. /\ req' = [req EXCEPT ![s] = NoReq]
      /\ Released(s) => t \in Slots /\ t # s /\ Live(t) /\ (q # "dma" => req[t].code \in NandCodes) /\ RowMoves(t, q)
      /\ ~Released(s) => UNCHANGED rowDep
  BY <1>1, FinishIs DEF Base, Typed
<1>3. TypedRequests /\ s \in Slots
  BY DEF Base, Typed, Finishes
<1>10. /\ Released(s) => nandReqQ' = IF q = "nand" THEN [nand0 EXCEPT ![req[t].die] = Append(@, t)] ELSE nand0
       /\ ~Released(s) => nandReqQ' = nand0
  BY <1>1, FinishIs DEF Base, Typed
<1>11. queue' = IF Released(s) THEN [queue EXCEPT ![s] = "free", ![t] = q] ELSE [queue EXCEPT ![s] = "free"]
  BY <1>1 DEF Finishes, ReleaseBlockedByBufDepReq, Released, ReleasedTo
<1>4. Turns(Reqs(req, nandReqQ'[d]), d, b, P, rowDep'[d][b].permittedProgPage)
  <2>1. CASE Released(s)
    <3>1. /\ q = "nand" /\ IsMod(t) => req[t].page = Row(t).permittedProgPage
          /\ rowDep'[d][b].permittedProgPage =
                IF q = "nand" /\ IsMod(t) /\ OnRow(t, d, b) THEN After(req[t]) ELSE rowDep[d][b].permittedProgPage
      BY <1>2, <2>1 DEF RowMoves
    <3>2. t \in Slots /\ Live(t)
      BY <1>2, <2>1
    <3>3. nandReqQ' = IF q = "nand" THEN [nand0 EXCEPT ![req[t].die] = Append(@, t)] ELSE nand0
      BY <1>10, <2>1
    <3>. QED
      BY <1>3, <3>1, <3>2, <3>3, RowAppend
  <2>2. CASE ~Released(s)
    BY <1>2, <1>10, <2>2
  <2>. QED
    BY <2>1, <2>2
<1>5. queue'[s] = "free"
  <2>1. queue \in [Slots -> Queues]
    BY <1>3 DEF TypedRequests
  <2>2. Released(s) => t \in Slots /\ t # s
    BY <1>2
  <2>. QED
    BY <1>11, <1>3, <2>1, <2>2
<1>6. PICK n : n = nandReqQ'[d]
  OBVIOUS
<1>7. n \in Seq(Slots) /\ \A x \in Slots : InList(n, x) => queue'[x] = "nand"
  BY <1>6 DEF ListsInv, DieLists
<1>8. \A x \in Slots : InList(n, x) => req'[x] = req[x]
  BY <1>2, <1>3, <1>5, <1>7 DEF TypedRequests
<1>9. Reqs(req', n) = Reqs(req, n)
  BY <1>7, <1>8, ReqsSame
<1>. QED
  BY <1>4, <1>6, <1>9

\* So every step keeps it; a die that is done takes its turn off the front.
LEMMA StepRows ==
    ASSUME Base, RowInv, [Next]_vars
    PROVE  RowInv'
<1> SUFFICES ASSUME NEW d \in Dies, NEW b \in Blocks
             PROVE  Turns(Reqs(req', nandReqQ'[d]), d, b, programmed'[d][b], rowDep'[d][b].permittedProgPage)
  BY DEF RowInv
<1>1. /\ StepKind /\ ListsInv' /\ TypedRequests /\ queue \in [Slots -> Queues] /\ req \in [Slots -> Proper \cup {NoReq}]
      /\ nandReqQ \in [Dies -> Seq(Slots)]
  BY StepIs DEF Base, Typed, TypedRequests
<1>2. Turns(Reqs(req, nandReqQ[d]), d, b, programmed[d][b], rowDep[d][b].permittedProgPage)
  BY DEF RowInv
<1>3. CASE Quiet
  BY <1>2, <1>3 DEF Quiet, queues
<1>4. CASE \E s \in Slots : Creates(s)
  <2>1. PICK s \in Slots : Creates(s)
    BY <1>4
  <2>2. /\ queue[s] \in {"free", "cpu"} /\ req' = [req EXCEPT ![s] = Head(todo)]
        /\ UNCHANGED <<rowDep, nandReqQ, programmed>>
    BY <2>1 DEF Creates, queues
  <2>3. \A x \in Slots : InList(nandReqQ[d], x) => queue[x] = "nand"
    BY DEF Base, ListsInv, DieLists
  <2>4. \A x \in Slots : InList(nandReqQ[d], x) => req'[x] = req[x]
    BY <1>1, <2>2, <2>3
  <2>5. Reqs(req', nandReqQ[d]) = Reqs(req, nandReqQ[d])
    BY <1>1, <2>4, ReqsSame
  <2>. QED
    BY <1>2, <2>2, <2>5
<1>5. CASE \E q : Selects(selecting, q)
  <2>1. PICK s, q : s = selecting /\ Selects(s, q)
    BY <1>5
  <2>2. s \in Slots /\ Live(s) /\ Selected(q, rowDep') /\ RowMoves(s, q)
    BY <2>1 DEF Selects
  <2>3. UNCHANGED <<req, programmed>>
        /\ nandReqQ' = IF q = "nand" THEN [nandReqQ EXCEPT ![req[s].die] = Append(@, s)] ELSE nandReqQ
    BY <2>1, <2>2 DEF Selected, PutOn
  <2>4. /\ q = "nand" /\ IsMod(s) => req[s].page = Row(s).permittedProgPage
        /\ rowDep'[d][b].permittedProgPage =
              IF q = "nand" /\ IsMod(s) /\ OnRow(s, d, b) THEN After(req[s]) ELSE rowDep[d][b].permittedProgPage
    BY <2>2 DEF RowMoves
  <2>5. Turns(Reqs(req, nandReqQ'[d]), d, b, programmed[d][b], rowDep'[d][b].permittedProgPage)
    BY <1>1, <1>2, <2>2, <2>3, <2>4, RowAppend
  <2>. QED
    BY <2>3, <2>5
<1>6. CASE \E s \in Slots : RowReleases(s)
  <2>1. PICK s, q : s \in Slots /\ q = "nand" /\ RowReleases(s)
    BY <1>6
  <2>2. /\ queue[s] = "rowDep" /\ RowMoves(s, q) /\ UNCHANGED <<req, programmed>>
        /\ nandReqQ' = IF q = "nand" THEN [nandReqQ EXCEPT ![req[s].die] = Append(@, s)] ELSE nandReqQ
    BY <2>1 DEF RowReleases
  <2>3. Live(s)
    BY <2>1, <2>2 DEF Base, TagsInv, Blocked
  <2>4. /\ q = "nand" /\ IsMod(s) => req[s].page = Row(s).permittedProgPage
        /\ rowDep'[d][b].permittedProgPage =
              IF q = "nand" /\ IsMod(s) /\ OnRow(s, d, b) THEN After(req[s]) ELSE rowDep[d][b].permittedProgPage
    BY <2>2 DEF RowMoves
  <2>5. Turns(Reqs(req, nandReqQ'[d]), d, b, programmed[d][b], rowDep'[d][b].permittedProgPage)
    BY <1>1, <1>2, <2>1, <2>2, <2>3, <2>4, RowAppend
  <2>. QED
    BY <2>2, <2>5
<1>7. CASE \E s \in Slots : DmaEnds(s)
  <2>1. PICK s \in Slots : DmaEnds(s)
    BY <1>7
  <2>2. Finishes(s, Without(nvmeDmaReqQ, s), nandReqQ) /\ programmed' = programmed
    BY <2>1 DEF DmaEnds
  <2>3. Turns(Reqs(req', nandReqQ'[d]), d, b, programmed[d][b], rowDep'[d][b].permittedProgPage)
    BY <1>1, <1>2, <2>2, FinishKeepsRows
  <2>. QED
    BY <2>2, <2>3
<1>8. CASE \E s \in Slots : NandEnds(s)
  <2>1. PICK s \in Slots : NandEnds(s)
    BY <1>8
  <2>2. PICK nand0 : nand0 = [nandReqQ EXCEPT ![req[s].die] = Tail(@)]
    OBVIOUS
  <2>3. Finishes(s, nvmeDmaReqQ, nand0) /\ s \in Slots /\ nandReqQ[req[s].die] # <<>> /\ queue[s] = "nand"
    BY <2>1, <2>2 DEF NandEnds, Finishes
  <2>4. req[s].die \in Dies
    <3>1. req[s].code \in NandCodes
      BY <2>3 DEF Base, TagsInv
    <3>. QED
      BY <1>1, <2>3, <3>1, LiveRequest DEF Live, NandCodes
  <2>5. nand0 \in [Dies -> Seq(Slots)]
    <3>1. Tail(nandReqQ[req[s].die]) \in Seq(Slots)
      BY <1>1, <2>3, <2>4, HeadTailProperties
    <3>. QED
      BY <1>1, <2>2, <2>4, <3>1
  <2>6. nand0[d] = IF d = req[s].die THEN Tail(nandReqQ[d]) ELSE nandReqQ[d]
    BY <1>1, <2>2
  <2>7. Turns(Reqs(req, nand0[d]), d, b, programmed'[d][b], rowDep[d][b].permittedProgPage)
    BY <2>1, <2>6, RowTail
  <2>. QED
    BY <1>1, <2>3, <2>5, <2>7, FinishKeepsRows
<1>. QED
  BY <1>1, <1>3, <1>4, <1>5, <1>6, <1>7, <1>8, Zenon DEF StepKind

\* The request at the head finds the page it counts on.
LEMMA RowsOrdered ==
    ASSUME Base, RowInv
    PROVE  ProgramOrder
<1> SUFFICES ASSUME NEW d \in Dies, nandReqQ[d] # <<>>, NEW s, s = Head(nandReqQ[d])
             PROVE  /\ req[s].code = "write" => req[s].page = programmed[d][req[s].block]
                    /\ req[s].code = "erase" => PAGES = programmed[d][req[s].block]
  BY DEF ProgramOrder
<1>1. PICK n : n = nandReqQ[d]
  OBVIOUS
<1>2. n \in Seq(Slots) /\ n # <<>> /\ s = n[1]
  BY <1>1 DEF Base, Typed, TypedRequests
<1>3. Len(n) \in Nat /\ Len(n) # 0
  BY <1>2, EmptySeq, LenProperties
<1>4. 1 \in 1 .. Len(n)
  BY <1>3
<1>5. s \in Slots /\ InList(n, s)
  BY <1>2, <1>4, ElementOfSeq DEF InList
<1>6. queue[s] = "nand" /\ req[s].die = d
  BY <1>1, <1>5 DEF Base, ListsInv, DieLists
<1>7. req[s].code \in NandCodes
  BY <1>5, <1>6 DEF Base, TagsInv
<1>8. req[s].block \in Blocks /\ (req[s].code = "erase" => req[s].page = PAGES)
  BY <1>5, <1>7, LiveRequest DEF Base, Typed, Live, NandCodes
<1>9. PICK k, b : k = Reqs(req, n) /\ b = req[s].block
  OBVIOUS
<1>10. Len(k) = Len(n) /\ k[1] = req[s]
  BY <1>2, <1>4, <1>9, ReqsIs
<1>11. Turns(k, d, b, programmed[d][b], rowDep[d][b].permittedProgPage)
  BY <1>1, <1>8, <1>9 DEF RowInv
<1>12. ModOn(req[s], d, b) => req[s].page = programmed[d][b]
  <2>1. PICK f \in [0 .. Len(k) -> Int] :
        /\ f[0] = programmed[d][b]
        /\ \A i \in 1 .. Len(k) :
              IF ModOn(k[i], d, b) THEN k[i].page = f[i - 1] /\ f[i] = After(k[i]) ELSE f[i] = f[i - 1]
    BY <1>11 DEF Turns
  <2>2. 1 \in 1 .. Len(k) /\ 1 - 1 = 0
    BY <1>4, <1>10
  <2>. QED
    BY <1>10, <2>1, <2>2
<1>. QED
  BY <1>6, <1>8, <1>9, <1>12 DEF ModOn, ModCodes
-----------------------------------------------------------------------------
\* The inductive invariant of the queues, chains and rows.
IInv == Base /\ BlockedReadsExact /\ OrderInv /\ ChainInv /\ RowInv

\* It holds at the start, with no request in the pool,
LEMMA InitIInv ==
    ASSUME Init
    PROVE  IInv
<1>1. Base
  BY InitBase
<1>2. /\ queue = [s \in Slots |-> "free"] /\ req = [s \in Slots |-> NoReq]
      /\ prevBlockingReq = [s \in Slots |-> NONE] /\ nextBlockingReq = [s \in Slots |-> NONE]
      /\ blockingReqTail = [b \in AllBufs |-> NONE]
      /\ nandReqQ = [d \in Dies |-> <<>>] /\ order = <<>> /\ programmed = currentPage
      /\ currentPage \in [Dies -> [Blocks -> 0 .. PAGES]]
      /\ rowDep = [d \in Dies |-> [b \in Blocks |->
                    [permittedProgPage |-> currentPage[d][b], blockedReadReqCnt |-> 0,
                     blockedEraseReqFlag |-> FALSE]]]
  BY <1>1 DEF Init, Base, Typed, TypedFlash
<1>3. BlockedReadsExact
  <2>1. ASSUME NEW d \in Dies, NEW b \in Blocks
        PROVE  rowDep[d][b].blockedReadReqCnt = Cardinality(WaitingReads(d, b))
    <3>1. WaitingReads(d, b) = {}
      BY <1>2 DEF WaitingReads
    <3>. QED
      BY <1>2, <3>1, FS_EmptySet
  <2>. QED
    BY <2>1 DEF BlockedReadsExact, WaitingReads
<1>4. OrderInv
  <2>1. Len(order) = 0 /\ \A x \in Slots : ~Live(x)
    BY <1>2 DEF Live, NoReq
  <2>. QED
    BY <1>2, <2>1 DEF OrderInv, Distinct, InList
<1>5. ChainInv
  BY <1>2 DEF ChainInv, Unchained, ChainedBack, ChainedOn, TailOf, Live, NoReq, Running
<1>6. RowInv
  <2> SUFFICES ASSUME NEW d \in Dies, NEW b \in Blocks
               PROVE  Turns(Reqs(req, nandReqQ[d]), d, b, programmed[d][b], rowDep[d][b].permittedProgPage)
    BY DEF RowInv
  <2>1. PICK l, p : l = Reqs(req, nandReqQ[d]) /\ p = programmed[d][b]
    OBVIOUS
  <2>2. Len(l) = 0
    <3>1. nandReqQ[d] = <<>> /\ nandReqQ[d] \in Seq(Slots)
      BY <1>2
    <3>2. Len(nandReqQ[d]) = 0
      BY <3>1
    <3>. QED
      BY <2>1, <3>1, <3>2, ReqsIs
  <2>3. p \in Int /\ rowDep[d][b].permittedProgPage = p
    <3>1. PAGES \in Nat
      BY GeometryAssumption
    <3>. QED
      BY <1>2, <2>1, <3>1
  <2>4. Turns(l, d, b, p, p)
    BY <2>2, <2>3, TurnsEmpty
  <2>. QED
    BY <2>1, <2>3, <2>4
<1>. QED
  BY <1>1, <1>3, <1>4, <1>5, <1>6 DEF IInv

\* and every step keeps it.
LEMMA StepIInv ==
    ASSUME IInv, [Next]_vars
    PROVE  IInv'
<1>1. Base'
  BY StepIs DEF IInv
<1>2. BlockedReadsExact' /\ RowInv'
  BY StepCounts, StepRows DEF IInv
<1>3. OrderInv' /\ ChainInv'
  BY StepChains DEF IInv
<1>. QED
  BY <1>1, <1>2, <1>3 DEF IInv

\* The type invariant that the runs check follows, with the count of the reads that
\* wait a natural number because it is exact.
LEMMA BaseTypes ==
    ASSUME Base, BlockedReadsExact
    PROVE  TypeOK
<1>1. PAGES \in Nat \ {0}
  BY GeometryAssumption
<1>2. /\ req \in [Slots -> Requests \cup {NoReq}] /\ todo \in Seq(Requests \cup {Hold})
  <2>1. Proper \subseteq Requests
    BY DEF Proper
  <2>2. Proper \cup {Hold} \subseteq Requests \cup {Hold} /\ Proper \cup {NoReq} \subseteq Requests \cup {NoReq}
    BY <2>1
  <2>3. todo \in Seq(Proper \cup {Hold}) /\ req \in [Slots -> Proper \cup {NoReq}]
    BY DEF Base, Typed, TypedRequests, TypedCpu
  <2>. QED
    BY <2>2, <2>3
<1>3. rowDep \in [Dies -> [Blocks -> [permittedProgPage : 0 .. PAGES, blockedReadReqCnt : Nat,
                                       blockedEraseReqFlag : BOOLEAN]]]
  <2>1. rowDep \in [Dies -> [Blocks -> Rows]]
    BY DEF Base, Typed, TypedRequests
  <2>2. \A d \in Dies, b \in Blocks : rowDep[d][b].blockedReadReqCnt \in Nat
    <3>1. \A d \in Dies, b \in Blocks : rowDep[d][b].blockedReadReqCnt = Cardinality(WaitingReads(d, b))
      BY DEF BlockedReadsExact, WaitingReads
    <3>. QED
      BY <3>1, WaitingReadsFinite
  <2>3. \A d \in Dies, b \in Blocks :
            rowDep[d][b] \in [permittedProgPage : 0 .. PAGES, blockedReadReqCnt : Nat, blockedEraseReqFlag : BOOLEAN]
    BY <2>1, <2>2 DEF Rows
  <2>. QED
    BY <2>1, <2>3
<1>4. dmaWalk \in Nat /\ rowWalk \in {<<>>} \cup (Dies \X Nat)
  <2>1. Len(nvmeDmaReqQ) \in Nat
    BY LenProperties DEF Base, Typed, TypedRequests
  <2>. QED
    BY <2>1 DEF Base, Typed, TypedWalks
<1>. QED
  BY <1>2, <1>3, <1>4 DEF TypeOK, Base, Typed, TypedRequests, TypedWalks, TypedCpu, TypedFlash

\* The invariant holds in every state.
THEOREM Invariance == Spec => []IInv
<1>1. Init => IInv
  BY InitIInv
<1>2. IInv /\ [Next]_vars => IInv'
  BY StepIInv
<1>. QED
  BY <1>1, <1>2, PTL DEF Spec

\* Every variable keeps its type; in particular permittedProgPage never passes the
\* number of pages, and blockedReadReqCnt never drops below 0 (CheckRowAddrDep).
THEOREM TypeCorrect == Spec => []TypeOK
<1>1. IInv => TypeOK
  BY BaseTypes DEF IInv
<1>. QED
  BY <1>1, Invariance, PTL

\* At most one request of a data buffer has left its chain, for every pool, set of
\* buffers, geometry and schedule of the engine and the dies (CheckBufDep,
\* ReleaseBlockedByBufDepReq).
THEOREM OneRequestPerBuffer == Spec => []BufferExclusive
<1>1. IInv => BufferExclusive
  BY ChainsExclude DEF IInv
<1>. QED
  BY <1>1, Invariance, PTL

\* blockedReadReqCnt is the number of reads of the block that wait, although five
\* places of the code change it.
THEOREM BlockedReadsCounted == Spec => []BlockedReadsExact
<1>1. IInv => BlockedReadsExact
  BY DEF IInv
<1>. QED
  BY <1>1, Invariance, PTL

\* The dies program the pages of a block in order and erase full blocks only,
\* whatever the order the requests are released in (CheckRowAddrDep).
THEOREM PagesInOrder == Spec => []ProgramOrder
<1>1. IInv => ProgramOrder
  BY RowsOrdered DEF IInv
<1>. QED
  BY <1>1, Invariance, PTL
-----------------------------------------------------------------------------
\* Requests that change nothing of the block leave it as it is.
LEMMA TurnsIdle ==
    ASSUME NEW l, Len(l) \in Nat, NEW d, NEW b, NEW p \in Int, \A i \in 1 .. Len(l) : ~ModOn(l[i], d, b)
    PROVE  Turns(l, d, b, p, p)
<1> DEFINE f == [i \in 0 .. Len(l) |-> p]
<1>1. f \in [0 .. Len(l) -> Int] /\ f[0] = p /\ f[Len(l)] = p
  OBVIOUS
<1>2. ASSUME NEW i \in 1 .. Len(l)
      PROVE  f[i] = f[i - 1]
  <2>1. i \in 0 .. Len(l) /\ i - 1 \in 0 .. Len(l)
    OBVIOUS
  <2>. QED
    BY <2>1
<1> HIDE DEF f
<1>3. \A i \in 1 .. Len(l) :
        IF ModOn(l[i], d, b) THEN l[i].page = f[i - 1] /\ f[i] = After(l[i]) ELSE f[i] = f[i - 1]
  BY <1>2
<1>. QED
  BY <1>1, <1>3 DEF Turns

\* One list after the other.
LEMMA TurnsConcat ==
    ASSUME NEW S, NEW l \in Seq(S), NEW m \in Seq(S), NEW d, NEW b, NEW p, NEW q, NEW r,
           Turns(l, d, b, p, q), Turns(m, d, b, q, r)
    PROVE  Turns(l \o m, d, b, p, r)
<1>1. PICK n : n = l \o m
  OBVIOUS
<1>2. /\ Len(l) \in Nat /\ Len(m) \in Nat /\ Len(n) = Len(l) + Len(m)
      /\ \A i \in 1 .. Len(l) + Len(m) : n[i] = IF i <= Len(l) THEN l[i] ELSE m[i - Len(l)]
  BY <1>1, ConcatProperties, LenProperties
<1>3. PICK f \in [0 .. Len(l) -> Int] :
        /\ f[0] = p /\ f[Len(l)] = q
        /\ \A i \in 1 .. Len(l) :
              IF ModOn(l[i], d, b) THEN l[i].page = f[i - 1] /\ f[i] = After(l[i]) ELSE f[i] = f[i - 1]
  BY DEF Turns
<1>4. PICK g \in [0 .. Len(m) -> Int] :
        /\ g[0] = q /\ g[Len(m)] = r
        /\ \A i \in 1 .. Len(m) :
              IF ModOn(m[i], d, b) THEN m[i].page = g[i - 1] /\ g[i] = After(m[i]) ELSE g[i] = g[i - 1]
  BY DEF Turns
<1> DEFINE h == [i \in 0 .. Len(n) |-> IF i <= Len(l) THEN f[i] ELSE g[i - Len(l)]]
<1>5. h \in [0 .. Len(n) -> Int]
  <2>1. ASSUME NEW i \in 0 .. Len(n)
        PROVE  (IF i <= Len(l) THEN f[i] ELSE g[i - Len(l)]) \in Int
    <3>1. CASE i <= Len(l)
      <4>1. i \in 0 .. Len(l)
        BY <3>1
      <4>. QED
        BY <3>1, <4>1
    <3>2. CASE ~(i <= Len(l))
      <4>1. i - Len(l) \in 0 .. Len(m)
        BY <1>2, <3>2
      <4>. QED
        BY <3>2, <4>1
    <3>. QED
      BY <3>1, <3>2
  <2>. QED
    BY <2>1
<1>6. /\ \A i \in 0 .. Len(l) : h[i] = f[i]
      /\ \A i \in 0 .. Len(m) : h[Len(l) + i] = g[i]
  <2>1. ASSUME NEW i \in 0 .. Len(l)
        PROVE  h[i] = f[i]
    <3>1. i \in 0 .. Len(n) /\ i <= Len(l)
      BY <1>2
    <3>. QED
      BY <3>1
  <2>2. ASSUME NEW i \in 0 .. Len(m)
        PROVE  h[Len(l) + i] = g[i]
    <3>1. CASE i = 0
      <4>1. Len(l) + i = Len(l) /\ Len(l) \in 0 .. Len(n) /\ Len(l) <= Len(l)
        BY <1>2, <3>1
      <4>2. h[Len(l)] = f[Len(l)]
        BY <4>1
      <4>. QED
        BY <1>3, <1>4, <3>1, <4>1, <4>2, Zenon
    <3>2. CASE i # 0
      <4>1. Len(l) + i \in 0 .. Len(n) /\ ~(Len(l) + i <= Len(l)) /\ (Len(l) + i) - Len(l) = i
        BY <1>2, <3>2
      <4>. QED
        BY <4>1
    <3>. QED
      BY <3>1, <3>2
  <2>. QED
    BY <2>1, <2>2
<1> HIDE DEF h
<1>7. h[0] = p /\ h[Len(n)] = r
  <2>1. 0 \in 0 .. Len(l) /\ Len(m) \in 0 .. Len(m)
    BY <1>2
  <2>. QED
    BY <1>2, <1>3, <1>4, <1>6, <2>1
<1>8. ASSUME NEW i \in 1 .. Len(n)
      PROVE  IF ModOn(n[i], d, b) THEN n[i].page = h[i - 1] /\ h[i] = After(n[i]) ELSE h[i] = h[i - 1]
  <2>1. CASE i <= Len(l)
    <3>1. i \in 1 .. Len(l) /\ i \in 0 .. Len(l) /\ i - 1 \in 0 .. Len(l) /\ i \in 1 .. Len(l) + Len(m)
      BY <1>2, <2>1
    <3>2. n[i] = l[i] /\ h[i] = f[i] /\ h[i - 1] = f[i - 1]
      BY <1>2, <1>6, <2>1, <3>1
    <3>. QED
      BY <1>3, <3>1, <3>2
  <2>2. CASE ~(i <= Len(l))
    <3>1. PICK j : j = i - Len(l)
      OBVIOUS
    <3>2. /\ j \in 1 .. Len(m) /\ j \in 0 .. Len(m) /\ j - 1 \in 0 .. Len(m) /\ i \in 1 .. Len(l) + Len(m)
          /\ Len(l) + j = i /\ Len(l) + (j - 1) = i - 1
      BY <1>2, <2>2, <3>1
    <3>3. n[i] = m[j] /\ h[i] = g[j] /\ h[i - 1] = g[j - 1]
      BY <1>2, <1>6, <2>2, <3>1, <3>2
    <3>. QED
      BY <1>4, <3>2, <3>3
  <2>. QED
    BY <2>1, <2>2
<1>9. Turns(n, d, b, p, r)
  BY <1>5, <1>7, <1>8 DEF Turns
<1>. QED
  BY <1>1, <1>9

\* A single request.
LEMMA TurnsOne ==
    ASSUME NEW x, NEW d, NEW b, NEW p \in Int, ModOn(x, d, b) => x.page = p /\ After(x) \in Int
    PROVE  Turns(<<x>>, d, b, p, NextPage(x, d, b, p))
<1>1. PICK l, m : l = <<>> /\ m = <<x>>
  OBVIOUS
<1>2. Len(l) = 0 /\ Len(m) = 1 /\ m[1] = x
  BY <1>1
<1>3. Turns(l, d, b, p, p)
  BY <1>2, TurnsEmpty
<1>4. Turns(m, d, b, p, NextPage(x, d, b, p))
  <2>1. Len(m) = Len(l) + 1 /\ Len(l) \in Nat /\ m[Len(l) + 1] = x /\ \A i \in 1 .. Len(l) : m[i] = l[i]
    BY <1>2
  <2>. QED
    BY <1>3, <2>1, TurnsAppend
<1>. QED
  BY <1>1, <1>4

\* A collection programs the first pages of block k and erases block v.
LEMMA TurnsCollection ==
    ASSUME TypedFlash, NEW d \in Dies, NEW v \in Blocks, currentPage[d][v] = PAGES, NEW k \in Blocks, k # v,
           NEW n \in 0 .. PAGES - 1, NEW c \in [1 .. n -> Pages],
           NEW e \in Dies, NEW b \in Blocks, NEW p \in Int,
           e = d /\ b = k => p = 0,
           e = d /\ b = v => p = PAGES
    PROVE  Turns(Collection(d, v, c, k), e, b, p, IF e = d /\ b = k THEN n ELSE IF e = d /\ b = v THEN 0 ELSE p)
<1>1. PICK l : l = Collection(d, v, c, k)
  OBVIOUS
<1>2. PAGES \in Nat \ {0} /\ n \in Nat
  BY GeometryAssumption
<1>3. /\ Len(l) = 2 * n + 1
      /\ \A i \in 1 .. n : /\ l[2 * i - 1] = Request("read", d, d, v, c[i], "new")
                           /\ l[2 * i] = Request("write", d, d, k, i - 1, "new")
      /\ l[2 * n + 1] = Request("erase", NONE, d, v, PAGES, "new")
  <2>1. /\ Len(Collection(d, v, c, k)) = 2 * n + 1
        /\ \A i \in 1 .. n : /\ Collection(d, v, c, k)[2 * i - 1] = Request("read", d, d, v, c[i], "new")
                             /\ Collection(d, v, c, k)[2 * i] = Request("write", d, d, k, i - 1, "new")
        /\ Collection(d, v, c, k)[2 * n + 1] = Request("erase", NONE, d, v, PAGES, "new")
    <3>1. Len(Collection(d, v, c, k)) = 2 * n + 1
      BY CollectionIs
    <3>2. Collection(d, v, c, k)[2 * n + 1] = Request("erase", NONE, d, v, PAGES, "new")
      BY CollectionIs
    <3>3. \A i \in 1 .. n : /\ Collection(d, v, c, k)[2 * i - 1] = Request("read", d, d, v, c[i], "new")
                             /\ Collection(d, v, c, k)[2 * i] = Request("write", d, d, k, i - 1, "new")
      BY CollectionIs, Zenon
    <3>. QED
      BY <3>1, <3>2, <3>3, Zenon
  <2>. QED
    BY <1>1, <2>1, Zenon
<1>9. Len(l) = 2 * n + 1
  BY <1>3
<1>4. /\ \A i \in 1 .. n : l[2 * i - 1].code = "read"
      /\ \A i \in 1 .. n : l[2 * i].code = "write" /\ l[2 * i].die = d /\ l[2 * i].block = k /\ l[2 * i].page = i - 1
      /\ l[2 * n + 1].code = "erase" /\ l[2 * n + 1].die = d /\ l[2 * n + 1].block = v /\ l[2 * n + 1].page = PAGES
  <2>2. ASSUME NEW i \in 1 .. n PROVE l[2 * i - 1].code = "read"
    <3>1. l[2 * i - 1] = Request("read", d, d, v, c[i], "new")
      BY <1>3
    <3>. QED
      BY <3>1 DEF Request
  <2>3. ASSUME NEW i \in 1 .. n
        PROVE  l[2 * i].code = "write" /\ l[2 * i].die = d /\ l[2 * i].block = k /\ l[2 * i].page = i - 1
    <3>1. l[2 * i] = Request("write", d, d, k, i - 1, "new")
      BY <1>3
    <3>. QED
      BY <3>1 DEF Request
  <2>4. l[2 * n + 1].code = "erase" /\ l[2 * n + 1].die = d /\ l[2 * n + 1].block = v /\ l[2 * n + 1].page = PAGES
    <3>1. l[2 * n + 1] = Request("erase", NONE, d, v, PAGES, "new")
      BY <1>3
    <3>. QED
      BY <3>1 DEF Request
  <2>. QED
    BY <2>2, <2>3, <2>4
<1>5. ASSUME NEW i \in 1 .. Len(l)
      PROVE  \/ i = 2 * n + 1
             \/ \E j \in 1 .. n : i = 2 * j - 1
             \/ \E j \in 1 .. n : i = 2 * j
  <2>1. CASE i = 2 * n + 1
    BY <2>1
  <2>2. CASE i # 2 * n + 1 /\ i % 2 = 1
    <3>1. (i + 1) \div 2 \in 1 .. n /\ i = 2 * ((i + 1) \div 2) - 1
      BY <1>2, <1>9, <2>2
    <3>. QED
      BY <3>1
  <2>3. CASE i # 2 * n + 1 /\ i % 2 # 1
    <3>1. i \div 2 \in 1 .. n /\ i = 2 * (i \div 2)
      BY <1>2, <1>9, <2>3
    <3>. QED
      BY <3>1
  <2>. QED
    BY <2>1, <2>2, <2>3
<1>6. CASE e = d /\ b = k
  <2> DEFINE f == [i \in 0 .. Len(l) |-> i \div 2]
  <2>1. f \in [0 .. Len(l) -> Int]
    BY <1>2, <1>9
  <2>2. f[0] = 0 /\ f[Len(l)] = n
    BY <1>2, <1>9
  <2>3. ASSUME NEW j \in 1 .. n
        PROVE  /\ 2 * j - 1 \in 1 .. Len(l) /\ 2 * j \in 1 .. Len(l)
               /\ f[2 * j - 1] = j - 1 /\ f[(2 * j - 1) - 1] = j - 1 /\ f[2 * j] = j /\ f[2 * j - 1] = j - 1
    <3>1. /\ 2 * j - 1 \in 0 .. Len(l) /\ (2 * j - 1) - 1 \in 0 .. Len(l) /\ 2 * j \in 0 .. Len(l)
          /\ 2 * j - 1 \in 1 .. Len(l) /\ 2 * j \in 1 .. Len(l)
      BY <1>2, <1>9
    <3>2. (2 * j - 1) \div 2 = j - 1 /\ ((2 * j - 1) - 1) \div 2 = j - 1 /\ (2 * j) \div 2 = j
      BY <1>2
    <3>. QED
      BY <3>1, <3>2
  <2>4. f[2 * n + 1] = n /\ f[(2 * n + 1) - 1] = n
    <3>1. 2 * n + 1 \in 0 .. Len(l) /\ (2 * n + 1) - 1 \in 0 .. Len(l)
      BY <1>2, <1>9
    <3>2. (2 * n + 1) \div 2 = n /\ ((2 * n + 1) - 1) \div 2 = n
      BY <1>2
    <3>. QED
      BY <3>1, <3>2
  <2> HIDE DEF f
  <2>5. ASSUME NEW i \in 1 .. Len(l)
        PROVE  IF ModOn(l[i], e, b) THEN l[i].page = f[i - 1] /\ f[i] = After(l[i]) ELSE f[i] = f[i - 1]
    <3>1. CASE i = 2 * n + 1
      <4>1. ~ModOn(l[i], e, b)
        BY <1>4, <1>6, <3>1 DEF ModOn
      <4>. QED
        BY <2>4, <3>1, <4>1
    <3>2. CASE \E j \in 1 .. n : i = 2 * j - 1
      <4>1. PICK j \in 1 .. n : i = 2 * j - 1
        BY <3>2
      <4>2. ~ModOn(l[i], e, b)
        BY <1>4, <4>1 DEF ModOn, ModCodes
      <4>. QED
        BY <2>3, <4>1, <4>2
    <3>3. CASE \E j \in 1 .. n : i = 2 * j
      <4>1. PICK j \in 1 .. n : i = 2 * j
        BY <3>3
      <4>2. ModOn(l[i], e, b) /\ l[i].page = j - 1 /\ After(l[i]) = (j - 1) + 1
        BY <1>4, <1>6, <4>1 DEF ModOn, ModCodes, After
      <4>3. f[i - 1] = j - 1 /\ f[i] = j
        BY <2>3, <4>1
      <4>4. (j - 1) + 1 = j
        OBVIOUS
      <4>. QED
        BY <4>2, <4>3, <4>4
    <3>. QED
      BY <1>5, <3>1, <3>2, <3>3
  <2>6. Turns(l, e, b, 0, n)
    BY <2>1, <2>2, <2>5 DEF Turns
  <2>. QED
    BY <1>1, <1>6, <2>6
<1>7. CASE e = d /\ b = v
  <2> DEFINE f == [i \in 0 .. Len(l) |-> IF i <= 2 * n THEN PAGES ELSE 0]
  <2>1. f \in [0 .. Len(l) -> Int]
    BY <1>2
  <2>2. f[0] = PAGES /\ f[Len(l)] = 0
    BY <1>2, <1>9
  <2>3. ASSUME NEW i \in 1 .. Len(l)
        PROVE  f[i - 1] = PAGES /\ f[i] = IF i = 2 * n + 1 THEN 0 ELSE PAGES
    <3>1. i - 1 \in 0 .. Len(l) /\ i \in 0 .. Len(l) /\ i - 1 <= 2 * n
      BY <1>2, <1>9
    <3>2. i <= 2 * n <=> i # 2 * n + 1
      BY <1>2, <1>9
    <3>. QED
      BY <3>1, <3>2
  <2> HIDE DEF f
  <2>4. ASSUME NEW i \in 1 .. Len(l)
        PROVE  IF ModOn(l[i], e, b) THEN l[i].page = f[i - 1] /\ f[i] = After(l[i]) ELSE f[i] = f[i - 1]
    <3>1. CASE i = 2 * n + 1
      <4>1. ModOn(l[i], e, b) /\ l[i].page = PAGES /\ After(l[i]) = 0
        BY <1>4, <1>7, <3>1 DEF ModOn, ModCodes, After
      <4>. QED
        BY <2>3, <3>1, <4>1
    <3>2. CASE i # 2 * n + 1
      <4>1. \/ \E j \in 1 .. n : i = 2 * j - 1
            \/ \E j \in 1 .. n : i = 2 * j
        BY <1>5, <3>2
      <4>2. ~ModOn(l[i], e, b)
        BY <1>4, <1>7, <4>1 DEF ModOn, ModCodes
      <4>. QED
        BY <2>3, <3>2, <4>2
    <3>. QED
      BY <3>1, <3>2
  <2>5. Turns(l, e, b, PAGES, 0)
    BY <2>1, <2>2, <2>4 DEF Turns
  <2>. QED
    BY <1>1, <1>7, <2>5
<1>8. CASE ~(e = d /\ b = k) /\ ~(e = d /\ b = v)
  <2>1. ASSUME NEW i \in 1 .. Len(l)
        PROVE  ~ModOn(l[i], e, b)
    BY <1>4, <1>5, <1>8 DEF ModOn, ModCodes
  <2>2. Len(l) \in Nat
    BY <1>2, <1>9
  <2>3. Turns(l, e, b, p, p)
    BY <2>1, <2>2, TurnsIdle
  <2>. QED
    BY <1>1, <1>8, <2>3
<1>. QED
  BY <1>6, <1>7, <1>8

\* The write of a dirty buffer, with the collection it needs, leaves the blocks as
\* AddrTransWrite has them.
LEMMA EvictTurns ==
    ASSUME TypedFlash, FreeInv, NEW b \in Bufs, NEW a \in AddrTransWrite, Remap(a), NEW e \in Dies, NEW k \in Blocks
    PROVE  Turns(EvictDataBufEntry(b, a), e, k, currentPage[e][k], currentPage'[e][k])
<1>1. PICK d \in Dies : NoCollection(a, d) \/ \E v, c : Collects(a, d, v, c)
  BY AllocationIs
<1>2. PAGES \in Nat \ {0} /\ currentPage \in [Dies -> [Blocks -> 0 .. PAGES]] /\ Pages \subseteq Int
  BY GeometryAssumption DEF TypedFlash, Pages
<1>3. PICK p, last, h : p = currentPage[e][k] /\ last = Request("write", b, a.die, a.block, a.page, "held") /\ h = Hold
  OBVIOUS
<1>4. p \in Int /\ p \in 0 .. PAGES
  BY <1>2, <1>3
<1>5. EvictDataBufEntry(b, a) = (<<h>> \o a.gc) \o <<last>>
  BY <1>3 DEF EvictDataBufEntry
<1>6. h.code = "hold" /\ last.code = "write" /\ last.die = a.die /\ last.block = a.block /\ last.page = a.page
  BY <1>3 DEF Hold, Request
<1>7. h \in Proper \cup {Hold} /\ Turns(<<h>>, e, k, p, p)
  <2>1. ~ModOn(h, e, k)
    BY <1>6 DEF ModOn, ModCodes
  <2>2. Turns(<<h>>, e, k, p, NextPage(h, e, k, p))
    BY <1>4, <2>1, TurnsOne
  <2>3. NextPage(h, e, k, p) = p
    BY <2>1 DEF NextPage
  <2>. QED
    BY <1>3, <2>2, <2>3
<1>8. /\ a.die = d /\ a.block \in Blocks /\ a.page \in Pages /\ a.gc \in Seq(Proper) /\ last \in Proper
      /\ currentPage'[e] = IF e = d THEN a.currentPage ELSE currentPage[e]
  <2>1. a.die = d /\ a.block \in Blocks /\ a.page \in Pages
    BY <1>1 DEF NoCollection, Collects
  <2>2. currentPage' = [currentPage EXCEPT ![a.die] = a.currentPage]
    BY DEF Remap
  <2>3. a.gc \in Seq(Proper)
    <3>1. CASE NoCollection(a, d)
      BY <3>1 DEF NoCollection
    <3>2. CASE \E v, c : Collects(a, d, v, c)
      <4>1. PICK v, c : Collects(a, d, v, c)
        BY <3>2
      <4>2. /\ v \in Blocks /\ currentPage[d][v] = PAGES
            /\ \E n \in 0 .. PAGES - 1 : c \in [1 .. n -> Pages]
            /\ a.gc = Collection(d, v, c, a.block)
        BY <4>1 DEF Collects
      <4>. QED
        BY <2>1, <4>2, CollectionIs
    <3>. QED
      BY <1>1, <3>1, <3>2
  <2>4. last \in Proper
    BY <1>2, <1>3, <2>1 DEF Proper, Requests, Request, Codes, NandCodes, Pages, AllBufs
  <2>. QED
    BY <1>2, <2>1, <2>2, <2>3, <2>4
<1>9. ASSUME NEW q \in Int, Turns(a.gc, e, k, p, q), ModOn(last, e, k) => a.page = q,
             NextPage(last, e, k, q) = currentPage'[e][k]
      PROVE  Turns(EvictDataBufEntry(b, a), e, k, p, currentPage'[e][k])
  <2>1. /\ <<h>> \in Seq(Proper \cup {Hold}) /\ a.gc \in Seq(Proper \cup {Hold}) /\ <<last>> \in Seq(Proper \cup {Hold})
        /\ <<h>> \o a.gc \in Seq(Proper \cup {Hold})
    BY <1>7, <1>8
  <2>2. Turns(<<h>> \o a.gc, e, k, p, q)
    BY <1>7, <1>9, <2>1, TurnsConcat
  <2>3. Turns(<<last>>, e, k, q, NextPage(last, e, k, q))
    <3>1. After(last) \in Int
      BY <1>2, <1>6, <1>8 DEF After
    <3>2. ModOn(last, e, k) => last.page = q
      BY <1>6, <1>9
    <3>. QED
      BY <1>9, <3>1, <3>2, TurnsOne
  <2>4. Turns((<<h>> \o a.gc) \o <<last>>, e, k, p, NextPage(last, e, k, q))
    BY <2>1, <2>2, <2>3, TurnsConcat
  <2>. QED
    BY <1>5, <1>9, <2>4
<1>10. ModOn(last, e, k) <=> e = d /\ k = a.block
  BY <1>6, <1>8 DEF ModOn, ModCodes
<1>11. After(last) = a.page + 1
  BY <1>6 DEF After
<1>12. CASE NoCollection(a, d)
  <2>1. /\ a.gc = <<>> /\ a.page = currentPage[d][a.block]
        /\ a.currentPage = [currentPage[d] EXCEPT ![a.block] = a.page + 1]
    BY <1>12 DEF NoCollection
  <2>2. PICK l : l = a.gc
    OBVIOUS
  <2>3. Len(l) = 0
    BY <2>1, <2>2
  <2>4. Turns(a.gc, e, k, p, p)
    BY <1>4, <2>2, <2>3, TurnsEmpty
  <2>5. ModOn(last, e, k) => a.page = p
    BY <1>3, <1>10, <2>1
  <2>6. NextPage(last, e, k, p) = currentPage'[e][k]
    BY <1>2, <1>3, <1>8, <1>10, <1>11, <2>1 DEF NextPage
  <2>. QED
    BY <1>3, <1>4, <1>9, <2>4, <2>5, <2>6
<1>13. CASE \E v, c : Collects(a, d, v, c)
  <2>1. PICK v, c : Collects(a, d, v, c)
    BY <1>13
  <2>2. /\ v \in Blocks /\ currentPage[d][v] = PAGES
        /\ \E n \in 0 .. PAGES - 1 : c \in [1 .. n -> Pages]
        /\ a.gc = Collection(d, v, c, a.block) /\ a.page = Len(c)
        /\ currentPage[d][a.block] = 0
        /\ a.currentPage = [currentPage[d] EXCEPT ![v] = 0, ![a.block] = a.page + 1]
        /\ a.block # v
    BY <2>1 DEF Collects
  <2>3. PICK n \in 0 .. PAGES - 1 : c \in [1 .. n -> Pages]
    BY <2>2
  <2>4. n = a.page
    BY <2>2, <2>3, LenProperties
  <2>5. PICK q : q = IF e = d /\ k = a.block THEN n ELSE IF e = d /\ k = v THEN 0 ELSE p
    OBVIOUS
  <2>6. Turns(a.gc, e, k, p, q)
    <3>1. (e = d /\ k = a.block => p = 0) /\ (e = d /\ k = v => p = PAGES)
      BY <1>3, <2>2
    <3>. QED
      BY <1>4, <1>8, <2>2, <2>3, <2>5, <3>1, TurnsCollection
  <2>7. q \in Int
    BY <1>2, <1>4, <2>3, <2>5
  <2>8. ModOn(last, e, k) => a.page = q
    BY <1>10, <2>4, <2>5
  <2>9. NextPage(last, e, k, q) = currentPage'[e][k]
    <3>1. CASE e # d
      BY <1>3, <1>8, <1>10, <2>5, <3>1 DEF NextPage
    <3>2. CASE e = d /\ k = a.block
      BY <1>2, <1>8, <1>10, <1>11, <2>2, <3>2 DEF NextPage
    <3>3. CASE e = d /\ k # a.block
      BY <1>2, <1>3, <1>8, <1>10, <2>2, <2>5, <3>3 DEF NextPage
    <3>. QED
      BY <3>1, <3>2, <3>3
  <2>. QED
    BY <1>3, <1>9, <2>6, <2>7, <2>8, <2>9
<1>. QED
  BY <1>1, <1>12, <1>13

\* What a slice asks for itself programs and erases nothing.
LEMMA FetchTurns ==
    ASSUME NEW b \in Bufs, NEW code \in HostCodes, NEW e \in Dies, NEW k \in Blocks, NEW p \in Int,
           NEW r \in Fetch(b, code)
    PROVE  Turns(r, e, k, p, p) /\ Turns(Transfer(b, code), e, k, p, p)
<1>1. code \in {"rx", "tx"}
  BY PoolAssumption
<1>2. Turns(Transfer(b, code), e, k, p, p)
  <2>1. PICK x : x = Request(code, b, NONE, NONE, NONE, "slice")
    OBVIOUS
  <2>2. ~ModOn(x, e, k)
    BY <1>1, <2>1 DEF Request, ModOn, ModCodes
  <2>3. Turns(<<x>>, e, k, p, NextPage(x, e, k, p))
    BY <2>2, TurnsOne
  <2>. QED
    BY <2>1, <2>2, <2>3 DEF Transfer, NextPage
<1>3. r = <<>> \/ \E m \in Dies \X Blocks \X Pages : r = <<Request("read", b, m[1], m[2], m[3], "new")>>
  BY DEF Fetch, Reads
<1>4. CASE r = <<>>
  <2>1. Len(r) = 0
    BY <1>4
  <2>. QED
    BY <1>2, <2>1, TurnsEmpty
<1>5. CASE \E m \in Dies \X Blocks \X Pages : r = <<Request("read", b, m[1], m[2], m[3], "new")>>
  <2>1. PICK m \in Dies \X Blocks \X Pages : r = <<Request("read", b, m[1], m[2], m[3], "new")>>
    BY <1>5
  <2>2. PICK x : x = Request("read", b, m[1], m[2], m[3], "new")
    OBVIOUS
  <2>3. ~ModOn(x, e, k)
    BY <2>2 DEF Request, ModOn, ModCodes
  <2>4. Turns(<<x>>, e, k, p, NextPage(x, e, k, p))
    BY <2>3, TurnsOne
  <2>. QED
    BY <1>2, <2>1, <2>2, <2>3, <2>4 DEF NextPage
<1>. QED
  BY <1>3, <1>4, <1>5

\* What the CPU still asks for keeps leading to the blocks of the mapping.
TodoKept ==
    \A d \in Dies, b \in Blocks : \A m :
        Turns(todo, d, b, m, currentPage[d][b]) => Turns(todo', d, b, m, currentPage'[d][b])

\* Nothing was asked for before.
LEMMA TodoAdded ==
    ASSUME todo = <<>>,
           \A d \in Dies, b \in Blocks : Turns(todo', d, b, currentPage[d][b], currentPage'[d][b])
    PROVE  TodoKept
<1>1. Len(todo) = 0
  OBVIOUS
<1>2. ASSUME NEW d \in Dies, NEW b \in Blocks, NEW m, Turns(todo, d, b, m, currentPage[d][b])
      PROVE  m = currentPage[d][b]
  <2>1. Len(todo) \in Nat
    BY <1>1
  <2>. QED
    BY <1>1, <1>2, <2>1, TurnsTyped
<1>. QED
  BY <1>2 DEF TodoKept

\* What a slice asks for leads to the blocks as it leaves them,
LEMMA TransformTurns ==
    ASSUME Base, Transform
    PROVE  TodoKept
<1>1. PICK b \in Bufs, code \in HostCodes : BufferHit(b, code) \/ BufferMiss(b, code)
  BY DEF Transform
<1>2. todo = <<>>
  BY <1>1 DEF BufferHit, BufferMiss, TakeSlice
<1>3. ASSUME NEW d \in Dies, NEW k \in Blocks
      PROVE  Turns(todo', d, k, currentPage[d][k], currentPage'[d][k])
  <2>1. currentPage \in [Dies -> [Blocks -> 0 .. PAGES]] /\ currentPage[d][k] \in Int
    BY <1>3, GeometryAssumption DEF Base, Typed, TypedFlash
  <2>2. <<>> \in Fetch(b, code)
    BY DEF Fetch, Reads
  <2>3. CASE BufferHit(b, code)
    <3>1. todo' = Transfer(b, code) /\ currentPage' = currentPage
      BY <2>3 DEF BufferHit
    <3>2. Turns(Transfer(b, code), d, k, currentPage[d][k], currentPage[d][k])
      BY <2>1, <2>2, FetchTurns
    <3>. QED
      BY <3>1, <3>2
  <2>4. CASE BufferMiss(b, code)
    <3>1. CASE /\ UNCHANGED <<currentBlock, currentPage, freeBlocks>>
               /\ \E r \in Fetch(b, code) : todo' = r \o Transfer(b, code)
      <4>1. PICK r \in Fetch(b, code) : todo' = r \o Transfer(b, code)
        BY <3>1
      <4>2. currentPage' \in [Dies -> [Blocks -> 0 .. PAGES]]
        BY <2>1, <3>1
      <4>3. r \in Seq(Proper \cup {Hold}) /\ Transfer(b, code) \in Seq(Proper \cup {Hold})
        BY <4>1, <4>2, FetchIs
      <4>4. /\ Turns(r, d, k, currentPage[d][k], currentPage[d][k])
            /\ Turns(Transfer(b, code), d, k, currentPage[d][k], currentPage[d][k])
        BY <2>1, <4>1, FetchTurns
      <4>5. Turns(r \o Transfer(b, code), d, k, currentPage[d][k], currentPage[d][k])
        BY <4>3, <4>4, TurnsConcat
      <4>. QED
        BY <3>1, <4>1, <4>5
    <3>2. CASE \E a \in AddrTransWrite :
                 /\ Remap(a)
                 /\ \E r \in Fetch(b, code) : todo' = EvictDataBufEntry(b, a) \o r \o Transfer(b, code)
      <4>1. PICK a \in AddrTransWrite :
                 /\ Remap(a)
                 /\ \E r \in Fetch(b, code) : todo' = EvictDataBufEntry(b, a) \o r \o Transfer(b, code)
        BY <3>2
      <4>2. /\ EvictDataBufEntry(b, a) \in Seq(Proper \cup {Hold})
            /\ currentPage' \in [Dies -> [Blocks -> 0 .. PAGES]]
        BY <4>1, EvictIs DEF Base, Typed
      <4>3. PICK r \in Fetch(b, code) : todo' = EvictDataBufEntry(b, a) \o r \o Transfer(b, code)
        BY <4>1
      <4>4. r \in Seq(Proper \cup {Hold}) /\ Transfer(b, code) \in Seq(Proper \cup {Hold})
        BY <4>2, <4>3, FetchIs
      <4>5. EvictDataBufEntry(b, a) \o r \in Seq(Proper \cup {Hold})
        BY <4>2, <4>4
      <4>6. currentPage'[d][k] \in Int
        BY <4>2, GeometryAssumption
      <4>7. /\ Turns(r, d, k, currentPage'[d][k], currentPage'[d][k])
            /\ Turns(Transfer(b, code), d, k, currentPage'[d][k], currentPage'[d][k])
        BY <4>3, <4>6, FetchTurns
      <4>8. Turns(EvictDataBufEntry(b, a), d, k, currentPage[d][k], currentPage'[d][k])
        BY <1>3, <4>1, EvictTurns DEF Base, Typed
      <4>9. Turns(EvictDataBufEntry(b, a) \o r, d, k, currentPage[d][k], currentPage'[d][k])
        BY <4>2, <4>4, <4>7, <4>8, TurnsConcat
      <4>10. Turns((EvictDataBufEntry(b, a) \o r) \o Transfer(b, code), d, k, currentPage[d][k], currentPage'[d][k])
        BY <4>4, <4>5, <4>7, <4>9, TurnsConcat
      <4>. QED
        BY <4>3, <4>10, Zenon
    <3>. QED
      BY <2>4, <3>1, <3>2 DEF BufferMiss
  <2>. QED
    BY <1>1, <2>3, <2>4
<1>. QED
  BY <1>2, <1>3, TodoAdded

\* and so does a turn of the flush.
LEMMA FlushTurns ==
    ASSUME Base, FlushDataBuf
    PROVE  TodoKept
<1>1. todo = <<>>
  BY DEF FlushDataBuf
<1>2. PICK b \in toFlush, a \in AddrTransWrite : Remap(a) /\ todo' = EvictDataBufEntry(b, a)
  BY DEF FlushDataBuf
<1>3. b \in Bufs
  BY <1>2 DEF Base, Typed, TypedCpu
<1>4. ASSUME NEW d \in Dies, NEW k \in Blocks
      PROVE  Turns(todo', d, k, currentPage[d][k], currentPage'[d][k])
  <2>1. Turns(EvictDataBufEntry(b, a), d, k, currentPage[d][k], currentPage'[d][k])
    BY <1>2, <1>3, EvictTurns DEF Base, Typed
  <2>. QED
    BY <1>2, <2>1
<1>. QED
  BY <1>1, <1>4, TodoAdded

\* The entry taken for evicted data programs and erases nothing.
LEMMA HoldTurns ==
    ASSUME Base, HoldEntry
    PROVE  TodoKept
<1>1. todo # <<>> /\ Head(todo) = Hold /\ todo' = Tail(todo) /\ currentPage' = currentPage
  BY DEF HoldEntry, ftl
<1>2. PICK l, m : l = todo /\ m = Tail(todo)
  OBVIOUS
<1>3. l \in Seq(Proper \cup {Hold}) /\ l # <<>> /\ l[1] = Hold /\ m = Tail(l)
  BY <1>1, <1>2 DEF Base, Typed, TypedCpu
<1>4. Len(l) \in Nat /\ Len(l) > 0 /\ Len(m) = Len(l) - 1 /\ \A i \in 1 .. Len(l) - 1 : m[i] = l[i + 1]
  <2>1. Len(l) \in Nat /\ Len(l) # 0
    BY <1>3, EmptySeq, LenProperties
  <2>2. Len(Tail(l)) = Len(l) - 1 /\ \A i \in 1 .. Len(Tail(l)) : Tail(l)[i] = l[i + 1]
    BY <1>3, HeadTailProperties
  <2>3. Len(m) = Len(l) - 1 /\ \A i \in 1 .. Len(m) : m[i] = l[i + 1]
    BY <1>3, <2>2, Zenon
  <2>. QED
    BY <2>1, <2>3
<1>5. ASSUME NEW d \in Dies, NEW b \in Blocks, NEW p, Turns(l, d, b, p, currentPage[d][b])
      PROVE  Turns(m, d, b, p, currentPage[d][b])
  <2>1. Turns(m, d, b, NextPage(l[1], d, b, p), currentPage[d][b])
    BY <1>4, <1>5, TurnsTail
  <2>2. NextPage(l[1], d, b, p) = p
    BY <1>3 DEF NextPage, ModOn, ModCodes, Hold
  <2>. QED
    BY <2>1, <2>2
<1>. QED
  BY <1>1, <1>2, <1>5 DEF TodoKept

\* So every step does that creates no request.
LEMMA StepAsks ==
    ASSUME Base, [Next]_vars
    PROVE  TodoKept \/ \E s \in Slots : Creates(s)
<1>1. ASSUME UNCHANGED <<todo, currentPage>>
      PROVE  TodoKept
  BY <1>1 DEF TodoKept
<1>2. CASE UNCHANGED <<cpu, ftl>>
  BY <1>1, <1>2 DEF cpu, ftl
<1>3. CASE UNCHANGED vars
  BY <1>1, <1>3 DEF vars, cpu, ftl
<1>4. CASE Host
  BY <1>1, <1>4 DEF Host, StartCommand, StartFlush, ftl
<1>5. CASE Split
  BY <1>1, <1>5 DEF Split, SplitSlice, ftl
<1>6. CASE Select
  BY <1>1, <1>6 DEF Select, SelectDma, SelectNand, SelectBufBlockedRead, SelectBufBlockedWrite, Selected, ftl
<1>7. CASE Scheduler \/ Engine \/ \E d \in Dies : NandDone(d)
  <2>1. Scheduler => UNCHANGED <<cpu, ftl>>
    BY DEF Scheduler, StartCheckDone, CheckDoneNvmeDmaReq, ReleaseBlockedByRowAddrDepReq, StartReleaseRow
  <2>2. Engine => UNCHANGED <<cpu, ftl>>
    BY DEF Engine, DmaEngine
  <2>3. (\E d \in Dies : NandDone(d)) => UNCHANGED <<cpu, ftl>>
    BY DEF NandDone
  <2>. QED
    BY <1>2, <1>7, <2>1, <2>2, <2>3
<1>8. CASE Create
  BY <1>8, HoldTurns, CreateIs, Zenon DEF Create
<1>. QED
  BY <1>3, <1>4, <1>5, <1>6, <1>7, <1>8, TransformTurns, FlushTurns, Zenon DEF Next, Cpu
-----------------------------------------------------------------------------
(* What waits, in the order it was asked for.                               *)

\* A set of natural numbers has a least element.
LEMMA SmallestOf ==
    ASSUME NEW T \in SUBSET Nat, T # {}
    PROVE  \E x \in T : \A y \in T : x <= y
<1>1. IsWellFoundedOn(OpToRel(<, Nat), Nat)
  BY NatLessThanWellFounded
<1>2. PICK x \in T : \A y \in T : <<y, x>> \notin OpToRel(<, Nat)
  BY <1>1, WFMin
<1>3. \A y \in T : ~(y < x)
  BY <1>2 DEF OpToRel
<1>. QED
  BY <1>3

\* Nothing before position k of l changes the block.
LEMMA TurnsFirst ==
    ASSUME NEW l, Len(l) \in Nat, NEW d, NEW b, NEW p, NEW q, Turns(l, d, b, p, q),
           NEW k \in 1 .. Len(l), \A j \in 1 .. k - 1 : ~ModOn(l[j], d, b)
    PROVE  ModOn(l[k], d, b) => l[k].page = p
<1>0. PICK f \in [0 .. Len(l) -> Int] :
        /\ f[0] = p
        /\ \A i \in 1 .. Len(l) :
              IF ModOn(l[i], d, b) THEN l[i].page = f[i - 1] /\ f[i] = After(l[i]) ELSE f[i] = f[i - 1]
  BY DEF Turns
<1>1. \A j \in 0 .. k - 1 : f[j] = p
  <2> SUFFICES ASSUME NEW i \in 0 .. k - 1, f[i] # p
               PROVE  FALSE
    OBVIOUS
  <2> DEFINE T == {j \in 0 .. k - 1 : f[j] # p}
  <2>1. T \in SUBSET Nat /\ T # {}
    OBVIOUS
  <2>2. PICK x \in T : \A y \in T : x <= y
    BY <2>1, SmallestOf
  <2>3. x \in 0 .. k - 1 /\ f[x] # p /\ x # 0
    BY <1>0
  <2>4. x \in 1 .. Len(l) /\ x \in 1 .. k - 1 /\ x - 1 \in 0 .. k - 1 /\ ~(x <= x - 1)
    BY <2>3
  <2>5. f[x - 1] = p
    BY <2>2, <2>4
  <2>6. f[x] = f[x - 1]
    BY <1>0, <2>4
  <2>. QED
    BY <2>3, <2>5, <2>6
<1>2. k - 1 \in 0 .. k - 1
  OBVIOUS
<1>. QED
  BY <1>0, <1>1, <1>2

\* Requests that change nothing of the block may differ.
LEMMA TurnsSame ==
    ASSUME NEW l, NEW m, Len(l) \in Nat, Len(m) = Len(l), NEW d, NEW b, NEW p, NEW q, Turns(l, d, b, p, q),
           \A i \in 1 .. Len(l) : m[i] = l[i] \/ (~ModOn(m[i], d, b) /\ ~ModOn(l[i], d, b))
    PROVE  Turns(m, d, b, p, q)
<1>1. PICK f \in [0 .. Len(l) -> Int] :
        /\ f[0] = p /\ f[Len(l)] = q
        /\ \A i \in 1 .. Len(l) :
              IF ModOn(l[i], d, b) THEN l[i].page = f[i - 1] /\ f[i] = After(l[i]) ELSE f[i] = f[i - 1]
  BY DEF Turns
<1>2. ASSUME NEW i \in 1 .. Len(m)
      PROVE  IF ModOn(m[i], d, b) THEN m[i].page = f[i - 1] /\ f[i] = After(m[i]) ELSE f[i] = f[i - 1]
  <2>1. i \in 1 .. Len(l)
    OBVIOUS
  <2>2. CASE m[i] = l[i]
    BY <1>1, <2>1, <2>2
  <2>3. CASE ~ModOn(m[i], d, b) /\ ~ModOn(l[i], d, b)
    BY <1>1, <2>1, <2>3
  <2>. QED
    BY <2>1, <2>2, <2>3
<1>. QED
  BY <1>1, <1>2 DEF Turns

\* The first request that changes the block leaves the list.
LEMMA TurnsFirstOut ==
    ASSUME NEW l, NEW m, Len(l) \in Nat, Len(m) = Len(l), NEW d, NEW b, NEW p, NEW q, Turns(l, d, b, p, q),
           NEW k \in 1 .. Len(l), ModOn(l[k], d, b), ~ModOn(m[k], d, b),
           \A j \in 1 .. k - 1 : ~ModOn(l[j], d, b),
           \A i \in 1 .. Len(l) : i # k => m[i] = l[i]
    PROVE  Turns(m, d, b, After(l[k]), q)
<1>1. PICK f \in [0 .. Len(l) -> Int] :
        /\ f[0] = p /\ f[Len(l)] = q
        /\ \A i \in 1 .. Len(l) :
              IF ModOn(l[i], d, b) THEN l[i].page = f[i - 1] /\ f[i] = After(l[i]) ELSE f[i] = f[i - 1]
  BY DEF Turns
<1>2. f[k] = After(l[k]) /\ k \in 0 .. Len(l)
  BY <1>1
<1>3. PICK x \in Int : x = After(l[k])
  BY <1>2
<1> DEFINE g == [i \in 0 .. Len(m) |-> IF i < k THEN x ELSE f[i]]
<1>4. g \in [0 .. Len(m) -> Int]
  OBVIOUS
<1>5. (\A i \in 0 .. Len(m) : i < k => g[i] = x) /\ (\A i \in 0 .. Len(m) : ~(i < k) => g[i] = f[i])
  OBVIOUS
<1> HIDE DEF g
<1>6. g[0] = x /\ g[Len(m)] = q
  <2>1. 0 \in 0 .. Len(m) /\ 0 < k /\ Len(m) \in 0 .. Len(m) /\ ~(Len(m) < k)
    OBVIOUS
  <2>. QED
    BY <1>1, <1>5, <2>1
<1>7. ASSUME NEW i \in 1 .. Len(m)
      PROVE  IF ModOn(m[i], d, b) THEN m[i].page = g[i - 1] /\ g[i] = After(m[i]) ELSE g[i] = g[i - 1]
  <2>1. i \in 1 .. Len(l) /\ i \in 0 .. Len(m) /\ i - 1 \in 0 .. Len(m)
    OBVIOUS
  <2>2. CASE i < k
    <3>1. i \in 1 .. k - 1 /\ i # k /\ i - 1 < k
      BY <2>2
    <3>2. ~ModOn(m[i], d, b)
      BY <2>1, <3>1
    <3>. QED
      BY <1>5, <2>1, <2>2, <3>1, <3>2
  <2>3. CASE i = k
    <3>1. i - 1 < k /\ ~(i < k)
      BY <2>3
    <3>2. g[i - 1] = x /\ g[i] = f[k]
      BY <1>5, <2>1, <2>3, <3>1
    <3>. QED
      BY <1>2, <1>3, <2>3, <3>2
  <2>4. CASE i > k
    <3>1. ~(i < k) /\ ~(i - 1 < k) /\ i # k
      BY <2>4
    <3>2. g[i - 1] = f[i - 1] /\ g[i] = f[i] /\ m[i] = l[i]
      BY <1>5, <2>1, <3>1
    <3>. QED
      BY <1>1, <2>1, <3>2
  <2>. QED
    BY <2>1, <2>2, <2>3, <2>4
<1>8. Turns(m, d, b, x, q)
  BY <1>4, <1>6, <1>7 DEF Turns
<1>. QED
  BY <1>3, <1>8

\* A request that changes nothing of the block leaves the list.
LEMMA TurnsRemove ==
    ASSUME NEW l, NEW m, Len(l) \in Nat, NEW k \in 1 .. Len(l), Len(m) = Len(l) - 1,
           \A j \in 1 .. Len(l) - 1 : m[j] = IF j < k THEN l[j] ELSE l[j + 1],
           NEW d, NEW b, NEW p, NEW q, Turns(l, d, b, p, q), ~ModOn(l[k], d, b)
    PROVE  Turns(m, d, b, p, q)
<1>1. PICK f \in [0 .. Len(l) -> Int] :
        /\ f[0] = p /\ f[Len(l)] = q
        /\ \A i \in 1 .. Len(l) :
              IF ModOn(l[i], d, b) THEN l[i].page = f[i - 1] /\ f[i] = After(l[i]) ELSE f[i] = f[i - 1]
  BY DEF Turns
<1>2. f[k] = f[k - 1]
  BY <1>1
<1> DEFINE g == [i \in 0 .. Len(m) |-> IF i < k THEN f[i] ELSE f[i + 1]]
<1>3. g \in [0 .. Len(m) -> Int]
  <2>1. \A i \in 0 .. Len(m) : i \in 0 .. Len(l) /\ i + 1 \in 0 .. Len(l)
    OBVIOUS
  <2>. QED
    BY <2>1
<1>4. (\A i \in 0 .. Len(m) : i < k => g[i] = f[i]) /\ (\A i \in 0 .. Len(m) : ~(i < k) => g[i] = f[i + 1])
  OBVIOUS
<1> HIDE DEF g
<1>5. g[0] = p /\ g[Len(m)] = q
  <2>1. 0 \in 0 .. Len(m) /\ 0 < k /\ Len(m) \in 0 .. Len(m) /\ Len(m) + 1 = Len(l)
    OBVIOUS
  <2>2. g[0] = p
    BY <1>1, <1>4, <2>1
  <2>3. CASE Len(m) < k
    <3>1. Len(l) = k /\ Len(m) = k - 1
      BY <2>3
    <3>2. g[Len(m)] = f[k - 1]
      BY <1>4, <2>1, <2>3, <3>1
    <3>. QED
      BY <1>1, <1>2, <2>2, <3>1, <3>2
  <2>4. CASE ~(Len(m) < k)
    <3>1. g[Len(m)] = f[Len(l)]
      BY <1>4, <2>1, <2>4
    <3>. QED
      BY <1>1, <2>2, <3>1
  <2>. QED
    BY <2>3, <2>4
<1>6. ASSUME NEW i \in 1 .. Len(m)
      PROVE  IF ModOn(m[i], d, b) THEN m[i].page = g[i - 1] /\ g[i] = After(m[i]) ELSE g[i] = g[i - 1]
  <2>1. i \in 1 .. Len(l) - 1 /\ i \in 1 .. Len(l) /\ i + 1 \in 1 .. Len(l) /\ i \in 0 .. Len(m) /\ i - 1 \in 0 .. Len(m)
        /\ (i + 1) - 1 = i /\ (i - 1) + 1 = i
    OBVIOUS
  <2>2. CASE i < k
    <3>1. i - 1 < k
      BY <2>2
    <3>2. m[i] = l[i] /\ g[i] = f[i] /\ g[i - 1] = f[i - 1]
      BY <1>4, <2>1, <2>2, <3>1
    <3>. QED
      BY <1>1, <2>1, <3>2
  <2>3. CASE i = k
    <3>1. i - 1 < k /\ ~(i < k)
      BY <2>3
    <3>2. m[i] = l[i + 1] /\ g[i] = f[i + 1] /\ g[i - 1] = f[k - 1]
      BY <1>4, <2>1, <2>3, <3>1
    <3>3. g[i - 1] = f[(i + 1) - 1]
      BY <1>2, <2>1, <2>3, <3>2
    <3>. QED
      BY <1>1, <2>1, <3>2, <3>3
  <2>4. CASE i > k
    <3>1. ~(i < k) /\ ~(i - 1 < k)
      BY <2>4
    <3>2. m[i] = l[i + 1] /\ g[i] = f[i + 1] /\ g[i - 1] = f[i]
      BY <1>4, <2>1, <3>1
    <3>. QED
      BY <1>1, <2>1, <3>2
  <2>. QED
    BY <2>1, <2>2, <2>3, <2>4
<1>. QED
  BY <1>3, <1>5, <1>6 DEF Turns

\* The requests of a list that are in W, the others replaced by none.
Mask(l, r, W) == [i \in 1 .. Len(l) |-> IF l[i] \in W THEN r[l[i]] ELSE NoReq]
\* The requests that wait, or are about to be put on a queue.
WaitSet == {s \in Slots : Blocked(s) \/ s = selecting}

\* The list keeps its length, and none changes nothing of a block.
LEMMA MaskIs ==
    ASSUME NEW l \in Seq(Slots), NEW r, NEW W
    PROVE  /\ Len(l) \in Nat /\ Len(Mask(l, r, W)) = Len(l)
           /\ \A i \in 1 .. Len(l) : Mask(l, r, W)[i] = IF l[i] \in W THEN r[l[i]] ELSE NoReq
           /\ \A d, b : ~ModOn(NoReq, d, b)
<1>1. Len(l) \in Nat
  BY LenProperties
<1>2. Mask(l, r, W) \in Seq({r[x] : x \in Slots} \cup {NoReq}) /\ Len(Mask(l, r, W)) = Len(l)
  <2>1. \A i \in 1 .. Len(l) : l[i] \in Slots
    BY ElementOfSeq
  <2>. QED
    BY <1>1, <2>1, IsASeq DEF Mask
<1>3. \A d, b : ~ModOn(NoReq, d, b)
  BY DEF NoReq, ModOn, ModCodes
<1>. QED
  BY <1>1, <1>2, <1>3 DEF Mask

\* The waiting requests, in the order they were asked for, take the blocks on from
\* what the table permits, and what is still to be asked for to the pages of the mapping.
WaitInv ==
    \A d \in Dies, b \in Blocks : \E m :
        /\ Turns(Mask(order, req, WaitSet), d, b, rowDep[d][b].permittedProgPage, m)
        /\ Turns(todo, d, b, m, currentPage[d][b])

\* No two of them program the same page or erase the same block.
WaitDistinct ==
    \A s, t \in WaitSet : \A d, b :
        ModOn(req[s], d, b) /\ ModOn(req[t], d, b) /\ req[s].page = req[t].page => s = t

\* What waits has been asked for.
LEMMA WaitLive ==
    ASSUME Base, OrderInv, NEW s \in WaitSet
    PROVE  s \in Slots /\ Live(s) /\ InList(order, s)
<1>1. s \in Slots /\ (Blocked(s) \/ s = selecting) /\ s # NONE
  BY GeometryAssumption DEF WaitSet
<1>2. Live(s)
  BY <1>1 DEF Base, TagsInv
<1>. QED
  BY <1>1, <1>2 DEF OrderInv

\* The one whose turn it is, by the number of its page, is the first of its block that
\* waits: no two have the same number.
LEMMA FirstWaiting ==
    ASSUME Base, OrderInv, WaitDistinct, NEW d, NEW b, NEW p, NEW m, Turns(Mask(order, req, WaitSet), d, b, p, m),
           NEW s \in WaitSet, ModOn(req[s], d, b), req[s].page = p
    PROVE  \E k \in 1 .. Len(order) :
              /\ order[k] = s
              /\ \A j \in 1 .. k - 1 : ~(order[j] \in WaitSet /\ ModOn(req[order[j]], d, b))
<1>1. order \in Seq(Slots) /\ InList(order, s)
  BY OrderTyped, WaitLive
<1>2. PICK l : l = Mask(order, req, WaitSet)
  OBVIOUS
<1>3. /\ Len(order) \in Nat /\ Len(l) = Len(order) /\ ~ModOn(NoReq, d, b)
      /\ \A i \in 1 .. Len(order) : l[i] = IF order[i] \in WaitSet THEN req[order[i]] ELSE NoReq
  BY <1>1, <1>2, MaskIs
<1>4. Turns(l, d, b, p, m)
  BY <1>2
<1>5. PICK T : T = {i \in 1 .. Len(order) : order[i] \in WaitSet /\ ModOn(req[order[i]], d, b)}
  OBVIOUS
<1>6. T \in SUBSET Nat /\ T # {}
  BY <1>1, <1>5 DEF InList
<1>7. PICK k \in T : \A y \in T : k <= y
  BY <1>6, SmallestOf
<1>8. k \in 1 .. Len(order) /\ order[k] \in WaitSet /\ ModOn(req[order[k]], d, b)
  BY <1>5
<1>9. ASSUME NEW j \in 1 .. k - 1
      PROVE  j \in 1 .. Len(order) /\ ~(order[j] \in WaitSet /\ ModOn(req[order[j]], d, b))
  <2>1. j \in 1 .. Len(order) /\ ~(k <= j)
    BY <1>3, <1>8
  <2>. QED
    BY <1>5, <1>7, <2>1
<1>10. \A j \in 1 .. k - 1 : ~ModOn(l[j], d, b)
  BY <1>3, <1>9
<1>11. l[k] = req[order[k]]
  BY <1>3, <1>8
<1>12. ModOn(l[k], d, b) => l[k].page = p
  <2>1. Len(l) \in Nat /\ k \in 1 .. Len(l)
    BY <1>3, <1>8
  <2>. QED
    BY <1>4, <1>10, <2>1, TurnsFirst
<1>13. order[k] = s
  BY <1>8, <1>11, <1>12 DEF WaitDistinct
<1>. QED
  BY <1>8, <1>9, <1>13

\* What waits after request s has gone to queue q.
LEMMA MoveWaiting ==
    ASSUME Base, OrderInv, WaitDistinct, NEW s \in WaitSet, NEW q, NEW W,
           W = IF q \in {"bufDep", "rowDep"} THEN WaitSet ELSE WaitSet \ {s},
           q \in {"bufDep", "rowDep", "nand"} \/ IsDma(s),
           NEW d \in Dies, NEW b \in Blocks, NEW m,
           q = "nand" /\ IsMod(s) => req[s].page = Row(s).permittedProgPage,
           rowDep'[d][b].permittedProgPage =
                IF q = "nand" /\ IsMod(s) /\ OnRow(s, d, b) THEN After(req[s]) ELSE rowDep[d][b].permittedProgPage,
           Turns(Mask(order, req, WaitSet), d, b, rowDep[d][b].permittedProgPage, m)
    PROVE  Turns(Mask(order, req, W), d, b, rowDep'[d][b].permittedProgPage, m)
<1>1. order \in Seq(Slots) /\ Distinct(order) /\ s \in Slots
  BY OrderTyped, WaitLive DEF OrderInv
<1>2. ModOn(req[s], d, b) <=> IsMod(s) /\ OnRow(s, d, b)
  BY DEF ModOn, IsMod, OnRow
<1>3. PICK l, n, p : l = Mask(order, req, WaitSet) /\ n = Mask(order, req, W) /\ p = rowDep[d][b].permittedProgPage
  OBVIOUS
<1>4. /\ Len(order) \in Nat /\ Len(l) = Len(order) /\ ~ModOn(NoReq, d, b)
      /\ \A i \in 1 .. Len(order) : l[i] = IF order[i] \in WaitSet THEN req[order[i]] ELSE NoReq
  BY <1>1, <1>3, MaskIs
<1>5. /\ Len(n) = Len(order)
      /\ \A i \in 1 .. Len(order) : n[i] = IF order[i] \in W THEN req[order[i]] ELSE NoReq
  BY <1>1, <1>3, MaskIs
<1>6. Turns(l, d, b, p, m)
  BY <1>3
<1>7. CASE q \in {"bufDep", "rowDep"}
  <2>1. W = WaitSet /\ rowDep'[d][b].permittedProgPage = p
    BY <1>3, <1>7
  <2>. QED
    BY <1>3, <1>6, <2>1
<1>8. CASE q \notin {"bufDep", "rowDep"} /\ ~ModOn(req[s], d, b)
  <2>1. W = WaitSet \ {s} /\ rowDep'[d][b].permittedProgPage = p
    BY <1>2, <1>3, <1>8
  <2>2. ASSUME NEW i \in 1 .. Len(l)
        PROVE  n[i] = l[i] \/ (~ModOn(n[i], d, b) /\ ~ModOn(l[i], d, b))
    BY <1>4, <1>5, <1>8, <2>1
  <2>3. Turns(n, d, b, p, m)
    BY <1>4, <1>5, <1>6, <2>2, TurnsSame
  <2>. QED
    BY <1>3, <2>1, <2>3
<1>9. CASE q \notin {"bufDep", "rowDep"} /\ ModOn(req[s], d, b)
  <2>1. q = "nand" /\ IsMod(s) /\ OnRow(s, d, b)
    <3>1. ~IsDma(s)
      BY <1>9 DEF IsDma, ModOn, ModCodes
    <3>. QED
      BY <1>2, <1>9, <3>1
  <2>2. rowDep'[d][b].permittedProgPage = After(req[s]) /\ W = WaitSet \ {s} /\ req[s].page = p
    <3>1. Row(s) = rowDep[d][b]
      BY <2>1 DEF Row, OnRow
    <3>. QED
      BY <1>3, <1>9, <2>1, <3>1
  <2>3. PICK k \in 1 .. Len(order) :
              /\ order[k] = s
              /\ \A j \in 1 .. k - 1 : ~(order[j] \in WaitSet /\ ModOn(req[order[j]], d, b))
    BY <1>3, <1>6, <1>9, <2>2, FirstWaiting
  <2>4. /\ k \in 1 .. Len(l) /\ l[k] = req[s] /\ ~ModOn(n[k], d, b)
        /\ \A j \in 1 .. k - 1 : ~ModOn(l[j], d, b)
    <3>1. \A j \in 1 .. k - 1 : j \in 1 .. Len(order)
      BY <1>4, <2>3
    <3>. QED
      BY <1>4, <1>5, <2>2, <2>3, <3>1
  <2>5. ASSUME NEW i \in 1 .. Len(l), i # k
        PROVE  n[i] = l[i]
    <3>1. order[i] # s
      BY <1>1, <1>4, <2>3, <2>5 DEF Distinct
    <3>. QED
      BY <1>4, <1>5, <2>2, <3>1
  <2>6. Turns(n, d, b, After(l[k]), m)
    BY <1>4, <1>5, <1>6, <1>9, <2>4, <2>5, TurnsFirstOut
  <2>. QED
    BY <1>3, <2>2, <2>4, <2>6
<1>. QED
  BY <1>7, <1>8, <1>9

\* A finished request leaves the order.
LEMMA RemoveWaiting ==
    ASSUME Base, OrderInv, NEW s \in Slots, InList(order, s), NEW W, s \notin W, NEW r, r = [req EXCEPT ![s] = NoReq],
           NEW o, o = Without(order, s),
           NEW d, NEW b, NEW p, NEW m, Turns(Mask(order, req, W), d, b, p, m)
    PROVE  Turns(Mask(o, r, W), d, b, p, m)
<1>1. order \in Seq(Slots) /\ Distinct(order) /\ req \in [Slots -> Proper \cup {NoReq}]
  BY OrderTyped DEF OrderInv
<1>2. PICK k \in 1 .. Len(order) : k = (CHOOSE i \in 1 .. Len(order) : order[i] = s) /\ order[k] = s
  BY DEF InList
<1>3. Len(order) \in Nat /\ o \in Seq(Slots) /\ o = RemoveAtIndex(order, k)
  <2>1. o = RemoveAtIndex(order, k)
    BY <1>2 DEF Without, Unlink
  <2>2. o \in Seq(Slots)
    BY <1>1, <2>1, RemoveAtIndexProperties
  <2>. QED
    BY <1>1, <2>1, <2>2, LenProperties
<1>4. /\ Len(o) = Len(order) - 1
      /\ \A j \in 1 .. Len(order) - 1 : o[j] = IF j < k THEN order[j] ELSE order[j + 1]
  BY <1>1, <1>3, RemoveAtIndexProperties
<1>5. PICK l, n : l = Mask(order, req, W) /\ n = Mask(o, r, W)
  OBVIOUS
<1>6. /\ Len(l) = Len(order) /\ ~ModOn(NoReq, d, b)
      /\ \A i \in 1 .. Len(order) : l[i] = IF order[i] \in W THEN req[order[i]] ELSE NoReq
  BY <1>1, <1>5, MaskIs
<1>7. /\ Len(n) = Len(o)
      /\ \A i \in 1 .. Len(o) : n[i] = IF o[i] \in W THEN r[o[i]] ELSE NoReq
  <2>1. /\ Len(Mask(o, r, W)) = Len(o)
        /\ \A i \in 1 .. Len(o) : Mask(o, r, W)[i] = IF o[i] \in W THEN r[o[i]] ELSE NoReq
    BY ONLY <1>3, MaskIs
  <2>. QED
    BY <1>5, <2>1, Zenon
<1>8. \A x \in Slots : x # s => r[x] = req[x]
  BY <1>1
<1>9. \A i \in 1 .. Len(order) : order[i] \in Slots
  BY <1>1, ElementOfSeq
<1>10. ASSUME NEW j \in 1 .. Len(l) - 1
       PROVE  n[j] = IF j < k THEN l[j] ELSE l[j + 1]
  <2>1. j \in 1 .. Len(order) /\ j + 1 \in 1 .. Len(order) /\ j \in 1 .. Len(o) /\ j \in 1 .. Len(order) - 1
    BY <1>3, <1>4, <1>6
  <2>2. CASE j < k
    <3>1. o[j] = order[j] /\ order[j] \in Slots
      BY <1>4, <1>9, <2>1, <2>2
    <3>2. order[j] \in W => r[order[j]] = req[order[j]]
      BY <1>8, <3>1
    <3>. QED
      BY <1>6, <1>7, <2>1, <2>2, <3>1, <3>2
  <2>3. CASE ~(j < k)
    <3>1. o[j] = order[j + 1] /\ order[j + 1] \in Slots
      BY <1>4, <1>9, <2>1, <2>3
    <3>2. order[j + 1] \in W => r[order[j + 1]] = req[order[j + 1]]
      BY <1>8, <3>1
    <3>. QED
      BY <1>6, <1>7, <2>1, <2>3, <3>1, <3>2
  <2>. QED
    BY <2>2, <2>3
<1>11. ~ModOn(l[k], d, b) /\ k \in 1 .. Len(l) /\ Len(l) \in Nat /\ Len(n) = Len(l) - 1
  BY <1>2, <1>3, <1>4, <1>6, <1>7
<1>12. Turns(l, d, b, p, m)
  BY <1>5
<1>13. Turns(n, d, b, p, m)
  BY <1>10, <1>11, <1>12, TurnsRemove
<1>. QED
  BY <1>5, <1>13

\* The requests that wait once request s has gone to queue q.
WaitSetAfter(s, q) == IF q \in {"bufDep", "rowDep"} THEN WaitSet ELSE WaitSet \ {s}

\* A request that goes to a queue keeps those that wait in line with their blocks.
LEMMA MoveKeepsWaits ==
    ASSUME Base, OrderInv, WaitInv, WaitDistinct, NEW s \in WaitSet, NEW q,
           q \in {"bufDep", "rowDep", "nand"} \/ IsDma(s),
           q = "nand" /\ IsMod(s) => req[s].page = Row(s).permittedProgPage,
           \A d \in Dies, b \in Blocks : rowDep'[d][b].permittedProgPage =
                IF q = "nand" /\ IsMod(s) /\ OnRow(s, d, b) THEN After(req[s]) ELSE rowDep[d][b].permittedProgPage,
           UNCHANGED <<todo, currentPage>>
    PROVE  \A d \in Dies, b \in Blocks : \E m :
              /\ Turns(Mask(order, req, WaitSetAfter(s, q)), d, b, rowDep'[d][b].permittedProgPage, m)
              /\ Turns(todo', d, b, m, currentPage'[d][b])
<1> SUFFICES ASSUME NEW d \in Dies, NEW b \in Blocks
             PROVE  \E m : /\ Turns(Mask(order, req, WaitSetAfter(s, q)), d, b, rowDep'[d][b].permittedProgPage, m)
                           /\ Turns(todo', d, b, m, currentPage'[d][b])
  OBVIOUS
<1>1. PICK m : /\ Turns(Mask(order, req, WaitSet), d, b, rowDep[d][b].permittedProgPage, m)
               /\ Turns(todo, d, b, m, currentPage[d][b])
  BY DEF WaitInv
<1>2. PICK W : W = WaitSetAfter(s, q)
  OBVIOUS
<1>3. W = IF q \in {"bufDep", "rowDep"} THEN WaitSet ELSE WaitSet \ {s}
  BY <1>2 DEF WaitSetAfter
<1>4. rowDep'[d][b].permittedProgPage =
          IF q = "nand" /\ IsMod(s) /\ OnRow(s, d, b) THEN After(req[s]) ELSE rowDep[d][b].permittedProgPage
  OBVIOUS
<1>5. Turns(Mask(order, req, W), d, b, rowDep'[d][b].permittedProgPage, m)
  BY <1>1, <1>3, <1>4, MoveWaiting
<1>. QED
  BY <1>1, <1>2, <1>5

\* Fewer requests wait, and those that do ask for what they asked for.
LEMMA FewerWaits ==
    ASSUME WaitDistinct, WaitSet' \subseteq WaitSet, \A s \in WaitSet' : req'[s] = req[s]
    PROVE  WaitDistinct'
<1> SUFFICES ASSUME NEW s \in WaitSet', NEW t \in WaitSet', NEW d, NEW b,
                    ModOn(req'[s], d, b), ModOn(req'[t], d, b), req'[s].page = req'[t].page
             PROVE  s = t
  BY DEF WaitDistinct
<1>1. s \in WaitSet /\ t \in WaitSet /\ req'[s] = req[s] /\ req'[t] = req[t]
  OBVIOUS
<1>. QED
  BY <1>1 DEF WaitDistinct

\* So they are kept when nothing happens to a request,
LEMMA QuietWaits ==
    ASSUME Base, WaitInv, WaitDistinct, Quiet, TodoKept
    PROVE  WaitInv' /\ WaitDistinct'
<1>1. UNCHANGED <<req, order, rowDep, selecting>>
  BY DEF Quiet, queues
<1>2. WaitSet' = WaitSet
  <2>1. \A s \in Slots : Blocked(s)' <=> Blocked(s)
    BY DEF Quiet, Blocked
  <2>. QED
    BY <1>1, <2>1 DEF WaitSet
<1>3. WaitDistinct'
  BY <1>1, <1>2, FewerWaits
<1>4. ASSUME NEW d \in Dies, NEW b \in Blocks
      PROVE  \E m : /\ Turns(Mask(order, req, WaitSet), d, b, rowDep[d][b].permittedProgPage, m)
                    /\ Turns(todo', d, b, m, currentPage'[d][b])
  BY DEF WaitInv, TodoKept
<1>5. Mask(order', req', WaitSet') = Mask(order, req, WaitSet)
  BY <1>1, <1>2
<1>6. WaitInv'
  BY <1>1, <1>4, <1>5 DEF WaitInv
<1>. QED
  BY <1>3, <1>6

\* when the CPU puts one on a queue,
LEMMA SelectWaits ==
    ASSUME Base, OrderInv, WaitInv, WaitDistinct, NEW s, NEW q, Selects(s, q)
    PROVE  WaitInv' /\ WaitDistinct' /\ WaitSet' = WaitSetAfter(s, q) /\ s \in WaitSet
<1>1. /\ s = selecting /\ s \in Slots /\ q \in {"dma", "nand", "rowDep", "bufDep"}
      /\ q = "dma" => IsDma(s)
      /\ queue[s] = "cpu"
  BY DEF Selects
<1>2. /\ queue' = [queue EXCEPT ![s] = q] /\ selecting' = NONE
      /\ UNCHANGED <<req, order, todo, currentPage>>
  BY DEF Selects, Selected, ftl
<1>3. /\ q = "nand" /\ IsMod(s) => req[s].page = Row(s).permittedProgPage
      /\ \A d \in Dies, b \in Blocks : rowDep'[d][b].permittedProgPage =
            IF q = "nand" /\ IsMod(s) /\ OnRow(s, d, b) THEN After(req[s]) ELSE rowDep[d][b].permittedProgPage
  BY DEF Selects, RowMoves
<1>4. s \in WaitSet
  BY <1>1 DEF WaitSet
<1>5. WaitSet' = WaitSetAfter(s, q)
  <2>1. queue \in [Slots -> Queues] /\ NONE \notin Slots
    BY GeometryAssumption DEF Base, Typed, TypedRequests
  <2>2. ASSUME NEW x \in Slots
        PROVE  (Blocked(x)' \/ x = selecting') <=> x \in WaitSetAfter(s, q)
    <3>1. CASE x = s
      BY <1>1, <1>2, <1>4, <2>1, <3>1 DEF Blocked, WaitSetAfter
    <3>2. CASE x # s
      BY <1>1, <1>2, <2>1, <3>2 DEF Blocked, WaitSetAfter, WaitSet
    <3>. QED
      BY <3>1, <3>2
  <2>. QED
    BY <2>2 DEF WaitSetAfter, WaitSet
<1>6. \A d \in Dies, b \in Blocks : \E m :
              /\ Turns(Mask(order, req, WaitSetAfter(s, q)), d, b, rowDep'[d][b].permittedProgPage, m)
              /\ Turns(todo', d, b, m, currentPage'[d][b])
  BY <1>1, <1>2, <1>3, <1>4, MoveKeepsWaits
<1>7. Mask(order', req', WaitSet') = Mask(order, req, WaitSetAfter(s, q))
  BY <1>2, <1>5
<1>8. WaitInv'
  BY <1>6, <1>7 DEF WaitInv
<1>9. WaitDistinct'
  <2>1. WaitSet' \subseteq WaitSet
    BY <1>5 DEF WaitSetAfter
  <2>. QED
    BY <1>2, <2>1, FewerWaits
<1>. QED
  BY <1>4, <1>5, <1>8, <1>9

\* when one is released to its die,
LEMMA ReleaseWaits ==
    ASSUME Base, OrderInv, WaitInv, WaitDistinct, NEW s, RowReleases(s)
    PROVE  WaitInv' /\ WaitDistinct' /\ WaitSet' = WaitSet \ {s} /\ s \in WaitSet
<1>1. s \in Slots /\ queue[s] = "rowDep" /\ s # selecting /\ queue' = [queue EXCEPT ![s] = "nand"]
      /\ UNCHANGED <<req, order, todo, currentPage, selecting>>
  BY DEF RowReleases, cpu, ftl
<1>2. /\ IsMod(s) => req[s].page = Row(s).permittedProgPage
      /\ \A d \in Dies, b \in Blocks : rowDep'[d][b].permittedProgPage =
            IF IsMod(s) /\ OnRow(s, d, b) THEN After(req[s]) ELSE rowDep[d][b].permittedProgPage
  BY DEF RowReleases, RowMoves
<1>3. s \in WaitSet
  BY <1>1 DEF WaitSet, Blocked
<1>4. WaitSet' = WaitSet \ {s}
  <2>1. queue \in [Slots -> Queues]
    BY DEF Base, Typed, TypedRequests
  <2>2. ASSUME NEW x \in Slots
        PROVE  (Blocked(x)' \/ x = selecting') <=> x \in WaitSet \ {s}
    BY <1>1, <2>1 DEF Blocked, WaitSet
  <2>. QED
    BY <2>2 DEF WaitSet
<1>5. PICK q : q = "nand"
  OBVIOUS
<1>6. WaitSetAfter(s, q) = WaitSet \ {s}
  BY <1>5 DEF WaitSetAfter
<1>7. \A d \in Dies, b \in Blocks : \E m :
              /\ Turns(Mask(order, req, WaitSetAfter(s, q)), d, b, rowDep'[d][b].permittedProgPage, m)
              /\ Turns(todo', d, b, m, currentPage'[d][b])
  BY <1>1, <1>2, <1>3, <1>5, MoveKeepsWaits
<1>8. Mask(order', req', WaitSet') = Mask(order, req, WaitSetAfter(s, q))
  BY <1>1, <1>4, <1>6
<1>9. WaitInv'
  BY <1>7, <1>8 DEF WaitInv
<1>10. WaitDistinct'
  BY <1>1, <1>4, FewerWaits
<1>. QED
  BY <1>3, <1>4, <1>9, <1>10

\* when one ends and the next of its buffer is released,
LEMMA FinishWaits ==
    ASSUME Base, OrderInv, WaitInv, WaitDistinct, NEW s, NEW dma0, NEW nand0, Finishes(s, dma0, nand0),
           NEW t, t = nextBlockingReq[s], UNCHANGED <<cpu, ftl>>
    PROVE  /\ WaitInv' /\ WaitDistinct' /\ s \notin WaitSet
           /\ Released(s) => t \in WaitSet /\ WaitSet' = WaitSetAfter(t, ReleasedTo(t))
           /\ ~Released(s) => WaitSet' = WaitSet
<1>1. s \in Slots /\ queue[s] \in {"nand", "dma"} /\ queue \in [Slots -> Queues]
      /\ UNCHANGED <<todo, currentPage, selecting>>
  BY DEF Finishes, Base, Typed, TypedRequests, cpu, ftl
<1>2. s # selecting /\ ~Blocked(s) /\ s \notin WaitSet /\ Live(s) /\ InList(order, s)
  <2>1. s # NONE
    BY <1>1, GeometryAssumption
  <2>2. s # selecting /\ ~Blocked(s) /\ Live(s)
    BY <1>1, <2>1 DEF Base, TagsInv, Blocked, Running
  <2>. QED
    BY <1>1, <2>2 DEF OrderInv, WaitSet
<1>3. PICK q : q = ReleasedTo(t)
  OBVIOUS
<1>4. req' = [req EXCEPT ![s] = NoReq] /\ order' = Without(order, s)
  BY <1>3, FinishIs DEF Base, Typed
<1>5. Released(s) =>
                /\ t \in Slots /\ t # s /\ Live(t) /\ queue[t] = "bufDep" /\ t # selecting
                /\ queue' = [queue EXCEPT ![s] = "free", ![t] = q]
                /\ q \in {"dma", "nand", "rowDep"}
                /\ q = "dma" <=> IsDma(t)
  BY <1>3, FinishIs, Zenon DEF Base, Typed
<1>6. ~Released(s) => queue' = [queue EXCEPT ![s] = "free"] /\ UNCHANGED rowDep
  BY <1>3, FinishIs, Zenon DEF Base, Typed
<1>7. ASSUME Released(s)
      PROVE  RowMoves(t, q)
  BY <1>3, <1>7, FinishIs, Zenon DEF Base, Typed
<1>8. ASSUME Released(s)
      PROVE  /\ q = "nand" /\ IsMod(t) => req[t].page = Row(t).permittedProgPage
             /\ \A d \in Dies, b \in Blocks : rowDep'[d][b].permittedProgPage =
                   IF q = "nand" /\ IsMod(t) /\ OnRow(t, d, b) THEN After(req[t]) ELSE rowDep[d][b].permittedProgPage
  BY <1>7, <1>8 DEF RowMoves
<1>9. PICK W : W = IF Released(s) THEN WaitSetAfter(t, q) ELSE WaitSet
  OBVIOUS
<1>10. WaitSet' = W /\ W \subseteq WaitSet /\ s \notin W
  <2>1. CASE Released(s)
    <3>1. W = WaitSetAfter(t, q)
      BY <1>9, <2>1
    <3>2. ASSUME NEW x \in Slots
          PROVE  (Blocked(x)' \/ x = selecting') <=> x \in WaitSetAfter(t, q)
      <4>1. CASE x = s
        BY <1>1, <1>2, <1>5, <2>1, <4>1 DEF Blocked, WaitSetAfter, WaitSet
      <4>2. CASE x = t
        BY <1>1, <1>2, <1>5, <2>1, <4>2 DEF Blocked, WaitSetAfter, WaitSet
      <4>3. CASE x # s /\ x # t
        BY <1>1, <1>2, <1>5, <2>1, <4>3 DEF Blocked, WaitSetAfter, WaitSet
      <4>. QED
        BY <4>1, <4>2, <4>3
    <3>. QED
      BY <1>2, <3>1, <3>2 DEF WaitSetAfter, WaitSet
  <2>2. CASE ~Released(s)
    <3>1. W = WaitSet
      BY <1>9, <2>2
    <3>2. ASSUME NEW x \in Slots
          PROVE  (Blocked(x)' \/ x = selecting') <=> x \in WaitSet
      BY <1>1, <1>2, <1>6, <2>2 DEF Blocked, WaitSet
    <3>. QED
      BY <1>2, <3>1, <3>2 DEF WaitSet
  <2>. QED
    BY <2>1, <2>2
<1>11. WaitDistinct'
  <2>1. req \in [Slots -> Proper \cup {NoReq}] /\ WaitSet' \subseteq Slots
    BY DEF Base, Typed, TypedRequests, WaitSet
  <2>2. \A x \in WaitSet' : req'[x] = req[x]
    BY <1>4, <1>10, <2>1
  <2>. QED
    BY <1>10, <2>2, FewerWaits
<1>12. \A d \in Dies, b \in Blocks : \E m :
              /\ Turns(Mask(order, req, W), d, b, rowDep'[d][b].permittedProgPage, m)
              /\ Turns(todo', d, b, m, currentPage'[d][b])
  <2>1. CASE Released(s)
    <3>1. t \in WaitSet
      BY <1>5, <2>1 DEF WaitSet, Blocked
    <3>2. q \in {"bufDep", "rowDep", "nand"} \/ IsDma(t)
      BY <1>5, <2>1
    <3>3. UNCHANGED <<todo, currentPage>>
      BY <1>1
    <3>4. \A d \in Dies, b \in Blocks : \E m :
              /\ Turns(Mask(order, req, WaitSetAfter(t, q)), d, b, rowDep'[d][b].permittedProgPage, m)
              /\ Turns(todo', d, b, m, currentPage'[d][b])
      BY <1>8, <2>1, <3>1, <3>2, <3>3, MoveKeepsWaits
    <3>. QED
      BY <1>9, <2>1, <3>4
  <2>2. CASE ~Released(s)
    <3>1. W = WaitSet
      BY <1>9, <2>2
    <3>. QED
      BY <1>1, <1>6, <2>2, <3>1 DEF WaitInv
  <2>. QED
    BY <2>1, <2>2
<1>13. ASSUME NEW d \in Dies, NEW b \in Blocks
       PROVE  \E m : /\ Turns(Mask(order', req', WaitSet'), d, b, rowDep'[d][b].permittedProgPage, m)
                     /\ Turns(todo', d, b, m, currentPage'[d][b])
  <2>1. PICK m, p : /\ p = rowDep'[d][b].permittedProgPage
                    /\ Turns(Mask(order, req, W), d, b, p, m)
                    /\ Turns(todo', d, b, m, currentPage'[d][b])
    BY <1>12
  <2>2. PICK r, o : r = [req EXCEPT ![s] = NoReq] /\ o = Without(order, s)
    OBVIOUS
  <2>3. Turns(Mask(o, r, W), d, b, p, m)
    BY <1>1, <1>2, <1>10, <2>1, <2>2, RemoveWaiting
  <2>. QED
    BY <1>4, <1>10, <2>1, <2>2, <2>3
<1>14. WaitInv'
  BY <1>13 DEF WaitInv
<1>15. Released(s) => t \in WaitSet
  BY <1>5 DEF WaitSet, Blocked
<1>. QED
  BY <1>2, <1>3, <1>9, <1>10, <1>11, <1>14, <1>15

\* and when a new one comes, unless the page or the erase it asks for still waits.
LEMMA CreateWaits ==
    ASSUME Base, OrderInv, WaitInv, WaitDistinct, ~RefilledBeforeErase, NEW s, Creates(s)
    PROVE  WaitInv' /\ WaitDistinct' /\ WaitSet' = WaitSet \cup {s} /\ s \notin WaitSet
<1>1. /\ s \in Slots /\ ~Live(s) /\ queue[s] \in {"free", "cpu"} /\ selecting = NONE
      /\ todo # <<>> /\ Head(todo) \in Proper /\ todo' = Tail(todo)
      /\ req' = [req EXCEPT ![s] = Head(todo)] /\ queue' = [queue EXCEPT ![s] = "cpu"] /\ selecting' = s
      /\ order' = Append(order, s)
      /\ UNCHANGED <<rowDep, currentPage>>
  BY DEF Creates, ftl
<1>2. /\ queue \in [Slots -> Queues] /\ req \in [Slots -> Proper \cup {NoReq}]
      /\ todo \in Seq(Proper \cup {Hold}) /\ NONE \notin Slots
  BY GeometryAssumption DEF Base, Typed, TypedRequests, TypedCpu
<1>3. s \notin WaitSet /\ ~InList(order, s) /\ order \in Seq(Slots)
  BY <1>1, <1>2, OrderTyped DEF WaitSet, Blocked, OrderInv
<1>4. WaitSet' = WaitSet \cup {s}
  <2>1. ASSUME NEW x \in Slots
        PROVE  (Blocked(x)' \/ x = selecting') <=> x \in WaitSet \cup {s}
    BY <1>1, <1>2 DEF Blocked, WaitSet
  <2>. QED
    BY <1>1, <2>1 DEF WaitSet
<1>5. PICK r : r = Head(todo)
  OBVIOUS
<1>6. Len(todo) \in Nat /\ Len(todo) > 0 /\ todo[1] = r /\ r \in Proper
      /\ req'[s] = r /\ \A x \in Slots : x # s => req'[x] = req[x]
  BY <1>1, <1>2, <1>5, LenProperties, HeadTailProperties
<1>7. WaitDistinct'
  <2> SUFFICES ASSUME NEW x \in WaitSet', NEW y \in WaitSet', NEW d, NEW b,
                      ModOn(req'[x], d, b), ModOn(req'[y], d, b), req'[x].page = req'[y].page
               PROVE  x = y
    BY DEF WaitDistinct
  <2>1. ASSUME NEW z \in WaitSet, ModOn(req[z], d, b), ModOn(r, d, b), req[z].page = r.page
        PROVE  FALSE
    <3>1. z \in Slots /\ queue[z] \in {"bufDep", "rowDep"}
      BY <1>1, <1>2, <2>1 DEF WaitSet, Blocked
    <3>2. req[z] \in Proper
      BY <1>2, <2>1, <3>1 DEF ModOn, ModCodes, NoReq
    <3>3. req[z].code = r.code
      <4>1. PAGES \notin Pages
        BY GeometryAssumption DEF Pages
      <4>. QED
        BY <1>6, <2>1, <3>2, <4>1 DEF Proper, ModOn, ModCodes
    <3>4. 1 \in 1 .. Len(todo)
      BY <1>6
    <3>. QED
      BY <1>6, <2>1, <3>1, <3>3, <3>4 DEF RefilledBeforeErase, ModOn, ModCodes
  <2>2. CASE x = s /\ y # s
    BY <1>4, <1>6, <2>1, <2>2 DEF WaitSet
  <2>3. CASE y = s /\ x # s
    BY <1>4, <1>6, <2>1, <2>3 DEF WaitSet
  <2>4. CASE x # s /\ y # s
    <3>1. x \in WaitSet /\ y \in WaitSet /\ req'[x] = req[x] /\ req'[y] = req[y]
      BY <1>4, <1>6, <2>4 DEF WaitSet
    <3>. QED
      BY <3>1 DEF WaitDistinct
  <2>. QED
    BY <2>2, <2>3, <2>4
<1>8. ASSUME NEW d \in Dies, NEW b \in Blocks
      PROVE  \E m : /\ Turns(Mask(order', req', WaitSet'), d, b, rowDep'[d][b].permittedProgPage, m)
                    /\ Turns(todo', d, b, m, currentPage'[d][b])
  <2>1. PICK m, p : /\ p = rowDep[d][b].permittedProgPage
                    /\ Turns(Mask(order, req, WaitSet), d, b, p, m)
                    /\ Turns(todo, d, b, m, currentPage[d][b])
    BY DEF WaitInv
  <2>2. /\ Len(Tail(todo)) = Len(todo) - 1
        /\ \A i \in 1 .. Len(todo) - 1 : Tail(todo)[i] = todo[i + 1]
    BY <1>1, <1>2
  <2>3. Turns(Tail(todo), d, b, NextPage(r, d, b, m), currentPage[d][b]) /\ (ModOn(r, d, b) => r.page = m)
    <3>1. /\ Turns(Tail(todo), d, b, NextPage(todo[1], d, b, m), currentPage[d][b])
          /\ ModOn(todo[1], d, b) => todo[1].page = m
      BY <1>6, <2>1, <2>2, TurnsTail
    <3>. QED
      BY <1>6, <3>1
  <2>4. PICK l, n : l = Mask(order, req, WaitSet) /\ n = Mask(order', req', WaitSet')
    OBVIOUS
  <2>5. /\ Len(order) \in Nat /\ Len(l) = Len(order)
        /\ \A i \in 1 .. Len(order) : l[i] = IF order[i] \in WaitSet THEN req[order[i]] ELSE NoReq
    BY <1>3, <2>4, MaskIs
  <2>6. /\ order' \in Seq(Slots) /\ Len(order') = Len(order) + 1 /\ order'[Len(order) + 1] = s
        /\ \A i \in 1 .. Len(order) : order'[i] = order[i] /\ order[i] \in Slots /\ order[i] # s
    <3>1. /\ order' \in Seq(Slots) /\ Len(order') = Len(order) + 1 /\ order'[Len(order) + 1] = s
          /\ \A i \in 1 .. Len(order) : order'[i] = order[i]
      BY <1>1, <1>3, AppendProperties
    <3>2. \A i \in 1 .. Len(order) : order[i] \in Slots /\ order[i] # s
      BY <1>3, ElementOfSeq DEF InList
    <3>. QED
      BY <3>1, <3>2
  <2>7. /\ Len(n) = Len(order')
        /\ \A i \in 1 .. Len(order') : n[i] = IF order'[i] \in WaitSet' THEN req'[order'[i]] ELSE NoReq
    <3>1. PICK o, rr, W : o = order' /\ rr = req' /\ W = WaitSet'
      OBVIOUS
    <3>2. o \in Seq(Slots)
      BY <2>6, <3>1
    <3>3. /\ Len(Mask(o, rr, W)) = Len(o)
          /\ \A i \in 1 .. Len(o) : Mask(o, rr, W)[i] = IF o[i] \in W THEN rr[o[i]] ELSE NoReq
      BY <3>2, MaskIs
    <3>. QED
      BY <2>4, <3>1, <3>3
  <2>8. \A i \in 1 .. Len(l) : n[i] = l[i]
    BY <1>4, <1>6, <2>5, <2>6, <2>7
  <2>9. Len(n) = Len(l) + 1 /\ n[Len(l) + 1] = r /\ Len(l) \in Nat
    BY <1>4, <1>6, <2>5, <2>6, <2>7
  <2>10. ModOn(r, d, b) => After(r) \in Int
    BY <1>6, GeometryAssumption DEF ModOn, ModCodes, After, Proper, Pages
  <2>11. Turns(n, d, b, p, NextPage(r, d, b, m))
    <3>1. Turns(l, d, b, p, m)
      BY <2>1, <2>4
    <3>2. ModOn(r, d, b) => r.page = m /\ After(r) \in Int
      BY <2>3, <2>10
    <3>. QED
      BY <2>8, <2>9, <3>1, <3>2, TurnsAppend
  <2>. QED
    BY <1>1, <2>1, <2>3, <2>4, <2>11
<1>9. WaitInv'
  BY <1>8 DEF WaitInv
<1>. QED
  BY <1>3, <1>4, <1>7, <1>9

\* Every step keeps what waits in line with the pages of the mapping.
LEMMA StepWaits ==
    ASSUME Base, OrderInv, WaitInv, WaitDistinct, ~RefilledBeforeErase, [Next]_vars
    PROVE  WaitInv' /\ WaitDistinct'
<1>1. StepKind /\ (TodoKept \/ \E s \in Slots : Creates(s))
  BY StepIs, StepAsks, Zenon
<1>2. CASE \E s \in Slots : Creates(s)
  BY <1>2, CreateWaits, Zenon
<1>3. CASE Quiet /\ TodoKept
  BY <1>3, QuietWaits, Zenon
<1>4. CASE \E q : Selects(selecting, q)
  BY <1>4, SelectWaits, Zenon
<1>5. CASE \E s \in Slots : RowReleases(s)
  BY <1>5, ReleaseWaits, Zenon
<1>6. CASE \E s \in Slots : DmaEnds(s) \/ NandEnds(s)
  <2>1. PICK s \in Slots : DmaEnds(s) \/ NandEnds(s)
    BY <1>6
  <2>2. (\E dma0, nand0 : Finishes(s, dma0, nand0)) /\ UNCHANGED <<cpu, ftl>>
    BY <2>1, Zenon DEF DmaEnds, NandEnds
  <2>. QED
    BY <2>2, FinishWaits, Zenon
<1>. QED
  BY <1>1, <1>2, <1>3, <1>4, <1>5, <1>6, Zenon DEF StepKind
-----------------------------------------------------------------------------
(* Erases that wait, and the reads they wait for.                           *)

\* An erase and a read of block b of die d that wait.
EraseWaits(s, d, b) == queue[s] = "rowDep" /\ req[s].code = "erase" /\ OnRow(s, d, b)
ReadWaits(s, d, b) == Blocked(s) /\ IsRead(s) /\ OnRow(s, d, b)

\* The flag of a block stands for an erase on the queue of blocked requests.
FlagInv == \A d \in Dies, b \in Blocks : rowDep[d][b].blockedEraseReqFlag <=> \E s \in Slots : EraseWaits(s, d, b)

\* A read that waits was asked for before the erase that waits for it.
ReadsFirst == \A s, t \in Slots : \A d, b : EraseWaits(s, d, b) /\ ReadWaits(t, d, b) => Before(t, s)

\* An erase has no buffer to wait for, and two of a block do not wait together.
LEMMA ErasesWait ==
    ASSUME Base, WaitDistinct, NEW s \in Slots, req[s].code = "erase", NEW d, NEW b, OnRow(s, d, b)
    PROVE  /\ Live(s) /\ req[s].page = PAGES /\ req[s].buf = NONE /\ queue[s] # "bufDep"
           /\ ModOn(req[s], d, b)
           /\ s \in WaitSet => \A t \in Slots : EraseWaits(t, d, b) => t = s
<1>1. /\ Live(s) /\ req[s].page = PAGES /\ req[s].buf = NONE /\ queue[s] # "bufDep"
  BY LiveRequest DEF Base, Typed, TagsInv, Live
<1>2. ModOn(req[s], d, b)
  BY DEF OnRow, ModOn, ModCodes
<1>3. ASSUME NEW t \in Slots, EraseWaits(t, d, b), s \in WaitSet
      PROVE  t = s
  <2>1. t \in WaitSet /\ ModOn(req[t], d, b) /\ req[t].page = PAGES
    BY <1>3, LiveRequest DEF Base, Typed, Live, EraseWaits, OnRow, WaitSet, Blocked, ModOn, ModCodes
  <2>. QED
    BY <1>1, <1>2, <1>3, <2>1 DEF WaitDistinct
<1>. QED
  BY <1>1, <1>2, <1>3

\* Nothing happens to the erases that wait, nor to the flags.
LEMMA SameFlags ==
    ASSUME FlagInv,
           \A d \in Dies, b \in Blocks : rowDep'[d][b].blockedEraseReqFlag <=> rowDep[d][b].blockedEraseReqFlag,
           \A s \in Slots : \A d, b : EraseWaits(s, d, b)' <=> EraseWaits(s, d, b)
    PROVE  FlagInv'
<1> SUFFICES ASSUME NEW d \in Dies, NEW b \in Blocks
             PROVE  rowDep'[d][b].blockedEraseReqFlag <=> \E s \in Slots : EraseWaits(s, d, b)'
  BY DEF FlagInv
<1>1. rowDep[d][b].blockedEraseReqFlag <=> \E s \in Slots : EraseWaits(s, d, b)
  BY DEF FlagInv
<1>2. rowDep'[d][b].blockedEraseReqFlag <=> rowDep[d][b].blockedEraseReqFlag
  OBVIOUS
<1>3. \A s \in Slots : EraseWaits(s, d, b)' <=> EraseWaits(s, d, b)
  OBVIOUS
<1>. QED
  BY <1>1, <1>2, <1>3, Zenon

\* A request goes to queue q.
LEMMA MovedFlags ==
    ASSUME Base, WaitDistinct, FlagInv, NEW s \in WaitSet, NEW q,
           \A d \in Dies, b \in Blocks :
              rowDep'[d][b].blockedEraseReqFlag <=>
                /\ rowDep[d][b].blockedEraseReqFlag
                      \/ (req[s].code = "erase" /\ OnRow(s, d, b) /\ q = "rowDep" /\ s = selecting)
                /\ ~(req[s].code = "erase" /\ OnRow(s, d, b) /\ q = "nand"),
           req[s].code = "erase" => q \in {"nand", "rowDep"} /\ (q = "rowDep" => s = selecting),
           queue'[s] = q,
           \A x \in Slots \ {s} : \A d, b : EraseWaits(x, d, b)' <=> EraseWaits(x, d, b),
           req'[s] = req[s]
    PROVE  FlagInv'
<1>0. s \in Slots
  BY DEF WaitSet
<1> SUFFICES ASSUME NEW d \in Dies, NEW b \in Blocks
             PROVE  rowDep'[d][b].blockedEraseReqFlag <=> \E x \in Slots : EraseWaits(x, d, b)'
  BY DEF FlagInv
<1>1. rowDep[d][b].blockedEraseReqFlag <=> \E x \in Slots : EraseWaits(x, d, b)
  BY DEF FlagInv
<1>2. rowDep'[d][b].blockedEraseReqFlag <=>
                /\ rowDep[d][b].blockedEraseReqFlag
                      \/ (req[s].code = "erase" /\ OnRow(s, d, b) /\ q = "rowDep" /\ s = selecting)
                /\ ~(req[s].code = "erase" /\ OnRow(s, d, b) /\ q = "nand")
  OBVIOUS
<1>3. \A x \in Slots \ {s} : EraseWaits(x, d, b)' <=> EraseWaits(x, d, b)
  OBVIOUS
<1>4. EraseWaits(s, d, b)' <=> q = "rowDep" /\ req[s].code = "erase" /\ OnRow(s, d, b)
  BY DEF EraseWaits, OnRow
<1>5. CASE ~(req[s].code = "erase" /\ OnRow(s, d, b))
  <2>1. ~EraseWaits(s, d, b) /\ ~EraseWaits(s, d, b)'
    BY <1>4, <1>5 DEF EraseWaits
  <2>2. rowDep'[d][b].blockedEraseReqFlag <=> rowDep[d][b].blockedEraseReqFlag
    BY <1>2, <1>5
  <2>. QED
    BY <1>0, <1>1, <1>3, <2>1, <2>2, Zenon
<1>6. CASE req[s].code = "erase" /\ OnRow(s, d, b)
  <2>1. \A x \in Slots : EraseWaits(x, d, b) => x = s
    BY <1>0, <1>6, ErasesWait
  <2>2. \A x \in Slots \ {s} : ~EraseWaits(x, d, b)'
    BY <1>3, <2>1
  <2>3. CASE q = "nand"
    <3>1. ~EraseWaits(s, d, b)' /\ ~rowDep'[d][b].blockedEraseReqFlag
      BY <1>2, <1>4, <1>6, <2>3
    <3>. QED
      BY <2>2, <3>1
  <2>4. CASE q = "rowDep"
    <3>1. EraseWaits(s, d, b)' /\ rowDep'[d][b].blockedEraseReqFlag
      BY <1>2, <1>4, <1>6, <2>4
    <3>. QED
      BY <1>0, <3>1
  <2>. QED
    BY <1>6, <2>3, <2>4
<1>. QED
  BY <1>5, <1>6

\* Every step keeps the flags true to the erases.
LEMMA StepFlags ==
    ASSUME Base, WaitDistinct, FlagInv, [Next]_vars
    PROVE  FlagInv'
<1>1. StepKind /\ queue \in [Slots -> Queues] /\ req \in [Slots -> Proper \cup {NoReq}] /\ NONE \notin Slots
  BY StepIs, OrderTyped, Zenon
<1>2. CASE Quiet
  <2>1. UNCHANGED <<req, rowDep>>
    BY <1>2 DEF Quiet
  <2>2. \A s \in Slots : queue'[s] = "rowDep" <=> queue[s] = "rowDep"
    BY <1>2 DEF Quiet
  <2>3. \A s \in Slots : \A d, b : EraseWaits(s, d, b)' <=> EraseWaits(s, d, b)
    BY <2>1, <2>2 DEF EraseWaits, OnRow
  <2>. QED
    BY <2>1, <2>3, SameFlags
<1>3. ASSUME NEW s \in Slots, Creates(s)
      PROVE  FlagInv'
  <2>1. /\ rowDep' = rowDep /\ req' = [req EXCEPT ![s] = Head(todo)] /\ queue' = [queue EXCEPT ![s] = "cpu"]
        /\ queue[s] \in {"free", "cpu"}
    BY <1>3 DEF Creates
  <2>2. \A x \in Slots : \A d, b : EraseWaits(x, d, b)' <=> EraseWaits(x, d, b)
    BY <1>1, <2>1 DEF EraseWaits, OnRow
  <2>. QED
    BY <2>1, <2>2, SameFlags
<1>4. ASSUME NEW q, Selects(selecting, q)
      PROVE  FlagInv'
  <2>1. PICK s : s = selecting
    OBVIOUS
  <2>2. /\ s \in Slots /\ queue' = [queue EXCEPT ![s] = q] /\ req' = req /\ queue[s] = "cpu"
        /\ q \in {"dma", "nand", "rowDep", "bufDep"}
        /\ q = "dma" => IsDma(s)
        /\ q = "bufDep" => req[s].buf # NONE
    BY <1>4, <2>1 DEF Selects, Selected
  <2>3. \A d \in Dies, b \in Blocks :
              rowDep'[d][b].blockedEraseReqFlag <=>
                /\ rowDep[d][b].blockedEraseReqFlag
                      \/ (req[s].code = "erase" /\ OnRow(s, d, b) /\ q = "rowDep" /\ s = selecting)
                /\ ~(req[s].code = "erase" /\ OnRow(s, d, b) /\ q = "nand")
    BY <1>4, <2>1 DEF Selects, RowMoves
  <2>4. s \in WaitSet /\ queue'[s] = q /\ req'[s] = req[s]
    BY <1>1, <2>1, <2>2 DEF WaitSet
  <2>5. \A x \in Slots \ {s} : \A d, b : EraseWaits(x, d, b)' <=> EraseWaits(x, d, b)
    BY <1>1, <2>2 DEF EraseWaits, OnRow
  <2>6. req[s].code = "erase" => req[s].buf = NONE /\ ~IsDma(s)
    BY <2>2, LiveRequest DEF Base, Typed, Live, IsDma
  <2>7. req[s].code = "erase" => q \in {"nand", "rowDep"} /\ (q = "rowDep" => s = selecting)
    BY <2>1, <2>2, <2>6
  <2>. QED
    BY <2>3, <2>4, <2>5, <2>7, MovedFlags
<1>5. ASSUME NEW s \in Slots, RowReleases(s)
      PROVE  FlagInv'
  <2>1. /\ queue[s] = "rowDep" /\ queue' = [queue EXCEPT ![s] = "nand"] /\ req' = req
    BY <1>5 DEF RowReleases
  <2>2. PICK q : q = "nand"
    OBVIOUS
  <2>3. \A d \in Dies, b \in Blocks :
              rowDep'[d][b].blockedEraseReqFlag <=>
                /\ rowDep[d][b].blockedEraseReqFlag
                      \/ (req[s].code = "erase" /\ OnRow(s, d, b) /\ q = "rowDep" /\ s = selecting)
                /\ ~(req[s].code = "erase" /\ OnRow(s, d, b) /\ q = "nand")
    BY <1>5, <2>2 DEF RowReleases, RowMoves
  <2>4. s \in WaitSet /\ queue'[s] = q /\ req'[s] = req[s]
    BY <1>1, <2>1, <2>2 DEF WaitSet, Blocked
  <2>5. \A x \in Slots \ {s} : \A d, b : EraseWaits(x, d, b)' <=> EraseWaits(x, d, b)
    BY <1>1, <2>1 DEF EraseWaits, OnRow
  <2>6. req[s].code = "erase" => q \in {"nand", "rowDep"} /\ (q = "rowDep" => s = selecting)
    BY <2>2
  <2>. QED
    BY <2>3, <2>4, <2>5, <2>6, MovedFlags
<1>6. ASSUME NEW s \in Slots, DmaEnds(s) \/ NandEnds(s)
      PROVE  FlagInv'
  <2>1. PICK dma0, nand0 : Finishes(s, dma0, nand0)
    BY <1>6, Zenon DEF DmaEnds, NandEnds
  <2>2. PICK t, q : t = nextBlockingReq[s] /\ q = ReleasedTo(t)
    OBVIOUS
  <2>3. queue[s] \in {"nand", "dma"}
    BY <2>1 DEF Finishes
  <2>4. req' = [req EXCEPT ![s] = NoReq]
    BY <2>1, <2>2, FinishIs DEF Base, Typed
  <2>5. CASE Released(s)
    <3>1. /\ t \in Slots /\ t # s /\ Live(t) /\ queue[t] = "bufDep" /\ t # selecting
          /\ queue' = [queue EXCEPT ![s] = "free", ![t] = q]
      BY <2>1, <2>2, <2>5, FinishIs, Zenon DEF Base, Typed
    <3>2. RowMoves(t, q)
      BY <2>1, <2>2, <2>5, FinishIs, Zenon DEF Base, Typed
    <3>3. req[t].code # "erase"
      BY <3>1, LiveRequest DEF Base, Typed, TagsInv
    <3>4. \A d \in Dies, b \in Blocks : rowDep'[d][b].blockedEraseReqFlag <=> rowDep[d][b].blockedEraseReqFlag
      BY <3>2, <3>3 DEF RowMoves
    <3>5. ASSUME NEW x \in Slots, NEW d, NEW b
          PROVE  EraseWaits(x, d, b)' <=> EraseWaits(x, d, b)
      <4>1. CASE x = s
        BY <1>1, <2>3, <2>4, <3>1, <4>1 DEF EraseWaits
      <4>2. CASE x = t
        <5>1. req'[t] = req[t]
          BY <1>1, <2>4, <3>1
        <5>. QED
          BY <3>3, <4>2, <5>1 DEF EraseWaits
      <4>3. CASE x # s /\ x # t
        <5>1. queue'[x] = queue[x] /\ req'[x] = req[x]
          BY <1>1, <2>4, <3>1, <4>3
        <5>. QED
          BY <5>1 DEF EraseWaits, OnRow
      <4>. QED
        BY <4>1, <4>2, <4>3
    <3>. QED
      BY <3>4, <3>5, SameFlags
  <2>6. CASE ~Released(s)
    <3>1. queue' = [queue EXCEPT ![s] = "free"] /\ UNCHANGED rowDep
      BY <2>1, <2>2, <2>6, FinishIs, Zenon DEF Base, Typed
    <3>2. \A x \in Slots : \A d, b : EraseWaits(x, d, b)' <=> EraseWaits(x, d, b)
      BY <1>1, <2>3, <2>4, <3>1 DEF EraseWaits, OnRow
    <3>. QED
      BY <3>1, <3>2, SameFlags
  <2>. QED
    BY <2>5, <2>6
<1>. QED
  BY <1>1, <1>2, <1>3, <1>4, <1>5, <1>6, Zenon DEF StepKind

\* No erase or read begins to wait.
LEMMA SameReads ==
    ASSUME ReadsFirst,
           \A s \in Slots : \A d, b : EraseWaits(s, d, b)' => EraseWaits(s, d, b),
           \A s \in Slots : \A d, b : ReadWaits(s, d, b)' => ReadWaits(s, d, b),
           \A s, t \in Slots : (Blocked(s)' /\ Blocked(t)' /\ Before(s, t)) => Before(s, t)'
    PROVE  ReadsFirst'
<1> SUFFICES ASSUME NEW s \in Slots, NEW t \in Slots, NEW d, NEW b, EraseWaits(s, d, b)', ReadWaits(t, d, b)'
             PROVE  Before(t, s)'
  BY DEF ReadsFirst
<1>1. Before(t, s)
  BY DEF ReadsFirst
<1>2. Blocked(s)' /\ Blocked(t)'
  BY DEF EraseWaits, ReadWaits, Blocked
<1>. QED
  BY <1>1, <1>2

\* An erase that begins to wait is the last asked for, and no read begins to wait
\* where an erase does (SyncReleaseEraseReq).
LEMMA SelectReads ==
    ASSUME Base, OrderInv, FlagInv, ReadsFirst, NEW s, NEW q, Selects(s, q)
    PROVE  ReadsFirst'
<1>1. /\ s = selecting /\ s \in Slots /\ Live(s) /\ queue[s] = "cpu"
      /\ queue' = [queue EXCEPT ![s] = q] /\ UNCHANGED <<req, order>>
      /\ IsRead(s) => ~Row(s).blockedEraseReqFlag
  BY DEF Selects, Selected
<1>2. queue \in [Slots -> Queues] /\ selecting # NONE
  BY <1>1, OrderTyped
<1> SUFFICES ASSUME NEW x \in Slots, NEW t \in Slots, NEW d, NEW b, EraseWaits(x, d, b)', ReadWaits(t, d, b)'
             PROVE  Before(t, x)'
  BY DEF ReadsFirst
<1>3. Before(t, x)' <=> Before(t, x)
  BY <1>1 DEF Before
<1>4. \A z \in Slots \ {s} : /\ EraseWaits(z, d, b)' => EraseWaits(z, d, b)
                             /\ ReadWaits(z, d, b)' => ReadWaits(z, d, b)
  BY <1>1, <1>2 DEF EraseWaits, ReadWaits, OnRow, Blocked, IsRead
<1>5. req[x].code = "erase" /\ OnRow(x, d, b) /\ req[t].code = "read" /\ OnRow(t, d, b)
  BY <1>1 DEF EraseWaits, ReadWaits, OnRow, IsRead
<1>6. CASE x # s /\ t # s
  BY <1>3, <1>4, <1>6 DEF ReadsFirst
<1>7. CASE x = s
  <2>1. t # s
    BY <1>5, <1>7
  <2>2. ReadWaits(t, d, b)
    BY <1>4, <2>1
  <2>3. Live(t)
    BY <1>5 DEF Live
  <2>4. Before(t, s)
    BY <1>1, <1>2, <2>1, <2>3 DEF OrderInv
  <2>. QED
    BY <1>3, <1>7, <2>4
<1>8. CASE t = s /\ x # s
  <2>1. EraseWaits(x, d, b)
    BY <1>4, <1>8
  <2>2. d \in Dies /\ b \in Blocks /\ Row(s) = rowDep[d][b]
    BY <1>1, <1>5, <1>8, LiveRequest DEF Base, Typed, OnRow, Row, NandCodes
  <2>3. rowDep[d][b].blockedEraseReqFlag
    BY <2>1, <2>2 DEF FlagInv
  <2>. QED
    BY <1>1, <1>5, <1>8, <2>2, <2>3 DEF IsRead
<1>. QED
  BY <1>6, <1>7, <1>8

\* So every step keeps the reads first.
LEMMA StepReads ==
    ASSUME Base, OrderInv, FlagInv, ReadsFirst, [Next]_vars
    PROVE  ReadsFirst'
<1>1. StepKind /\ queue \in [Slots -> Queues] /\ req \in [Slots -> Proper \cup {NoReq}] /\ NONE \notin Slots
  BY StepIs, OrderTyped, Zenon
<1>2. CASE Quiet
  <2>1. UNCHANGED <<req, order>>
    BY <1>2 DEF Quiet
  <2>2. \A s \in Slots : (queue'[s] = "rowDep" <=> queue[s] = "rowDep") /\ (Blocked(s)' <=> Blocked(s))
    BY <1>2 DEF Quiet, Blocked
  <2>3. \A s \in Slots : \A d, b : EraseWaits(s, d, b)' <=> EraseWaits(s, d, b)
    BY <2>1, <2>2 DEF EraseWaits, OnRow
  <2>4. \A s \in Slots : \A d, b : ReadWaits(s, d, b)' <=> ReadWaits(s, d, b)
    BY <2>1, <2>2 DEF ReadWaits, OnRow, IsRead
  <2>5. \A s, t : Before(s, t)' <=> Before(s, t)
    BY <2>1 DEF Before
  <2>. QED
    BY <2>3, <2>4, <2>5, SameReads
<1>3. ASSUME NEW s \in Slots, Creates(s)
      PROVE  ReadsFirst'
  <2>1. /\ rowDep' = rowDep /\ req' = [req EXCEPT ![s] = Head(todo)] /\ queue' = [queue EXCEPT ![s] = "cpu"]
        /\ queue[s] \in {"free", "cpu"}
    BY <1>3 DEF Creates
  <2>2. \A x \in Slots : \A d, b : EraseWaits(x, d, b)' <=> EraseWaits(x, d, b)
    BY <1>1, <2>1 DEF EraseWaits, OnRow
  <2>3. \A x \in Slots : \A d, b : ReadWaits(x, d, b)' <=> ReadWaits(x, d, b)
    BY <1>1, <2>1 DEF ReadWaits, OnRow, IsRead, Blocked
  <2>4. \A x, y : Before(x, y) => Before(x, y)'
    BY <1>3, CreateKeepsOrder
  <2>. QED
    BY <2>2, <2>3, <2>4, SameReads
<1>4. CASE \E q : Selects(selecting, q)
  BY <1>4, SelectReads, Zenon
<1>5. ASSUME NEW s \in Slots, RowReleases(s)
      PROVE  ReadsFirst'
  <2>1. /\ queue[s] = "rowDep" /\ queue' = [queue EXCEPT ![s] = "nand"] /\ UNCHANGED <<req, order>>
    BY <1>5 DEF RowReleases
  <2>2. \A x \in Slots : \A d, b : EraseWaits(x, d, b)' => EraseWaits(x, d, b)
    BY <1>1, <2>1 DEF EraseWaits, OnRow
  <2>3. \A x \in Slots : \A d, b : ReadWaits(x, d, b)' => ReadWaits(x, d, b)
    BY <1>1, <2>1 DEF ReadWaits, OnRow, IsRead, Blocked
  <2>4. \A x, y : Before(x, y)' <=> Before(x, y)
    BY <2>1 DEF Before
  <2>. QED
    BY <2>2, <2>3, <2>4, SameReads
<1>6. ASSUME NEW s \in Slots, DmaEnds(s) \/ NandEnds(s)
      PROVE  ReadsFirst'
  <2>1. PICK dma0, nand0 : Finishes(s, dma0, nand0)
    BY <1>6, Zenon DEF DmaEnds, NandEnds
  <2>2. PICK t, q : t = nextBlockingReq[s] /\ q = ReleasedTo(t)
    OBVIOUS
  <2>3. queue[s] \in {"nand", "dma"} /\ UNCHANGED cpu
    BY <1>6, <2>1 DEF Finishes, DmaEnds, NandEnds
  <2>4. req' = [req EXCEPT ![s] = NoReq]
    BY <2>1, <2>2, FinishIs DEF Base, Typed
  <2>5. \A x, y : Before(x, y)' <=> Before(x, y) /\ x # s /\ y # s
    BY <2>1, <2>3, FinishKeepsOrder, Zenon
  <2>6. CASE Released(s)
    <3>1. /\ t \in Slots /\ t # s /\ Live(t) /\ queue[t] = "bufDep" /\ t # selecting
          /\ queue' = [queue EXCEPT ![s] = "free", ![t] = q]
      BY <2>1, <2>2, <2>6, FinishIs, Zenon DEF Base, Typed
    <3>2. req[t].code # "erase"
      BY <3>1, LiveRequest DEF Base, Typed, TagsInv
    <3>3. ASSUME NEW x \in Slots, NEW d, NEW b
          PROVE  /\ EraseWaits(x, d, b)' => EraseWaits(x, d, b)
                 /\ ReadWaits(x, d, b)' => ReadWaits(x, d, b)
                 /\ Blocked(x)' => x # s
      <4>1. CASE x = s
        BY <1>1, <2>3, <2>4, <3>1, <4>1 DEF EraseWaits, ReadWaits, Blocked
      <4>2. CASE x = t
        <5>1. req'[t] = req[t]
          BY <1>1, <2>4, <3>1
        <5>. QED
          BY <3>1, <3>2, <4>2, <5>1 DEF EraseWaits, ReadWaits, Blocked, IsRead, OnRow
      <4>3. CASE x # s /\ x # t
        <5>1. queue'[x] = queue[x] /\ req'[x] = req[x]
          BY <1>1, <2>4, <3>1, <4>3
        <5>. QED
          BY <4>3, <5>1 DEF EraseWaits, OnRow, ReadWaits, Blocked, IsRead
      <4>. QED
        BY <4>1, <4>2, <4>3
    <3>. QED
      BY <2>5, <3>3, SameReads
  <2>7. CASE ~Released(s)
    <3>1. queue' = [queue EXCEPT ![s] = "free"] /\ UNCHANGED rowDep
      BY <2>1, <2>2, <2>7, FinishIs, Zenon DEF Base, Typed
    <3>2. \A x \in Slots : \A d, b : /\ EraseWaits(x, d, b)' => EraseWaits(x, d, b)
                                     /\ ReadWaits(x, d, b)' => ReadWaits(x, d, b)
                                     /\ Blocked(x)' => x # s
      BY <1>1, <2>3, <2>4, <3>1 DEF EraseWaits, OnRow, ReadWaits, Blocked, IsRead
    <3>. QED
      BY <2>5, <3>2, SameReads
  <2>. QED
    BY <2>6, <2>7
<1>. QED
  BY <1>1, <1>2, <1>3, <1>4, <1>5, <1>6, Zenon DEF StepKind
-----------------------------------------------------------------------------
(* The queues of the dies.                                                  *)

\* Two requests whose order matters to their block.
RowConflict(s, t) ==
    /\ ~IsDma(s) /\ ~IsDma(t)
    /\ <<req[s].die, req[s].block>> = <<req[t].die, req[t].block>>
    /\ "erase" \in {req[s].code, req[t].code} \/ (~IsRead(s) /\ ~IsRead(t))

\* They are queued at the die in the order they were asked for.
FlashOrder ==
    \A s, t \in Slots : RowConflict(s, t) /\ Before(s, t) /\ queue[t] = "nand" =>
        Precedes(nandReqQ[req[t].die], s, t)

\* What CheckRowAddrDep has seen of a request that goes to its die.
MayPass(x) ==
    /\ IsMod(x) => req[x].page = Row(x).permittedProgPage
    /\ req[x].code = "erase" => Row(x).blockedReadReqCnt = 0
    /\ IsRead(x) /\ x = selecting => ~Row(x).blockedEraseReqFlag

\* Then everything before it that it conflicts with has gone to that die.
LEMMA EarlierPassed ==
    ASSUME Base, OrderInv, BlockedReadsExact, WaitInv, WaitDistinct, FlagInv, ReadsFirst,
           NEW x \in WaitSet, req[x].code \in NandCodes, MayPass(x),
           NEW y \in Slots, Before(y, x), RowConflict(y, x)
    PROVE  queue[y] = "nand" /\ req[y].die = req[x].die
<1>1. order \in Seq(Slots) /\ Distinct(order) /\ NONE \notin Slots /\ x \in Slots
  BY OrderTyped DEF OrderInv, WaitSet
<1>2. InList(order, y) /\ x # y /\ ~Before(x, y)
  BY <1>1, PrecedesOrder DEF Before
<1>3. Live(y) /\ y # selecting
  BY <1>1, <1>2, WaitLive DEF OrderInv
<1>4. PICK d, b : d = req[x].die /\ b = req[x].block
  OBVIOUS
<1>5. d \in Dies /\ b \in Blocks /\ Row(x) = rowDep[d][b] /\ Live(x)
  <2>1. Live(x)
    BY <1>1 DEF NandCodes, Live
  <2>. QED
    BY <1>1, <1>4, <2>1, LiveRequest DEF Base, Typed, Row
<1>6. OnRow(x, d, b) /\ OnRow(y, d, b) /\ ~IsDma(y)
  BY <1>4 DEF RowConflict, OnRow
<1>7. req[y].code \in NandCodes
  BY <1>3, <1>6, LiveRequest DEF Base, Typed, Codes, NandCodes, IsDma
<1>8. Blocked(y) \/ queue[y] = "nand"
  BY <1>3, <1>6 DEF Base, TagsInv, Running, Blocked
<1>9. ASSUME Blocked(y)
      PROVE  FALSE
  <2>0. y \in WaitSet
    BY <1>9 DEF WaitSet
  <2>1. CASE IsMod(x) /\ IsMod(y)
    <3>1. ModOn(req[x], d, b) /\ ModOn(req[y], d, b) /\ req[x].page = rowDep[d][b].permittedProgPage
      BY <1>5, <1>6, <2>1 DEF IsMod, ModOn, OnRow, MayPass
    <3>2. PICK m : Turns(Mask(order, req, WaitSet), d, b, rowDep[d][b].permittedProgPage, m)
      BY <1>5 DEF WaitInv
    <3>3. PICK k \in 1 .. Len(order) :
              /\ order[k] = x
              /\ \A j \in 1 .. k - 1 : ~(order[j] \in WaitSet /\ ModOn(req[order[j]], d, b))
      BY <3>1, <3>2, FirstWaiting
    <3>4. PICK i, j \in 1 .. Len(order) : i < j /\ order[i] = y /\ order[j] = x
      BY DEF Before, Precedes
    <3>5. j = k
      BY <1>1, <3>3, <3>4 DEF Distinct
    <3>6. i \in 1 .. k - 1
      BY <1>1, <3>4, <3>5, LenProperties
    <3>. QED
      BY <2>0, <3>1, <3>3, <3>4, <3>6
  <2>2. CASE req[x].code = "erase" /\ IsRead(y)
    <3>1. y \in WaitingReads(d, b)
      BY <1>6, <1>9, <2>2 DEF WaitingReads, Blocked, OnBlock, OnRow, IsRead, NoReq
    <3>2. rowDep[d][b].blockedReadReqCnt = Cardinality(WaitingReads(d, b)) /\ rowDep[d][b].blockedReadReqCnt = 0
      BY <1>5, <2>2 DEF BlockedReadsExact, WaitingReads, MayPass
    <3>3. WaitingReads(d, b) = {}
      BY <3>2, WaitingReadsFinite, FS_EmptySet
    <3>. QED
      BY <3>1, <3>3
  <2>3. CASE IsRead(x) /\ req[y].code = "erase"
    <3>1. EraseWaits(y, d, b)
      <4>1. queue[y] # "bufDep"
        BY <1>6, <2>3, ErasesWait
      <4>. QED
        BY <1>6, <1>9, <2>3, <4>1 DEF EraseWaits, Blocked
    <3>2. rowDep[d][b].blockedEraseReqFlag
      BY <1>5, <3>1 DEF FlagInv
    <3>3. x # selecting
      BY <1>5, <2>3, <3>2 DEF MayPass
    <3>4. ReadWaits(x, d, b)
      BY <1>6, <2>3, <3>3 DEF WaitSet, ReadWaits
    <3>5. Before(x, y)
      BY <1>1, <3>1, <3>4 DEF ReadsFirst
    <3>. QED
      BY <1>2, <3>5
  <2>. QED
    BY <1>7, <2>1, <2>2, <2>3 DEF RowConflict, NandCodes, IsMod, ModCodes, IsRead
<1>. QED
  BY <1>4, <1>6, <1>8, <1>9 DEF OnRow

\* What is true of the queues before x goes to one of them is true afterwards.
LEMMA MovedInOrder ==
    ASSUME NEW nand0 \in [Dies -> Seq(Slots)], NEW x, NEW q, q = "nand" => x \in Slots /\ req[x].die \in Dies,
           nandReqQ' = IF q = "nand" THEN [nand0 EXCEPT ![req[x].die] = Append(@, x)] ELSE nand0,
           NEW y, NEW z, req[z].die \in Dies,
           IF z = x /\ q = "nand" THEN InList(nand0[req[z].die], y) ELSE Precedes(nand0[req[z].die], y, z)
    PROVE  Precedes(nandReqQ'[req[z].die], y, z)
<1>1. PICK d : d = req[z].die
  OBVIOUS
<1>2. d \in Dies /\ nand0[d] \in Seq(Slots)
  BY <1>1
<1>3. CASE q = "nand" /\ req[x].die = d
  <2>1. nandReqQ'[d] = Append(nand0[d], x)
    BY <1>2, <1>3
  <2>2. Precedes(Append(nand0[d], x), y, z) <=> Precedes(nand0[d], y, z) \/ (InList(nand0[d], y) /\ z = x)
    <3>1. x \in Slots
      BY <1>3
    <3>. QED
      BY <1>2, <3>1, AppendPrecedes
  <2>. QED
    BY <1>1, <1>3, <2>1, <2>2
<1>4. CASE ~(q = "nand" /\ req[x].die = d)
  <2>1. nandReqQ'[d] = nand0[d]
    BY <1>2, <1>4
  <2>. QED
    BY <1>1, <1>4, <2>1
<1>. QED
  BY <1>3, <1>4

\* The requests S stay where they are, and x goes to queue q.
Passes(nand0, S, x, q) ==
    /\ nand0 \in [Dies -> Seq(Slots)] /\ S \subseteq Slots
    /\ \A y, z \in S, d \in Dies : /\ Precedes(nandReqQ[d], y, z) => Precedes(nand0[d], y, z)
                                   /\ InList(nandReqQ[d], y) => InList(nand0[d], y)
    /\ q = "nand" => x \in S /\ x \in WaitSet /\ req[x].code \in NandCodes /\ MayPass(x)
    /\ nandReqQ' = IF q = "nand" THEN [nand0 EXCEPT ![req[x].die] = Append(@, x)] ELSE nand0
    /\ \A y \in Slots : queue'[y] = "nand" => (y \in S /\ queue[y] = "nand") \/ (y = x /\ q = "nand")
    /\ \A y \in S : req'[y] = req[y]
    /\ \A y, z \in Slots : Before(y, z)' /\ z \in S => Before(y, z) /\ y \in S

\* A request that goes to its die goes behind all it conflicts with; the others stay
\* in order.
LEMMA FlashMoves ==
    ASSUME Base, OrderInv, BlockedReadsExact, WaitInv, WaitDistinct, FlagInv, ReadsFirst, FlashOrder,
           NEW nand0, NEW S, NEW x, NEW q, Passes(nand0, S, x, q)
    PROVE  FlashOrder'
<1>a. /\ nand0 \in [Dies -> Seq(Slots)] /\ S \subseteq Slots
      /\ \A y, z \in S, d \in Dies : /\ Precedes(nandReqQ[d], y, z) => Precedes(nand0[d], y, z)
                                     /\ InList(nandReqQ[d], y) => InList(nand0[d], y)
      /\ q = "nand" => x \in S /\ x \in WaitSet /\ req[x].code \in NandCodes /\ MayPass(x)
  BY DEF Passes
<1>b. /\ nandReqQ' = IF q = "nand" THEN [nand0 EXCEPT ![req[x].die] = Append(@, x)] ELSE nand0
      /\ \A y \in Slots : queue'[y] = "nand" => (y \in S /\ queue[y] = "nand") \/ (y = x /\ q = "nand")
      /\ \A y \in S : req'[y] = req[y]
      /\ \A y, z \in Slots : Before(y, z)' /\ z \in S => Before(y, z) /\ y \in S
  BY DEF Passes
<1> SUFFICES ASSUME NEW y \in Slots, NEW z \in Slots, RowConflict(y, z)', Before(y, z)', queue'[z] = "nand"
             PROVE  Precedes(nandReqQ'[req'[z].die], y, z)
  BY DEF FlashOrder
<1>1. z \in S /\ (queue[z] = "nand" \/ (z = x /\ q = "nand"))
  BY <1>a, <1>b
<1>2. Before(y, z) /\ y \in S /\ req'[y] = req[y] /\ req'[z] = req[z]
  BY <1>1, <1>b
<1>3. RowConflict(y, z)
  BY <1>2 DEF RowConflict, IsDma, IsRead
<1>4. q = "nand" => x \in Slots /\ req[x].die \in Dies
  BY <1>a, LiveRequest DEF Base, Typed, NandCodes, Live
<1>5. req[z].die \in Dies
  <2>1. CASE queue[z] = "nand"
    BY <2>1, LiveRequest DEF Base, Typed, TagsInv, Running
  <2>. QED
    BY <1>1, <1>4, <2>1
<1>6. CASE z = x /\ q = "nand"
  <2>1. queue[y] = "nand" /\ req[y].die = req[x].die
    BY <1>2, <1>3, <1>6, <1>a, EarlierPassed
  <2>2. InList(nandReqQ[req[z].die], y)
    BY <1>5, <1>6, <2>1 DEF Base, ListsInv, DieLists
  <2>3. InList(nand0[req[z].die], y)
    BY <1>1, <1>2, <1>5, <1>a, <2>2
  <2>4. Precedes(nandReqQ'[req[z].die], y, z)
    BY <1>4, <1>5, <1>6, <1>a, <1>b, <2>3, MovedInOrder
  <2>. QED
    BY <1>2, <2>4
<1>7. CASE ~(z = x /\ q = "nand")
  <2>1. Precedes(nandReqQ[req[z].die], y, z)
    BY <1>1, <1>2, <1>3, <1>7 DEF FlashOrder
  <2>2. Precedes(nand0[req[z].die], y, z)
    BY <1>1, <1>2, <1>5, <1>a, <2>1
  <2>3. Precedes(nandReqQ'[req[z].die], y, z)
    BY <1>4, <1>5, <1>7, <1>a, <1>b, <2>2, MovedInOrder
  <2>. QED
    BY <1>2, <2>3
<1>. QED
  BY <1>6, <1>7

\* The queues of the dies when request s has left them.
LEMMA LeavesQueue ==
    ASSUME Base, NEW s \in Slots, DmaEnds(s) \/ NandEnds(s)
    PROVE  \E dma0, nand0 :
              /\ Finishes(s, dma0, nand0) /\ nand0 \in [Dies -> Seq(Slots)]
              /\ \A y, z \in Slots \ {s}, d \in Dies :
                    /\ Precedes(nandReqQ[d], y, z) => Precedes(nand0[d], y, z)
                    /\ InList(nandReqQ[d], y) => InList(nand0[d], y)
<1>1. nandReqQ \in [Dies -> Seq(Slots)]
  BY DEF Base, Typed, TypedRequests
<1>2. CASE DmaEnds(s)
  BY <1>1, <1>2, Zenon DEF DmaEnds
<1>3. CASE NandEnds(s)
  <2>1. PICK e, dma0, nand0 : /\ e = req[s].die /\ nand0 = [nandReqQ EXCEPT ![req[s].die] = Tail(@)]
                              /\ Finishes(s, dma0, nand0)
    BY <1>3, Zenon DEF NandEnds
  <2>2. /\ nandReqQ[e] # <<>> /\ s = Head(nandReqQ[e])
    BY <1>3, <2>1 DEF NandEnds
  <2>3. e \in Dies
    BY <1>3, <2>1, LiveRequest DEF NandEnds, Base, Typed, TagsInv, Running
  <2>4. nandReqQ[e] \in Seq(Slots) /\ Distinct(nandReqQ[e])
    BY <2>3 DEF Base, ListsInv, DieLists
  <2>5. Tail(nandReqQ[e]) \in Seq(Slots) /\ \A x : InList(Tail(nandReqQ[e]), x) <=> InList(nandReqQ[e], x) /\ x # s
    BY <2>2, <2>4, TailList
  <2>6. \A y, z : Precedes(Tail(nandReqQ[e]), y, z) <=> Precedes(nandReqQ[e], y, z) /\ y # s
    BY <2>2, <2>4, TailPrecedes
  <2>7. nand0 \in [Dies -> Seq(Slots)] /\ nand0[e] = Tail(nandReqQ[e])
        /\ \A d \in Dies \ {e} : nand0[d] = nandReqQ[d]
    BY <1>1, <2>1, <2>3, <2>5
  <2>8. ASSUME NEW y \in Slots \ {s}, NEW z \in Slots \ {s}, NEW d \in Dies
        PROVE  /\ Precedes(nandReqQ[d], y, z) => Precedes(nand0[d], y, z)
               /\ InList(nandReqQ[d], y) => InList(nand0[d], y)
    BY <2>5, <2>6, <2>7
  <2>. QED
    BY <2>1, <2>7, <2>8, Zenon
<1>. QED
  BY <1>2, <1>3

\* So every step keeps the order at the dies.
LEMMA StepFlash ==
    ASSUME Base, OrderInv, BlockedReadsExact, WaitInv, WaitDistinct, FlagInv, ReadsFirst, FlashOrder,
           [Next]_vars
    PROVE  FlashOrder'
<1>1. StepKind /\ queue \in [Slots -> Queues] /\ req \in [Slots -> Proper \cup {NoReq}] /\ NONE \notin Slots
  BY StepIs, OrderTyped, Zenon
<1>2. nandReqQ \in [Dies -> Seq(Slots)] /\ order \in Seq(Slots)
  BY DEF Base, Typed, TypedRequests
<1>4. CASE Quiet
  <2>1. UNCHANGED <<req, order, nandReqQ>> /\ \A y \in Slots : queue'[y] = "nand" => queue[y] = "nand"
    BY <1>4 DEF Quiet, queues
  <2>2. \A y, z : Before(y, z)' <=> Before(y, z)
    BY <2>1 DEF Before
  <2>3. PICK q, x : q = "free" /\ x = NONE
    OBVIOUS
  <2>4. /\ \A y \in Slots : queue'[y] = "nand" => (y \in Slots /\ queue[y] = "nand") \/ (y = x /\ q = "nand")
        /\ nandReqQ' = IF q = "nand" THEN [nandReqQ EXCEPT ![req[x].die] = Append(@, x)] ELSE nandReqQ
        /\ q = "nand" => x \in Slots /\ x \in WaitSet /\ req[x].code \in NandCodes /\ MayPass(x)
        /\ \A y \in Slots : req'[y] = req[y]
        /\ \A y, z \in Slots : Before(y, z)' /\ z \in Slots => Before(y, z) /\ y \in Slots
    BY <2>1, <2>2, <2>3
  <2>5. Passes(nandReqQ, Slots, x, q)
    BY <1>2, <2>4 DEF Passes
  <2>. QED
    BY <2>5, FlashMoves, Zenon
<1>5. ASSUME NEW s \in Slots, Creates(s)
      PROVE  FlashOrder'
  <2>1. /\ nandReqQ' = nandReqQ /\ req' = [req EXCEPT ![s] = Head(todo)] /\ queue' = [queue EXCEPT ![s] = "cpu"]
        /\ ~Live(s)
    BY <1>5 DEF Creates, queues
  <2>2. \A y, z : Before(y, z)' <=> Before(y, z) \/ (InList(order, y) /\ z = s)
    BY <1>5, CreateKeepsOrder, Zenon
  <2>3. \A y, z \in Slots : Before(y, z) => y # s
    <3>1. \A y, z : Before(y, z) => InList(order, y)
      BY <1>2, PrecedesOrder DEF Before, OrderInv
    <3>. QED
      BY <2>1, <3>1 DEF OrderInv
  <2>4. PICK q, x, S : q = "free" /\ x = NONE /\ S = Slots \ {s}
    OBVIOUS
  <2>5. \A y \in Slots : queue'[y] = "nand" => (y \in S /\ queue[y] = "nand") \/ (y = x /\ q = "nand")
    BY <1>1, <2>1, <2>4
  <2>6. /\ nandReqQ' = IF q = "nand" THEN [nandReqQ EXCEPT ![req[x].die] = Append(@, x)] ELSE nandReqQ
        /\ q = "nand" => x \in S /\ x \in WaitSet /\ req[x].code \in NandCodes /\ MayPass(x)
    BY <2>1, <2>4
  <2>7. \A y \in S : req'[y] = req[y]
    BY <1>1, <2>1, <2>4
  <2>8. \A y, z \in Slots : Before(y, z)' /\ z \in S => Before(y, z) /\ y \in S
    BY <2>2, <2>3, <2>4
  <2>9. S \in SUBSET Slots
    BY <2>4
  <2>10. Passes(nandReqQ, S, x, q)
    BY <1>2, <2>5, <2>6, <2>7, <2>8, <2>9 DEF Passes
  <2>. QED
    BY <2>10, FlashMoves, Zenon
<1>6. ASSUME NEW q, Selects(selecting, q)
      PROVE  FlashOrder'
  <2>1. PICK x : x = selecting
    OBVIOUS
  <2>2. /\ x \in Slots /\ queue' = [queue EXCEPT ![x] = q] /\ UNCHANGED <<req, order>> /\ queue[x] = "cpu"
        /\ IsRead(x) => ~Row(x).blockedEraseReqFlag
        /\ q = "nand" => req[x].code \in NandCodes
    BY <1>6, <2>1 DEF Selects, Selected
  <2>3. nandReqQ' = IF q = "nand" THEN [nandReqQ EXCEPT ![req[x].die] = Append(@, x)] ELSE nandReqQ
    BY <1>6, <2>1 DEF Selects, Selected, PutOn
  <2>4. /\ q = "nand" /\ IsMod(x) => req[x].page = Row(x).permittedProgPage
        /\ q = "nand" /\ req[x].code = "erase" => Row(x).blockedReadReqCnt = 0
    BY <1>6, <2>1 DEF Selects, RowMoves
  <2>5. x \in WaitSet
    BY <2>1, <2>2 DEF WaitSet
  <2>6. q = "nand" => x \in Slots /\ x \in WaitSet /\ req[x].code \in NandCodes /\ MayPass(x)
    BY <2>2, <2>4, <2>5 DEF MayPass
  <2>7. \A y \in Slots : queue'[y] = "nand" => (y \in Slots /\ queue[y] = "nand") \/ (y = x /\ q = "nand")
    BY <1>1, <2>2
  <2>8. /\ \A y \in Slots : req'[y] = req[y]
        /\ \A y, z \in Slots : Before(y, z)' /\ z \in Slots => Before(y, z) /\ y \in Slots
    BY <2>2 DEF Before
  <2>9. Passes(nandReqQ, Slots, x, q)
    BY <1>2, <2>3, <2>6, <2>7, <2>8 DEF Passes
  <2>. QED
    BY <2>9, FlashMoves, Zenon
<1>7. ASSUME NEW x \in Slots, RowReleases(x)
      PROVE  FlashOrder'
  <2>1. /\ queue' = [queue EXCEPT ![x] = "nand"] /\ UNCHANGED <<req, order>> /\ queue[x] = "rowDep"
        /\ req[x].code \in NandCodes /\ x # selecting
        /\ nandReqQ' = [nandReqQ EXCEPT ![req[x].die] = Append(@, x)]
    BY <1>7 DEF RowReleases
  <2>2. /\ IsMod(x) => req[x].page = Row(x).permittedProgPage
        /\ req[x].code = "erase" => Row(x).blockedReadReqCnt = 0
    BY <1>7 DEF RowReleases, RowMoves
  <2>3. x \in WaitSet /\ MayPass(x)
    BY <2>1, <2>2 DEF WaitSet, Blocked, MayPass
  <2>4. PICK q : q = "nand"
    OBVIOUS
  <2>5. /\ nandReqQ' = IF q = "nand" THEN [nandReqQ EXCEPT ![req[x].die] = Append(@, x)] ELSE nandReqQ
        /\ q = "nand" => x \in Slots /\ x \in WaitSet /\ req[x].code \in NandCodes /\ MayPass(x)
    BY <2>1, <2>3, <2>4
  <2>6. \A y \in Slots : queue'[y] = "nand" => (y \in Slots /\ queue[y] = "nand") \/ (y = x /\ q = "nand")
    BY <1>1, <2>1, <2>4
  <2>7. /\ \A y \in Slots : req'[y] = req[y]
        /\ \A y, z \in Slots : Before(y, z)' /\ z \in Slots => Before(y, z) /\ y \in Slots
    BY <2>1 DEF Before
  <2>8. Passes(nandReqQ, Slots, x, q)
    BY <1>2, <2>5, <2>6, <2>7 DEF Passes
  <2>. QED
    BY <2>8, FlashMoves, Zenon
<1>8. ASSUME NEW s \in Slots, DmaEnds(s) \/ NandEnds(s)
      PROVE  FlashOrder'
  <2>1. PICK dma0, nand0 :
              /\ Finishes(s, dma0, nand0) /\ nand0 \in [Dies -> Seq(Slots)]
              /\ \A y, z \in Slots \ {s}, d \in Dies :
                    /\ Precedes(nandReqQ[d], y, z) => Precedes(nand0[d], y, z)
                    /\ InList(nandReqQ[d], y) => InList(nand0[d], y)
    BY <1>8, LeavesQueue
  <2>2. PICK t, q0 : t = nextBlockingReq[s] /\ q0 = ReleasedTo(t)
    OBVIOUS
  <2>3. req' = [req EXCEPT ![s] = NoReq] /\ queue[s] \in {"nand", "dma"} /\ UNCHANGED cpu
    <3>1. req' = [req EXCEPT ![s] = NoReq]
      BY <2>1, <2>2, FinishIs DEF Base, Typed
    <3>. QED
      BY <1>8, <2>1, <3>1 DEF Finishes, DmaEnds, NandEnds
  <2>4. \A y, z : Before(y, z)' <=> Before(y, z) /\ y # s /\ z # s
    BY <2>1, <2>3, FinishKeepsOrder, Zenon
  <2>5. PICK S : S = Slots \ {s}
    OBVIOUS
  <2>6. /\ S \in SUBSET Slots
        /\ \A y, z \in S, d \in Dies : /\ Precedes(nandReqQ[d], y, z) => Precedes(nand0[d], y, z)
                                       /\ InList(nandReqQ[d], y) => InList(nand0[d], y)
        /\ \A y \in S : req'[y] = req[y]
        /\ \A y, z \in Slots : Before(y, z)' /\ z \in S => Before(y, z) /\ y \in S
    BY <1>1, <2>1, <2>3, <2>4, <2>5
  <2>7. CASE Released(s)
    <3>0. /\ t \in Slots /\ t # s /\ queue[t] = "bufDep" /\ t # selecting
          /\ queue' = [queue EXCEPT ![s] = "free", ![t] = q0]
      BY <2>1, <2>2, <2>7, FinishIs, Zenon DEF Base, Typed
    <3>1. q0 # "dma" => req[t].code \in NandCodes
      BY <2>1, <2>2, <2>7, FinishIs, Zenon DEF Base, Typed
    <3>6. nandReqQ' = IF q0 = "nand" THEN [nand0 EXCEPT ![req[t].die] = Append(@, t)] ELSE nand0
      BY <2>1, <2>2, <2>7, FinishIs DEF Base, Typed
    <3>2. RowMoves(t, q0)
      BY <2>1, <2>2, <2>7, FinishIs, Zenon DEF Base, Typed
    <3>3. /\ q0 = "nand" /\ IsMod(t) => req[t].page = Row(t).permittedProgPage
          /\ q0 = "nand" /\ req[t].code = "erase" => Row(t).blockedReadReqCnt = 0
      BY <3>2 DEF RowMoves
    <3>4. q0 = "nand" => t \in S /\ t \in WaitSet /\ req[t].code \in NandCodes /\ MayPass(t)
      BY <2>5, <3>0, <3>1, <3>3 DEF WaitSet, Blocked, MayPass
    <3>5. \A y \in Slots : queue'[y] = "nand" => (y \in S /\ queue[y] = "nand") \/ (y = t /\ q0 = "nand")
      BY <1>1, <2>5, <3>0
    <3>7. Passes(nand0, S, t, q0)
      BY <2>1, <2>6, <3>4, <3>5, <3>6 DEF Passes
    <3>. QED
      BY <3>7, FlashMoves, Zenon
  <2>8. CASE ~Released(s)
    <3>1. queue' = [queue EXCEPT ![s] = "free"] /\ nandReqQ' = nand0
      BY <2>1, <2>2, <2>8, FinishIs, Zenon DEF Base, Typed
    <3>2. PICK q : q = "free"
      OBVIOUS
    <3>3. /\ nandReqQ' = IF q = "nand" THEN [nand0 EXCEPT ![req[s].die] = Append(@, s)] ELSE nand0
          /\ q = "nand" => s \in S /\ s \in WaitSet /\ req[s].code \in NandCodes /\ MayPass(s)
      BY <3>1, <3>2
    <3>4. \A y \in Slots : queue'[y] = "nand" => (y \in S /\ queue[y] = "nand") \/ (y = s /\ q = "nand")
      BY <1>1, <2>5, <3>1
    <3>5. Passes(nand0, S, s, q)
      BY <2>1, <2>6, <3>3, <3>4 DEF Passes
    <3>. QED
      BY <3>5, FlashMoves, Zenon
  <2>. QED
    BY <2>7, <2>8
<1>. QED
  BY <1>1, <1>4, <1>5, <1>6, <1>7, <1>8, Zenon DEF StepKind
-----------------------------------------------------------------------------
(* The properties.                                                          *)

\* The flag stands for an erase that the walk over the queue of its die will find.
LEMMA ErasesFound ==
    ASSUME Base, FlagInv
    PROVE  BlockedEraseFound
<1> SUFFICES ASSUME NEW d \in Dies, NEW b \in Blocks
             PROVE  rowDep[d][b].blockedEraseReqFlag <=>
                        \E i \in 1 .. Len(blockedByRowAddrDepReqQ[d]) :
                            OnBlock(blockedByRowAddrDepReqQ[d][i], "erase", d, b)
  BY DEF BlockedEraseFound
<1>1. rowDep[d][b].blockedEraseReqFlag <=> \E s \in Slots : EraseWaits(s, d, b)
  BY DEF FlagInv
<1>2. PICK l \in Seq(Slots) : l = blockedByRowAddrDepReqQ[d]
  BY DEF Base, Typed, TypedRequests
<1>3. \A x \in Slots : InList(l, x) <=> queue[x] = "rowDep" /\ req[x].die = d
  BY <1>2 DEF Base, ListsInv, DieLists
<1>4. \A i \in 1 .. Len(l) : l[i] \in Slots /\ InList(l, l[i])
  BY ElementOfSeq DEF InList
<1>5. ASSUME NEW s \in Slots, EraseWaits(s, d, b)
      PROVE  \E i \in 1 .. Len(l) : OnBlock(l[i], "erase", d, b)
  <2>1. PICK i \in 1 .. Len(l) : l[i] = s
    BY <1>3, <1>5 DEF EraseWaits, OnRow, InList
  <2>2. OnBlock(s, "erase", d, b)
    BY <1>5 DEF EraseWaits, OnRow, OnBlock, NoReq
  <2>. QED
    BY <2>1, <2>2
<1>6. ASSUME NEW i \in 1 .. Len(l), OnBlock(l[i], "erase", d, b)
      PROVE  \E s \in Slots : EraseWaits(s, d, b)
  <2>1. l[i] \in Slots /\ queue[l[i]] = "rowDep"
    BY <1>3, <1>4
  <2>2. EraseWaits(l[i], d, b)
    BY <1>6, <2>1 DEF EraseWaits, OnRow, OnBlock
  <2>. QED
    BY <2>1, <2>2
<1>. QED
  BY <1>1, <1>2, <1>5, <1>6

\* A request that completes has nothing before it that it conflicts with.
LEMMA CompletesInOrder ==
    ASSUME Base, OrderInv, ChainInv, FlashOrder, NEW s \in Slots, DmaEnds(s) \/ NandEnds(s),
           NEW u \in Slots, Before(u, s), Conflict(u, s)
    PROVE  FALSE
<1>1. /\ order \in Seq(Slots) /\ Distinct(order)
      /\ InList(order, u) /\ u # s /\ ~Before(s, u)
  BY OrderTyped, PrecedesOrder DEF Before, OrderInv
<1>2. Live(u)
  BY <1>1 DEF OrderInv
<1>3. queue[s] \in {"nand", "dma"} /\ Running(s) /\ Live(s)
  BY DEF DmaEnds, NandEnds, Running, Base, TagsInv
<1>4. CASE req[u].buf # NONE /\ req[u].buf = req[s].buf
  <2>1. SameBuf(s, u) /\ prevBlockingReq[s] = NONE /\ ChainedBack(s)
    BY <1>2, <1>3, <1>4 DEF SameBuf, ChainInv
  <2>. QED
    BY <1>1, <2>1 DEF ChainedBack
<1>5. CASE RowConflict(u, s)
  <2>1. queue[s] = "nand"
    BY <1>3, <1>5 DEF RowConflict, Base, TagsInv
  <2>2. PICK l : l = nandReqQ[req[s].die]
    OBVIOUS
  <2>3. Precedes(l, u, s)
    BY <1>5, <2>1, <2>2 DEF FlashOrder
  <2>4. l # <<>> /\ s = Head(l)
    BY <2>1, <2>2 DEF DmaEnds, NandEnds
  <2>5. l \in Seq(Slots) /\ Distinct(l)
    <3>1. req[s].die \in Dies
      BY <1>3, <2>1, LiveRequest DEF Base, Typed, TagsInv
    <3>. QED
      BY <2>2, <3>1 DEF Base, ListsInv, DieLists
  <2>. QED
    BY <2>3, <2>4, <2>5, TailPrecedes
<1>. QED
  BY <1>4, <1>5 DEF Conflict, RowConflict

\* Only the end of a request completes it, so no step completes one out of order.
LEMMA StepInOrder ==
    ASSUME Base, OrderInv, ChainInv, FlashOrder, [Next]_vars,
           NEW i \in 1 .. Len(order), Completes(order[i]), NEW j \in 1 .. i - 1
    PROVE  ~Conflict(order[j], order[i])
<1>1. StepKind /\ queue \in [Slots -> Queues]
  BY StepIs, OrderTyped, Zenon
<1>2. order \in Seq(Slots) /\ Len(order) \in Nat
  BY OrderTyped, LenProperties
<1>3. PICK s, u \in Slots : s = order[i] /\ u = order[j]
  BY <1>2, ElementOfSeq
<1>4. Before(u, s)
  BY <1>2, <1>3 DEF Before, Precedes
<1>5. queue[s] \in {"nand", "dma"} /\ queue'[s] = "free"
  BY <1>3 DEF Completes
<1>6. ~Quiet
  BY <1>5 DEF Quiet
<1>7. \A x \in Slots : ~Creates(x)
  BY <1>1, <1>5 DEF Creates
<1>8. \A q : ~Selects(selecting, q)
  BY <1>1, <1>5 DEF Selects, Selected
<1>9. \A x \in Slots : ~RowReleases(x)
  BY <1>1, <1>5 DEF RowReleases
<1>10. PICK x \in Slots : DmaEnds(x) \/ NandEnds(x)
  BY <1>1, <1>6, <1>7, <1>8, <1>9, Zenon DEF StepKind
<1>11. x = s
  <2>1. PICK dma0, nand0 : Finishes(x, dma0, nand0)
    BY <1>10, Zenon DEF DmaEnds, NandEnds
  <2>2. PICK t, q : t = nextBlockingReq[x] /\ q = ReleasedTo(t)
    OBVIOUS
  <2>3. CASE Released(x)
    <3>1. t \in Slots /\ t # x /\ queue[t] = "bufDep" /\ queue' = [queue EXCEPT ![x] = "free", ![t] = q]
      BY <2>1, <2>2, <2>3, FinishIs, Zenon DEF Base, Typed
    <3>. QED
      BY <1>1, <1>5, <3>1
  <2>4. CASE ~Released(x)
    <3>1. queue' = [queue EXCEPT ![x] = "free"]
      BY <2>1, <2>2, <2>4, FinishIs, Zenon DEF Base, Typed
    <3>. QED
      BY <1>1, <1>5, <3>1
  <2>. QED
    BY <2>3, <2>4
<1>. QED
  BY <1>3, <1>4, <1>10, <1>11, CompletesInOrder, Zenon
-----------------------------------------------------------------------------
\* The inductive invariant of the order, on top of the first.
OrderedInv ==
    /\ IInv /\ ~RefilledBeforeErase
    /\ WaitInv /\ WaitDistinct /\ FlagInv /\ ReadsFirst /\ FlashOrder

\* It holds at the start, with nothing asked for,
LEMMA InitOrdered ==
    ASSUME Init
    PROVE  OrderedInv
<1>1. IInv
  BY InitIInv
<1>2. /\ queue = [s \in Slots |-> "free"] /\ selecting = NONE /\ todo = <<>> /\ order = <<>>
      /\ \A d \in Dies, b \in Blocks : rowDep[d][b].permittedProgPage = currentPage[d][b]
                                       /\ rowDep[d][b].blockedEraseReqFlag = FALSE
  BY DEF Init
<1>3. Len(todo) = 0 /\ Len(order) = 0 /\ PAGES \in Nat
      /\ currentPage \in [Dies -> [Blocks -> 0 .. PAGES]]
  BY <1>1, <1>2, GeometryAssumption DEF IInv, Base, Typed, TypedFlash
<1>4. ~RefilledBeforeErase
  BY <1>3 DEF RefilledBeforeErase
<1>5. WaitSet = {}
  BY <1>2, GeometryAssumption DEF WaitSet, Blocked
<1>6. WaitDistinct /\ FlagInv /\ ReadsFirst /\ FlashOrder
  BY <1>2, <1>5 DEF WaitDistinct, FlagInv, ReadsFirst, FlashOrder, EraseWaits
<1>7. WaitInv
  <2> SUFFICES ASSUME NEW d \in Dies, NEW b \in Blocks
               PROVE  \E m : /\ Turns(Mask(order, req, WaitSet), d, b, rowDep[d][b].permittedProgPage, m)
                             /\ Turns(todo, d, b, m, currentPage[d][b])
    BY DEF WaitInv
  <2>1. PICK l, p : l = Mask(order, req, WaitSet) /\ p = currentPage[d][b]
    OBVIOUS
  <2>2. Len(l) = 0
    <3>1. order \in Seq(Slots)
      BY <1>1, OrderTyped DEF IInv
    <3>2. Len(Mask(order, req, WaitSet)) = Len(order)
      BY <3>1, MaskIs
    <3>. QED
      BY <1>3, <2>1, <3>2
  <2>3. p \in Int
    BY <1>3, <2>1
  <2>4. Turns(l, d, b, p, p) /\ Turns(todo, d, b, p, p)
    BY <1>3, <2>2, <2>3, TurnsEmpty
  <2>. QED
    BY <1>2, <2>1, <2>4
<1>. QED
  BY <1>1, <1>4, <1>6, <1>7 DEF OrderedInv

\* and every step keeps it.
LEMMA StepOrdered ==
    ASSUME OrderedInv, [Next /\ ~RefilledBeforeErase']_vars
    PROVE  OrderedInv'
<1>1. [Next]_vars
  OBVIOUS
<1>2. IInv'
  BY <1>1, StepIInv DEF OrderedInv
<1>3. ~RefilledBeforeErase'
  <2>1. UNCHANGED vars => (RefilledBeforeErase' <=> RefilledBeforeErase)
    BY DEF vars, cpu, RefilledBeforeErase
  <2>. QED
    BY <2>1 DEF OrderedInv
<1>4. WaitInv' /\ WaitDistinct'
  BY <1>1, StepWaits DEF OrderedInv, IInv
<1>5. FlagInv'
  BY <1>1, StepFlags DEF OrderedInv, IInv
<1>6. ReadsFirst'
  BY <1>1, StepReads DEF OrderedInv, IInv
<1>7. FlashOrder'
  BY <1>1, StepFlash DEF OrderedInv, IInv
<1>. QED
  BY <1>2, <1>3, <1>4, <1>5, <1>6, <1>7 DEF OrderedInv

\* The invariant holds in every state, as long as no block is filled again, or erased
\* again, while the request that did the same before still waits.
THEOREM OrderedInvariance == SpecUnlessRefilled => []OrderedInv
<1>1. Init => OrderedInv
  BY InitOrdered
<1>2. OrderedInv /\ [Next /\ ~RefilledBeforeErase']_vars => OrderedInv'
  BY StepOrdered
<1>. QED
  BY <1>1, <1>2, PTL DEF SpecUnlessRefilled

\* While blockedEraseReqFlag is set, its erase is on the queue that the scheduler
\* walks, so SyncReleaseEraseReq waits for something that can happen.
THEOREM ErasesAreFound == SpecUnlessRefilled => []BlockedEraseFound
<1>1. OrderedInv => BlockedEraseFound
  BY ErasesFound DEF OrderedInv, IInv
<1>. QED
  BY <1>1, OrderedInvariance, PTL

\* No request completes before an earlier one that it conflicts with: requests of
\* a buffer, programs of a block, and an erase with the reads and programs of its
\* block complete in the order the CPU asked for them.
THEOREM RequestsInOrder == SpecUnlessRefilled => InOrder
<1>1. OrderedInv /\ [Next /\ ~RefilledBeforeErase']_vars =>
          [\A i \in 1 .. Len(order) : Completes(order[i]) =>
              \A j \in 1 .. i - 1 : ~Conflict(order[j], order[i])]_vars
  <2> SUFFICES ASSUME OrderedInv, [Next]_vars,
                      NEW i \in 1 .. Len(order), Completes(order[i]), NEW j \in 1 .. i - 1
               PROVE  ~Conflict(order[j], order[i])
    OBVIOUS
  <2>. QED
    BY StepInOrder DEF OrderedInv, IInv
<1>. QED
  BY <1>1, OrderedInvariance, PTL DEF SpecUnlessRefilled, InOrder
=============================================================================
