------------------------------ MODULE HostDma -------------------------------
(***************************************************************************)
(* One direction of the NVMe auto DMA engine as the firmware drives it     *)
(* (nvme/host_lld.c; the code for Rx and Tx is the same).  The firmware    *)
(* feeds 4 KB blocks to a FIFO.  All it ever learns is the position of the *)
(* FIFO's head, an 8 bit number; it keeps the tail, also 8 bits, and       *)
(* counts how often the tail wrapped.  A request remembers both as they    *)
(* were when its last block was fed, and CheckDoneNvmeDmaReq has to tell   *)
(* from these numbers alone whether all its blocks have moved.             *)
(*                                                                         *)
(* What really happened is kept in `lag' and in the `age' of a request:    *)
(* how many laps of the FIFO the head, or the request's last block, is     *)
(* behind the tail.  The firmware's steps never read them, except to name  *)
(* the bound MaxAge.                                                       *)
(***************************************************************************)
EXTENDS Integers, Sequences, LinkedLists

CONSTANTS
    POSITIONS,      \* positions of the FIFO: 256
    LAPS,           \* values of autoDma*OverFlowCnt: 2^32
    MaxBlocks,      \* blocks of the longest request (NVME_BLOCKS_PER_SLICE)
    MaxRequests     \* requests in flight (the request pool)

\* No request stays unobserved for this many laps.  The pool bounds it: 8192
\* entries of 4 blocks are 128 laps.
MaxAge == LAPS - 1

ASSUME WidthAssumption ==
    /\ POSITIONS \in Nat /\ POSITIONS > 1
    /\ LAPS \in Nat /\ LAPS > 1
    /\ MaxBlocks \in Nat \ {0}
    /\ MaxRequests \in Nat \ {0}

Positions == 0 .. POSITIONS - 1
Laps      == 0 .. LAPS - 1

VARIABLES
    hwHead,         \* the engine's count of moved blocks
    fifoHead,       \* the firmware's last reading of it
    fifoTail,       \* g_hostDmaStatus.fifoTail
    overFlowCnt,    \* g_hostDmaAssistStatus
    reqs,           \* the requests of this direction on nvmeDmaReqQ, oldest first
    toIssue,        \* blocks the request being issued still has to feed
    walk,           \* the request CheckDoneNvmeDmaReq looks at, 0 outside it
    done,           \* its rxDone or txDone
    lag             \* laps the head is behind the tail: 0 or 1

engine   == <<hwHead, lag>>
firmware == <<fifoHead, fifoTail, overFlowCnt, reqs, toIssue, walk, done>>
vars     == <<engine, firmware>>

\* The next value of a counter of n values.
Succ(x, n) == IF x + 1 = n THEN 0 ELSE x + 1

Init ==
    /\ hwHead = 0
    /\ lag = 0
    /\ fifoHead = 0
    /\ fifoTail = 0
    /\ overFlowCnt = 0
    /\ reqs = <<>>
    /\ toIssue = 0
    /\ walk = 0
    /\ done = FALSE

-----------------------------------------------------------------------------
(* IssueNvmeDmaReq: one block at a time.                                   *)

IssueNvmeDmaReq(n) ==
    /\ toIssue = 0
    /\ Len(reqs) < MaxRequests
    /\ toIssue' = n
    /\ UNCHANGED <<engine, fifoHead, fifoTail, overFlowCnt, reqs, walk, done>>

\* Every request is one lap older once the tail wraps.
Older(wraps) == [i \in 1 .. Len(reqs) |-> [reqs[i] EXCEPT !.age = IF wraps THEN @ + 1 ELSE @]]

\* The loop that waits for room reads the head until the next tail is not it.
WaitForRoomOnOldHead(tail) == tail # hwHead /\ UNCHANGED fifoHead
WaitForRoom(tail) == tail # hwHead /\ fifoHead' = hwHead

\* set_auto_rx_dma, set_auto_tx_dma: wait until the FIFO has room, feed a
\* block, advance the tail.  After the last block the request notes the tail.
SetAutoDma ==
    LET tail  == Succ(fifoTail, POSITIONS)
        wraps == fifoTail > tail
        laps  == IF wraps THEN Succ(overFlowCnt, LAPS) ELSE overFlowCnt
    IN  /\ toIssue > 0
        /\ WaitForRoom(tail)
        /\ wraps => \A i \in 1 .. Len(reqs) : reqs[i].age < MaxAge
        /\ fifoTail' = tail
        /\ overFlowCnt' = laps
        /\ lag' = IF wraps THEN lag + 1 ELSE lag
        /\ toIssue' = toIssue - 1
        /\ reqs' = IF toIssue = 1
                   THEN Append(Older(wraps), [reqTail |-> tail, overFlowCnt |-> laps, age |-> 0])
                   ELSE Older(wraps)
        /\ UNCHANGED <<hwHead, walk, done>>

\* The engine moves the block at the head.
Engine ==
    /\ hwHead # fifoTail
    /\ hwHead' = Succ(hwHead, POSITIONS)
    /\ lag' = IF hwHead' = 0 THEN lag - 1 ELSE lag
    /\ UNCHANGED firmware

-----------------------------------------------------------------------------
(* CheckDoneNvmeDmaReq: from the newest request to the oldest; once one is  *)
(* done the older ones are not asked about any more.                        *)

\* Wrong: the tail is compared without the laps it made.
PartialDoneWithoutLaps(r) ==
    \/ hwHead = fifoTail
    \/ hwHead = r.reqTail
    \/ hwHead < r.reqTail /\ fifoTail < r.reqTail /\ fifoTail > hwHead
    \/ hwHead > r.reqTail

\* Wrong: an empty FIFO is not recognised.
PartialDoneNeverEmpty(r) ==
    \/ hwHead < r.reqTail /\ fifoTail < r.reqTail /\ fifoTail > hwHead
    \/ hwHead > r.reqTail /\ (fifoTail < r.reqTail \/ fifoTail > hwHead)

\* check_auto_rx_dma_partial_done, check_auto_tx_dma_partial_done.
PartialDone(r) ==
    \/ hwHead = fifoTail
    \/ hwHead = r.reqTail
    \/ /\ hwHead < r.reqTail
       /\ IF fifoTail < r.reqTail
          THEN fifoTail > hwHead \/ overFlowCnt # Succ(r.overFlowCnt, LAPS)
          ELSE overFlowCnt # r.overFlowCnt
    \/ /\ hwHead > r.reqTail
       /\ fifoTail < r.reqTail \/ fifoTail > hwHead \/ overFlowCnt # r.overFlowCnt

StartCheckDone ==
    /\ toIssue = 0 /\ walk = 0
    /\ reqs # <<>>
    /\ walk' = Len(reqs)
    /\ done' = FALSE
    /\ UNCHANGED <<engine, fifoHead, fifoTail, overFlowCnt, reqs, toIssue>>

\* Releasing a request may issue the next one of its buffer before the walk
\* goes on: IssueNvmeDmaReq is enabled between two steps of a walk.
CheckDone ==
    /\ toIssue = 0 /\ walk # 0
    /\ walk' = walk - 1
    /\ fifoHead' = IF done THEN fifoHead ELSE hwHead
    /\ done' = (done \/ PartialDone(reqs[walk]))
    /\ reqs' = IF done' THEN RemoveAtIndex(reqs, walk) ELSE reqs
    /\ UNCHANGED <<engine, fifoTail, overFlowCnt, toIssue>>

\* The other direction's functions read the same register.
ReadHead ==
    /\ fifoHead' = hwHead
    /\ UNCHANGED <<engine, fifoTail, overFlowCnt, reqs, toIssue, walk, done>>

Next ==
    \/ \E n \in 1 .. MaxBlocks : IssueNvmeDmaReq(n)
    \/ SetAutoDma
    \/ Engine
    \/ StartCheckDone
    \/ CheckDone
    \/ ReadHead

Spec == Init /\ [][Next]_vars

\* The engine never stops, and the firmware polls whenever nothing else can
\* be done: waiting for room is a loop, and so is the main loop.
FairSpec ==
    /\ Spec
    /\ WF_vars(Engine)
    /\ WF_vars(SetAutoDma)
    /\ WF_vars(StartCheckDone \/ CheckDone)

-----------------------------------------------------------------------------
(* Properties.                                                             *)

Request == [reqTail : Positions, overFlowCnt : Laps, age : 0 .. MaxAge]

TypeOK ==
    /\ hwHead \in Positions
    /\ lag \in 0 .. 1
    /\ fifoHead \in Positions
    /\ fifoTail \in Positions
    /\ overFlowCnt \in Laps
    /\ reqs \in Seq(Request)
    /\ toIssue \in 0 .. MaxBlocks
    /\ walk \in 0 .. Len(reqs)
    /\ done \in BOOLEAN

\* Every block up to the last one of r has moved.
Moved(r) == lag < r.age \/ (lag = r.age /\ r.reqTail <= hwHead)

\* The comparison of head, tail, recorded tail and overflow counts answers
\* exactly "all blocks of the request have moved", whatever wrapped in
\* between (check_auto_*_dma_partial_done).
PartialDoneExact == \A i \in 1 .. Len(reqs) : PartialDone(reqs[i]) <=> Moved(reqs[i])

\* The loops of check_auto_*_dma_done end on the firmware's last reading of
\* the head, however old it is; when they do the FIFO is really empty.
AutoDoneExact == fifoHead = fifoTail => hwHead = fifoTail /\ lag = 0

\* A request leaves nvmeDmaReqQ, and gives its buffer to the next request,
\* only when all its blocks have moved; also those it is not asked about.
NoEarlyRelease ==
    [][Len(reqs') < Len(reqs) => Moved(reqs[walk])]_vars

\* A queue at its limit does not stay there: what was fed moves, and the polls
\* see that it has (CheckDoneNvmeDmaReq).
QueueRelieved == Len(reqs) = MaxRequests ~> Len(reqs) < MaxRequests
=============================================================================
