----------------------------- MODULE DataBuffer ------------------------------
(***************************************************************************)
(* The data buffer cache as data_buffer.c keeps it: an LRU list and a hash *)
(* table whose buckets are lists, both linked through the entries of one   *)
(* table, and the three places of request_transform.c that change an       *)
(* entry.  The operators named after C functions take the table `m' and    *)
(* return it changed, so that one action can call several of them.         *)
(*                                                                         *)
(* An entry is found by its logical slice address together with phyReq: a  *)
(* physical request (OCSSD) never takes the data of a logical one.         *)
(***************************************************************************)
EXTENDS Integers, Sequences, FiniteSets

CONSTANTS
    ENTRIES,        \* AVAILABLE_DATA_BUFFER_ENTRY_COUNT, also the number of buckets
    Lsas,           \* logical slice addresses, and addresses of physical requests
    LSA_NONE,       \* the address of an unused entry: the largest of its type
    NONE            \* DATA_BUF_NONE

Bufs == 0 .. ENTRIES - 1

ASSUME DataBufferAssumption ==
    /\ ENTRIES \in Nat \ {0}
    /\ Lsas \subseteq Nat
    /\ LSA_NONE \in Nat \ Lsas
    /\ NONE \notin Bufs
    /\ NONE \notin Lsas \X BOOLEAN

VARIABLES
    dataBuf,        \* dataBufMapPtr->dataBuf
    lruList,        \* dataBufLruList
    hashTable       \* dataBufHashTablePtr->dataBufHash

bufVars == <<dataBuf, lruList, hashTable>>

Table  == [buf |-> dataBuf, lru |-> lruList, hash |-> hashTable]
Put(m) == dataBuf' = m.buf /\ lruList' = m.lru /\ hashTable' = m.hash

\* Positions 1 .. n of a walk along one of the links, NONE after its end.
Walk(from, link, n) ==
    LET walk[i \in 1 .. n] ==
            IF i = 1 THEN from ELSE IF walk[i - 1] = NONE THEN NONE ELSE link[walk[i - 1]]
    IN  walk

Bucket(lsa) == lsa % ENTRIES

InitDataBuf ==
    /\ dataBuf = [b \in Bufs |->
          [lsa |-> LSA_NONE, phyReq |-> FALSE, dirty |-> FALSE,
           prev |-> IF b = 0 THEN NONE ELSE b - 1,
           next |-> IF b = ENTRIES - 1 THEN NONE ELSE b + 1,
           hashPrev |-> NONE, hashNext |-> NONE]]
    /\ lruList = [head |-> 0, tail |-> ENTRIES - 1]
    /\ hashTable = [h \in Bufs |-> [head |-> NONE, tail |-> NONE]]

-----------------------------------------------------------------------------
(* The LRU list.                                                           *)

\* CheckDataBufHit takes the entry out of the list ...
UnlinkLru(m, b) ==
    LET p == m.buf[b].prev
        n == m.buf[b].next
        isHead == b = m.lru.head
        isTail == b = m.lru.tail
    IN  [m EXCEPT
            !.buf = [c \in Bufs |-> [m.buf[c] EXCEPT
                        !.next = IF ~isHead /\ c = p THEN IF isTail THEN NONE ELSE n ELSE @,
                        !.prev = IF ~isTail /\ c = n THEN IF isHead THEN NONE ELSE p ELSE @]],
            !.lru.head = IF isHead THEN IF isTail THEN NONE ELSE n ELSE @,
            !.lru.tail = IF isTail THEN IF isHead THEN NONE ELSE p ELSE @]

\* ... and puts it back in front.
PutMru(m, b) ==
    LET h == m.lru.head
    IN  IF h # NONE
        THEN [m EXCEPT !.buf[b].prev = NONE, !.buf[b].next = h, !.buf[h].prev = b, !.lru.head = b]
        ELSE [m EXCEPT !.buf[b].prev = NONE, !.buf[b].next = NONE,
                       !.lru = [head |-> b, tail |-> b]]

\* AllocateDataBuf makes the last entry the first, unless it is the only one.
TailToHead(m) ==
    LET b == m.lru.tail
        p == m.buf[b].prev
        h == m.lru.head
    IN  IF p # NONE
        THEN [m EXCEPT !.buf[p].next = NONE, !.buf[b].prev = NONE, !.buf[b].next = h,
                       !.buf[h].prev = b, !.lru = [head |-> b, tail |-> p]]
        ELSE [m EXCEPT !.buf[b].prev = NONE, !.buf[b].next = NONE,
                       !.lru = [head |-> b, tail |-> b]]
-----------------------------------------------------------------------------
(* The hash table.                                                         *)

\* Positions 1 .. ENTRIES + 1 of the walk through a bucket, NONE after its end.
BucketWalk(h) == Walk(hashTable[h].head, [b \in Bufs |-> dataBuf[b].hashNext], ENTRIES + 1)
InBucket(h) == {BucketWalk(h)[i] : i \in 1 .. ENTRIES + 1} \ {NONE}

\* Wrong: physical and logical addresses are not told apart.
HitsOfAnyKind(lsa, phy) == {b \in InBucket(Bucket(lsa)) : dataBuf[b].lsa = lsa}

\* CheckDataBufHit: the entries of the address's bucket with this address.
Hits(lsa, phy) ==
    IF lsa = LSA_NONE THEN {}
    ELSE {b \in InBucket(Bucket(lsa)) : dataBuf[b].lsa = lsa /\ dataBuf[b].phyReq = phy}

\* Wrong: the bucket's tail is not moved.
PutToDataBufHashListOldTail(m, b) ==
    LET h == Bucket(m.buf[b].lsa)
        t == m.hash[h].tail
    IN  IF t # NONE THEN [m EXCEPT !.buf[b].hashPrev = t, !.buf[b].hashNext = NONE, !.buf[t].hashNext = b]
        ELSE [m EXCEPT !.buf[b].hashPrev = NONE, !.buf[b].hashNext = NONE,
                       !.hash[h] = [head |-> b, tail |-> b]]

PutToDataBufHashList(m, b) ==
    LET h == Bucket(m.buf[b].lsa)
        t == m.hash[h].tail
    IN  IF t # NONE
        THEN [m EXCEPT !.buf[b].hashPrev = t, !.buf[b].hashNext = NONE,
                       !.buf[t].hashNext = b, !.hash[h].tail = b]
        ELSE [m EXCEPT !.buf[b].hashPrev = NONE, !.buf[b].hashNext = NONE,
                       !.hash[h] = [head |-> b, tail |-> b]]

\* Body, tail, head, or the only entry of its bucket.  An entry of address
\* LSA_NONE is left where it is.
SelectiveGetFromDataBufHashList(m, b) ==
    LET p == m.buf[b].hashPrev
        n == m.buf[b].hashNext
        h == Bucket(m.buf[b].lsa)
    IN  CASE m.buf[b].lsa = LSA_NONE -> m
          [] OTHER -> [m EXCEPT
                !.buf = [c \in Bufs |-> [m.buf[c] EXCEPT
                            !.hashNext = IF c = p THEN n ELSE @,
                            !.hashPrev = IF c = n THEN p ELSE @]],
                !.hash[h].head = IF p = NONE THEN n ELSE @,
                !.hash[h].tail = IF n = NONE THEN p ELSE @]

AllocateDataBuf(m) == SelectiveGetFromDataBufHashList(TailToHead(m), m.lru.tail)
-----------------------------------------------------------------------------
(* ReqTransSliceToLowLevel, for one slice request.                          *)

\* Reads leave dirty alone, writes set it, NMC requests clear it.
Marks == {"kept", "dirty", "clean"}
Marked(m, b, phy, mark) ==
    [m EXCEPT !.buf[b].phyReq = phy,
              !.buf[b].dirty = CASE mark = "kept" -> @ [] mark = "dirty" -> TRUE [] mark = "clean" -> FALSE]

\* The walk through the bucket comes to an end.
WalkEnds(h) == BucketWalk(h)[ENTRIES + 1] = NONE

Hit(lsa, phy, mark) ==
    \E b \in Hits(lsa, phy) : Put(Marked(PutMru(UnlinkLru(Table, b), b), b, phy, mark))

\* EvictDataBufEntry leaves the entry clean before its address changes.
Evicted(m, b, lsa) == [m EXCEPT !.buf[b].dirty = FALSE, !.buf[b].lsa = lsa]
Miss(lsa, phy, mark) ==
    /\ Hits(lsa, phy) = {}
    /\ lsa # LSA_NONE => WalkEnds(Bucket(lsa))
    /\ LET b == lruList.tail
           m == PutToDataBufHashList(Evicted(AllocateDataBuf(Table), b, lsa), b)
       IN  Put(Marked(m, b, phy, mark))

SliceRequest(lsa, phy, mark) == Hit(lsa, phy, mark) \/ Miss(lsa, phy, mark)

\* The host reads and writes slices; a physical request is a read or a write.
ReadOrWrite == \E lsa \in Lsas, phy \in BOOLEAN, mark \in {"kept", "dirty"} : SliceRequest(lsa, phy, mark)

\* File names (REQ_CODE_NMC_NEW_MAPPING, REQ_CODE_NMC_INFERENCE) belong to no
\* slice; their buffer is taken from the cache all the same.
ReceiveFileName == SliceRequest(LSA_NONE, FALSE, "clean")

\* The list from the head and, backwards, from the tail.
LruOrder        == Walk(lruList.head, [b \in Bufs |-> dataBuf[b].next], ENTRIES)
FromLeastRecent == Walk(lruList.tail, [b \in Bufs |-> dataBuf[b].prev], ENTRIES)

\* FlushDataBuf writes back what it meets from the tail on.
Met(walk) == {walk[i] : i \in DOMAIN walk}
FlushDataBuf ==
    /\ \E b \in Bufs : dataBuf[b].dirty
    /\ dataBuf' = [b \in Bufs |->
                     [dataBuf[b] EXCEPT !.dirty = @ /\ b \notin Met(FromLeastRecent)]]
    /\ UNCHANGED <<lruList, hashTable>>

BufNext == ReadOrWrite \/ ReceiveFileName \/ FlushDataBuf
BufSpec == InitDataBuf /\ [][BufNext]_bufVars

\* Without NMC commands that send a file name.
SpecWithoutFileNames == InitDataBuf /\ [][ReadOrWrite \/ FlushDataBuf]_bufVars
-----------------------------------------------------------------------------
(* Properties.                                                             *)

Entries == [lsa : Lsas \cup {LSA_NONE}, phyReq : BOOLEAN, dirty : BOOLEAN,
            prev : Bufs \cup {NONE}, next : Bufs \cup {NONE},
            hashPrev : Bufs \cup {NONE}, hashNext : Bufs \cup {NONE}]
Ends    == [head : Bufs \cup {NONE}, tail : Bufs \cup {NONE}]

BufTypeOK ==
    /\ dataBuf \in [Bufs -> Entries]
    /\ lruList \in Ends
    /\ hashTable \in [Bufs -> Ends]

Cache == INSTANCE LruCache WITH
            Keys  <- Lsas \X BOOLEAN,
            lru   <- LruOrder,
            held  <- [b \in Bufs |-> IF dataBuf[b].lsa = LSA_NONE THEN NONE
                                     ELSE <<dataBuf[b].lsa, dataBuf[b].phyReq>>],
            dirty <- {b \in Bufs : dataBuf[b].dirty}

\* Through every sequence of hits, misses and flushes the linked entries are
\* a cache in order of use: what is cached is found, and a miss takes the
\* least recent entry (CheckDataBufHit, AllocateDataBuf).
ImplementsLruCache == Cache!CacheSpec

\* The LRU list read backwards is the list read forwards: a flush meets every
\* entry, and the entry before the last one is the next to be evicted.
LruLinksAgree ==
    /\ Met(LruOrder) = Bufs
    /\ \A i \in 1 .. ENTRIES : LruOrder[i] = FromLeastRecent[ENTRIES + 1 - i]

\* A bucket holds the entries of its addresses and no other, and its links
\* agree: what SelectiveGetFromDataBufHashList will need to remove any of them.
BucketsExact ==
    \A h \in Bufs :
        /\ InBucket(h) = {b \in Bufs : dataBuf[b].lsa # LSA_NONE /\ Bucket(dataBuf[b].lsa) = h}
        /\ \A b \in InBucket(h) :
              /\ dataBuf[b].hashPrev = NONE <=> hashTable[h].head = b
              /\ dataBuf[b].hashNext = NONE <=> hashTable[h].tail = b
              /\ dataBuf[b].hashNext # NONE => dataBuf[dataBuf[b].hashNext].hashPrev = b

\* Both doubly linked structures through the table of entries agree in both
\* directions after every command, so no removal cuts off a part of them.
LinksExact == LruLinksAgree /\ BucketsExact

\* AllocateDataBuf's claim: an entry leaves the bucket of its old address.
EvictedEntriesLeave ==
    \A b \in Bufs, h \in Bufs : b \in InBucket(h) => Bucket(dataBuf[b].lsa) = h
=============================================================================
