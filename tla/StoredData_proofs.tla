-------------------------- MODULE StoredData_proofs --------------------------
(***************************************************************************)
(* The translation layer, first by itself and then with the data it        *)
(* stores, for any number of channels, ways, blocks, pages and logical     *)
(* slices, as long as the collector never erases the current block         *)
(* (SpecUnlessCurrentErased).                                              *)
(*                                                                         *)
(* First, its structures stay consistent through every write and every     *)
(* step of a garbage collection. The count of invalid slices is exact only *)
(* because the maps agree; the victim lists are exact only because the     *)
(* count is; the collector keeps the maps only because it leaves nothing   *)
(* behind in its victim; and the free list holds erased blocks only        *)
(* because a victim was on no list. So one inductive invariant, IInv,      *)
(* holds all of it.  Two more count: the copies of a collection fit in the *)
(* reserve block, and a die with room for a slice has a victim.            *)
(*                                                                         *)
(* Then, with the data, the layer implements the store of logical slices.  *)
(* The argument needs of IInv that the maps agree, that a page is given    *)
(* out only once between erases, and that the collector leaves nothing     *)
(* behind.                                                                 *)
(***************************************************************************)
EXTENDS StoredData, LinkedLists_proofs, FiniteSetTheorems

P == USER_PAGES_PER_BLOCK

\* The pages of a block to which a logical slice is mapped.
Mapped(m, d, b) == {p \in Pages : \E l \in LogicalSlices : m[l] = <<d, b, p>>}

\* MapsAgree with the parts of a slice address spelled out.
Agreement ==
    \A l \in LogicalSlices, d \in Dies, b \in Blocks, p \in Pages :
        l2v[l] = <<d, b, p>> => v2l[<<d, b, p>>] = l /\ p < currentPage[d][b]

\* InvalidCountExact in terms of the logical map alone.
CountInv ==
    \A d \in Dies, b \in Blocks : ~BeingCollected(d, b) =>
        invalidCnt[d][b] + Cardinality(Mapped(l2v, d, b)) = currentPage[d][b]

\* A victim list holds once each block that has its count of invalid slices.
ListInv ==
    \A d \in Dies, n \in 0 .. SLICES_PER_BLOCK :
        /\ Distinct(victimList[d][n])
        /\ \A b \in Blocks : InList(victimList[d][n], b) <=>
              n > 0 /\ n = invalidCnt[d][b] /\ ~BeingCollected(d, b)

\* A free block is erased, and neither current nor the collector's victim.
FreeInv ==
    \A d \in Dies :
        /\ Distinct(fbList[d])
        /\ \A b \in Blocks : InList(fbList[d], b) =>
              currentPage[d][b] = 0 /\ b # currentBlock[d] /\ ~BeingCollected(d, b)

\* What the local variables of a call in progress hold.
CallInv ==
    /\ pc # "idle" => lsa \in LogicalSlices /\ l2v[lsa] = NONE
    /\ pc \in {"copy", "erase"} => victim \in Blocks
    /\ pc = "copy" => gcPage \in Pages
    /\ ~ErasesCurrentBlock

\* The copy loop has moved every live slice of the pages it has passed.
NothingLeftBehind ==
    pc \in {"copy", "erase"} =>
        \A l \in LogicalSlices, p \in Pages :
            l2v[l] = <<targetDie, victim, p>> => pc = "copy" /\ gcPage <= p

IInv ==
    /\ TypeOK
    /\ Agreement
    /\ CountInv
    /\ ListInv
    /\ FreeInv
    /\ CallInv
    /\ NothingLeftBehind

-----------------------------------------------------------------------------
(* Slice addresses, valid pages and the geometry.                          *)

\* A slice address is its three parts.
LEMMA SliceParts ==
    ASSUME NEW v \in Slices
    PROVE  /\ v[1] \in Dies /\ v[2] \in Blocks /\ v[3] \in Pages
           /\ v = <<v[1], v[2], v[3]>>
    BY DEF Slices

\* The geometry in the form the steps below use.
LEMMA Geometry ==
    /\ P \in Nat /\ P > 0
    /\ P = SLICES_PER_BLOCK
    /\ \A p : p \in Pages <=> p \in Int /\ 0 <= p /\ p < P
    BY GeometryAssumption DEF P, SLICES_PER_BLOCK, Pages

\* The two forms of the agreement of the maps say the same.
LEMMA AgreementIsMapsAgree ==
    ASSUME TypeOK
    PROVE  Agreement <=> MapsAgree
<1>1. ASSUME Agreement, NEW l \in LogicalSlices, l2v[l] # NONE
      PROVE  v2l[l2v[l]] = l /\ l2v[l][3] < currentPage[l2v[l][1]][l2v[l][2]]
    <2>1. l2v[l] \in Slices
        BY <1>1 DEF TypeOK
    <2> QED
        BY <1>1, <2>1, SliceParts DEF Agreement
<1>2. ASSUME MapsAgree, NEW l \in LogicalSlices, NEW d \in Dies, NEW b \in Blocks,
             NEW p \in Pages, l2v[l] = <<d, b, p>>
      PROVE  v2l[<<d, b, p>>] = l /\ p < currentPage[d][b]
    <2>1. <<d, b, p>> \in Slices
        BY DEF Slices
    <2>2. l2v[l] # NONE
        BY <1>2, <2>1, NoneAssumption
    <2> QED
        BY <1>2, <2>2 DEF MapsAgree
<1> QED
    BY <1>1, <1>2 DEF Agreement, MapsAgree

\* A slice holds valid data exactly when some logical slice is mapped to it.
LEMMA ValidIsMapped ==
    ASSUME TypeOK, Agreement, NEW d \in Dies, NEW b \in Blocks, NEW p \in Pages
    PROVE  IsValid(<<d, b, p>>) <=> \E l \in LogicalSlices : l2v[l] = <<d, b, p>>
<1> DEFINE v == <<d, b, p>>
<1>1. v \in Slices
    BY DEF Slices
<1>2. v2l[v] \in LogicalSlices \cup {NONE}
    BY <1>1 DEF TypeOK
<1>3. ASSUME NEW l \in LogicalSlices, l2v[l] = v
      PROVE  v2l[v] = l /\ l # NONE
    BY <1>3, NoneAssumption DEF Agreement
<1> QED
    BY <1>2, <1>3 DEF IsValid

LEMMA ValidPagesAreMapped ==
    ASSUME TypeOK, Agreement, NEW d \in Dies, NEW b \in Blocks
    PROVE  ValidPages(d, b) = Mapped(l2v, d, b)
    BY ValidIsMapped DEF ValidPages, Mapped

\* The mapped pages of a block are finitely many.
LEMMA MappedFinite ==
    ASSUME NEW m, NEW d, NEW b
    PROVE  /\ IsFiniteSet(Mapped(m, d, b))
           /\ Cardinality(Mapped(m, d, b)) \in Nat
<1>1. IsFiniteSet(Pages)
    BY GeometryAssumption, FS_Interval DEF Pages
<1>2. Mapped(m, d, b) \in SUBSET Pages
    BY DEF Mapped
<1>3. IsFiniteSet(Mapped(m, d, b))
    BY <1>1, <1>2, FS_Subset
<1> QED
    BY <1>3, FS_CardinalityType

\* The next die to allocate from is a die of the device.
LEMMA DieInRange ==
    ASSUME NEW ch \in 0 .. USER_CHANNELS - 1, NEW way \in 0 .. USER_WAYS - 1
    PROVE  ch + way * USER_CHANNELS \in Dies
<1>1. USER_CHANNELS \in Nat /\ USER_WAYS \in Nat
    BY GeometryAssumption
<1>2. way * USER_CHANNELS <= (USER_WAYS - 1) * USER_CHANNELS
    BY <1>1
<1>3. (USER_WAYS - 1) * USER_CHANNELS = USER_CHANNELS * USER_WAYS - USER_CHANNELS
    BY <1>1
<1>4. way * USER_CHANNELS \in Nat /\ USER_CHANNELS * USER_WAYS \in Nat
    BY <1>1
<1> QED
    BY <1>1, <1>2, <1>3, <1>4 DEF Dies, USER_DIES

-----------------------------------------------------------------------------
(* Giving the next page of a block to a logical slice.                     *)

\* What Program leaves in the three structures it writes.
LEMMA ProgramEffect ==
    ASSUME TypeOK, NEW d \in Dies, NEW b \in Blocks, NEW l \in LogicalSlices,
           currentPage[d][b] # P, Program(d, b, l)
    PROVE  /\ currentPage[d][b] \in Pages
           /\ <<d, b, currentPage[d][b]>> \in Slices
           /\ l2v' \in [LogicalSlices -> Slices \cup {NONE}]
           /\ v2l' \in [Slices -> LogicalSlices \cup {NONE}]
           /\ currentPage' \in [Dies -> [Blocks -> 0 .. P]]
           /\ \A k \in LogicalSlices :
                 l2v'[k] = IF k = l THEN <<d, b, currentPage[d][b]>> ELSE l2v[k]
           /\ \A v \in Slices :
                 v2l'[v] = IF v = <<d, b, currentPage[d][b]>> THEN l ELSE v2l[v]
           /\ \A dd \in Dies, bb \in Blocks :
                 currentPage'[dd][bb] = IF dd = d /\ bb = b THEN currentPage[d][b] + 1
                                                            ELSE currentPage[dd][bb]
<1> DEFINE cp == currentPage[d][b]
<1>1. cp \in 0 .. P
    BY DEF TypeOK, P
<1>2. cp \in Pages
    BY <1>1, Geometry
<1>3. <<d, b, cp>> \in Slices
    BY <1>2 DEF Slices
<1>4. cp + 1 \in 0 .. P
    BY <1>1, Geometry
<1>5. /\ currentPage' = [currentPage EXCEPT ![d][b] = cp + 1]
      /\ l2v' = [l2v EXCEPT ![l] = <<d, b, cp>>]
      /\ v2l' = [v2l EXCEPT ![<<d, b, cp>>] = l]
    BY DEF Program
<1> HIDE DEF cp
<1>6. /\ l2v \in [LogicalSlices -> Slices \cup {NONE}]
      /\ v2l \in [Slices -> LogicalSlices \cup {NONE}]
      /\ currentPage \in [Dies -> [Blocks -> 0 .. P]]
    BY DEF TypeOK, P
<1>7. l2v' \in [LogicalSlices -> Slices \cup {NONE}]
    BY <1>3, <1>5, <1>6
<1>8. v2l' \in [Slices -> LogicalSlices \cup {NONE}]
    BY <1>3, <1>5, <1>6
<1>9. currentPage' \in [Dies -> [Blocks -> 0 .. P]]
    BY <1>4, <1>5, <1>6
<1>10. \A k \in LogicalSlices : l2v'[k] = IF k = l THEN <<d, b, cp>> ELSE l2v[k]
    BY <1>5, <1>6
<1>11. \A v \in Slices : v2l'[v] = IF v = <<d, b, cp>> THEN l ELSE v2l[v]
    BY <1>3, <1>5, <1>6
<1>12. \A dd \in Dies, bb \in Blocks :
          currentPage'[dd][bb] = IF dd = d /\ bb = b THEN cp + 1 ELSE currentPage[dd][bb]
    BY <1>5, <1>6
<1> QED
    BY <1>2, <1>3, <1>7, <1>8, <1>9, <1>10, <1>11, <1>12 DEF cp

\* Nothing was mapped to that page, and the maps still agree.
LEMMA ProgramAgrees ==
    ASSUME TypeOK, Agreement, NEW d \in Dies, NEW b \in Blocks, NEW l \in LogicalSlices,
           currentPage[d][b] # P, Program(d, b, l)
    PROVE  /\ Agreement'
           /\ \A k \in LogicalSlices : l2v[k] # <<d, b, currentPage[d][b]>>
<1> DEFINE cp == currentPage[d][b]
<1>1. /\ cp \in Pages
      /\ \A k \in LogicalSlices : l2v'[k] = IF k = l THEN <<d, b, cp>> ELSE l2v[k]
      /\ \A v \in Slices : v2l'[v] = IF v = <<d, b, cp>> THEN l ELSE v2l[v]
      /\ \A dd \in Dies, bb \in Blocks :
            currentPage'[dd][bb] = IF dd = d /\ bb = b THEN cp + 1 ELSE currentPage[dd][bb]
    BY ProgramEffect
<1>2. cp \in Int
    BY <1>1, Geometry
<1>3. \A k \in LogicalSlices : l2v[k] # <<d, b, cp>>
    BY <1>1, <1>2 DEF Agreement
<1>4. currentPage \in [Dies -> [Blocks -> 0 .. P]]
    BY DEF TypeOK, P
<1> HIDE DEF cp
<1>5. ASSUME NEW k \in LogicalSlices, NEW dd \in Dies, NEW bb \in Blocks, NEW p \in Pages,
             l2v'[k] = <<dd, bb, p>>
      PROVE  v2l'[<<dd, bb, p>>] = k /\ p < currentPage'[dd][bb]
    <2>1. <<dd, bb, p>> \in Slices
        BY DEF Slices
    <2>2. CASE k = l
        <3>1. dd = d /\ bb = b /\ p = cp
            BY <1>1, <1>5, <2>2
        <3>2. v2l'[<<dd, bb, p>>] = k
            BY <1>1, <2>1, <2>2, <3>1
        <3>3. currentPage'[dd][bb] = cp + 1
            BY <1>1, <3>1
        <3> QED
            BY <1>2, <3>1, <3>2, <3>3
    <2>3. CASE k # l
        <3>1. l2v[k] = <<dd, bb, p>>
            BY <1>1, <1>5, <2>3
        <3>2. v2l[<<dd, bb, p>>] = k /\ p < currentPage[dd][bb]
            BY <3>1 DEF Agreement
        <3>3. <<dd, bb, p>> # <<d, b, cp>>
            BY <1>3, <3>1
        <3>4. v2l'[<<dd, bb, p>>] = k
            BY <1>1, <2>1, <3>2, <3>3
        <3>5. currentPage'[dd][bb] = currentPage[dd][bb] \/ (currentPage'[dd][bb] = cp + 1 /\ currentPage[dd][bb] = cp)
            BY <1>1 DEF cp
        <3>6. p \in Int
            BY Geometry
        <3> QED
            BY <1>2, <3>2, <3>4, <3>5, <3>6
    <2> QED
        BY <2>2, <2>3
<1>6. Agreement'
    BY <1>5 DEF Agreement
<1> QED
    BY <1>3, <1>6 DEF cp

\* The pages mapped in each block the slice was not moved out of.
LEMMA ProgramMapped ==
    ASSUME TypeOK, Agreement, NEW d \in Dies, NEW b \in Blocks, NEW l \in LogicalSlices,
           currentPage[d][b] # P, Program(d, b, l),
           NEW dd \in Dies, NEW bb \in Blocks,
           \A p \in Pages : l2v[l] # <<dd, bb, p>>
    PROVE  IF dd = d /\ bb = b
           THEN Cardinality(Mapped(l2v, dd, bb)') = Cardinality(Mapped(l2v, dd, bb)) + 1
           ELSE Mapped(l2v, dd, bb)' = Mapped(l2v, dd, bb)
<1> DEFINE cp == currentPage[d][b]
<1>1. cp \in Pages /\ \A k \in LogicalSlices : l2v[k] # <<d, b, cp>>
    BY ProgramEffect, ProgramAgrees
<1>2. \A k \in LogicalSlices : l2v'[k] = IF k = l THEN <<d, b, cp>> ELSE l2v[k]
    BY ProgramEffect
<1> HIDE DEF cp
<1>3. CASE dd = d /\ bb = b
    <2>1. Mapped(l2v, dd, bb)' = Mapped(l2v, dd, bb) \cup {cp}
        BY <1>1, <1>2, <1>3 DEF Mapped
    <2>2. cp \notin Mapped(l2v, dd, bb)
        BY <1>1, <1>3 DEF Mapped
    <2> DEFINE M == Mapped(l2v, dd, bb)
    <2>3. IsFiniteSet(M)
        BY MappedFinite
    <2> HIDE DEF M
    <2>4. Cardinality(M \cup {cp}) = IF cp \in M THEN Cardinality(M) ELSE Cardinality(M) + 1
        BY <2>3, FS_AddElement
    <2>5. Cardinality(M \cup {cp}) = Cardinality(M) + 1
        BY <2>2, <2>4 DEF M
    <2> QED
        BY <1>3, <2>1, <2>5 DEF M
<1>4. CASE ~(dd = d /\ bb = b)
    <2>1. Mapped(l2v, dd, bb)' = Mapped(l2v, dd, bb)
        BY <1>1, <1>2, <1>4 DEF Mapped
    <2> QED
        BY <1>4, <2>1
<1> QED
    BY <1>3, <1>4

\* Of the write positions, only that of the block written moves.
LEMMA ProgramPages ==
    ASSUME TypeOK, NEW d \in Dies, NEW b \in Blocks, NEW l \in LogicalSlices,
           currentPage[d][b] # P, Program(d, b, l)
    PROVE  \A e \in Dies, c \in Blocks :
              currentPage'[e][c] = IF e = d /\ c = b THEN currentPage[d][b] + 1
                                                     ELSE currentPage[e][c]
<1> DEFINE cp == currentPage[d][b]
<1>1. currentPage' = [currentPage EXCEPT ![d][b] = cp + 1]
    BY DEF Program
<1>2. currentPage \in [Dies -> [Blocks -> 0 .. P]]
    BY DEF TypeOK, P
<1> HIDE DEF cp
<1>3. \A e \in Dies, c \in Blocks :
         currentPage'[e][c] = IF e = d /\ c = b THEN cp + 1 ELSE currentPage[e][c]
    BY <1>1, <1>2
<1> QED
    BY <1>3 DEF cp

\* The counts stay exact, if no block leaves the collector's hands and the
\* slice was not moved out of a block that counts.
LEMMA ProgramCounts ==
    ASSUME TypeOK, Agreement, CountInv,
           NEW d \in Dies, NEW b \in Blocks, NEW l \in LogicalSlices,
           currentPage[d][b] # P, Program(d, b, l),
           UNCHANGED invalidCnt,
           \A dd \in Dies, bb \in Blocks : ~BeingCollected(dd, bb)' =>
              ~BeingCollected(dd, bb) /\ \A p \in Pages : l2v[l] # <<dd, bb, p>>
    PROVE  CountInv'
<1>2. \A e \in Dies, c \in Blocks :
          currentPage'[e][c] = IF e = d /\ c = b THEN currentPage[d][b] + 1
                                                 ELSE currentPage[e][c]
    BY ProgramPages
<1> SUFFICES ASSUME NEW dd \in Dies, NEW bb \in Blocks, ~BeingCollected(dd, bb)'
             PROVE  invalidCnt'[dd][bb] + Cardinality(Mapped(l2v, dd, bb)') = currentPage'[dd][bb]
    BY DEF CountInv
<1>1. invalidCnt[dd][bb] + Cardinality(Mapped(l2v, dd, bb)) = currentPage[dd][bb]
    BY DEF CountInv
<1>3. invalidCnt[dd][bb] \in Nat
    BY GeometryAssumption DEF TypeOK, SLICES_PER_BLOCK
<1>4. Cardinality(Mapped(l2v, dd, bb)) \in Nat
    BY MappedFinite
<1>5. \A p \in Pages : l2v[l] # <<dd, bb, p>>
    OBVIOUS
<1>6. CASE dd = d /\ bb = b
    <2>1. Cardinality(Mapped(l2v, dd, bb)') = Cardinality(Mapped(l2v, dd, bb)) + 1
        BY <1>5, <1>6, ProgramMapped
    <2> QED
        BY <1>1, <1>2, <1>3, <1>4, <1>6, <2>1
<1>7. CASE ~(dd = d /\ bb = b)
    <2>1. Mapped(l2v, dd, bb)' = Mapped(l2v, dd, bb)
        BY <1>5, <1>7, ProgramMapped
    <2> QED
        BY <1>1, <1>2, <1>7, <2>1
<1> QED
    BY <1>6, <1>7

-----------------------------------------------------------------------------
(* The inductive invariant holds after InitAddressMap.                     *)

LEMMA InitInv == Init => IInv
<1> SUFFICES ASSUME Init PROVE IInv
    OBVIOUS
<1> USE DEF Init, InitSliceMap, InitBlockMap, InitCurrentBlockOfDieMap, InitGcVictimMap
<1>1. ASSUME NEW d \in Dies
      PROVE  /\ Head(FreeAtBoot[d]) \in Blocks
             /\ Tail(FreeAtBoot[d]) \in Seq(Blocks)
             /\ Distinct(Tail(FreeAtBoot[d]))
             /\ ~InList(Tail(FreeAtBoot[d]), Head(FreeAtBoot[d]))
    <2> DEFINE q == FreeAtBoot[d]
    <2>1. q \in Seq(Blocks) /\ Len(q) > 1 /\ Distinct(q)
        BY FreeAtBootAssumption DEF RESERVED_FREE_BLOCK_COUNT, Distinct
    <2> HIDE DEF q
    <2>2. q # <<>>
        BY <2>1, EmptySeq
    <2>3. /\ Head(q) \in Blocks /\ Tail(q) \in Seq(Blocks) /\ Distinct(Tail(q))
          /\ ~InList(Tail(q), Head(q))
        BY <2>1, <2>2, TailList
    <2> QED
        BY <2>3 DEF q
<1>2. TypeOK
    <2>1. l2v \in [LogicalSlices -> Slices \cup {NONE}] /\ v2l \in [Slices -> LogicalSlices \cup {NONE}]
        OBVIOUS
    <2>2. /\ currentPage \in [Dies -> [Blocks -> 0 .. USER_PAGES_PER_BLOCK]]
          /\ invalidCnt \in [Dies -> [Blocks -> 0 .. SLICES_PER_BLOCK]]
        BY GeometryAssumption DEF SLICES_PER_BLOCK
    <2>3. fbList \in [Dies -> Seq(Blocks)] /\ currentBlock \in [Dies -> Blocks]
        BY <1>1
    <2>4. victimList \in [Dies -> [0 .. SLICES_PER_BLOCK -> Seq(Blocks)]]
        BY EmptySeq
    <2>5. targetCh \in 0 .. USER_CHANNELS - 1
        BY GeometryAssumption
    <2>6. targetWay \in 0 .. USER_WAYS - 1
        BY GeometryAssumption
    <2>7. targetDie \in Dies
        BY GeometryAssumption DEF Dies
    <2>8. pc \in PCs /\ lsa \in LogicalSlices \cup {NONE} /\ victim \in Blocks \cup {NONE}
        BY DEF PCs
    <2>9. gcPage \in 0 .. USER_PAGES_PER_BLOCK
        BY GeometryAssumption
    <2> QED
        BY <2>1, <2>2, <2>3, <2>4, <2>5, <2>6, <2>7, <2>8, <2>9 DEF TypeOK
<1>3. \A l \in LogicalSlices, d \in Dies, b \in Blocks, p \in Pages : l2v[l] # <<d, b, p>>
    BY NoneAssumption DEF Slices
<1>4. CountInv
    <2> SUFFICES ASSUME NEW d \in Dies, NEW b \in Blocks
                 PROVE  invalidCnt[d][b] + Cardinality(Mapped(l2v, d, b)) = currentPage[d][b]
        BY DEF CountInv
    <2>1. Mapped(l2v, d, b) = {}
        BY <1>3 DEF Mapped
    <2>2. Cardinality(Mapped(l2v, d, b)) = 0
        BY <2>1, FS_EmptySet
    <2>3. invalidCnt[d][b] = 0 /\ currentPage[d][b] = 0
        OBVIOUS
    <2> QED
        BY <2>2, <2>3
<1>5. ListInv
    <2> SUFFICES ASSUME NEW d \in Dies, NEW n \in 0 .. SLICES_PER_BLOCK
                 PROVE  /\ Distinct(victimList[d][n])
                        /\ \A b \in Blocks : InList(victimList[d][n], b) <=>
                              n > 0 /\ n = invalidCnt[d][b] /\ ~BeingCollected(d, b)
        BY DEF ListInv
    <2>1. victimList[d][n] = <<>>
        OBVIOUS
    <2>2. Len(<<>>) = 0
        BY EmptySeq
    <2>3. \A b \in Blocks : invalidCnt[d][b] = 0
        OBVIOUS
    <2>4. Distinct(victimList[d][n]) /\ \A b \in Blocks : ~InList(victimList[d][n], b)
        BY <2>1, <2>2 DEF Distinct, InList
    <2> QED
        BY <2>3, <2>4
<1>6. FreeInv
    <2>1. \A d \in Dies, b \in Blocks : currentPage[d][b] = 0 /\ ~BeingCollected(d, b)
        BY DEF BeingCollected
    <2> QED
        BY <1>1, <2>1 DEF FreeInv
<1>7. Agreement /\ CallInv /\ NothingLeftBehind
    BY <1>3 DEF Agreement, CallInv, NothingLeftBehind, ErasesCurrentBlock
<1> QED
    BY <1>2, <1>4, <1>5, <1>6, <1>7 DEF IInv

-----------------------------------------------------------------------------
(* AddrTransWrite: the write begins and its old slice is invalidated.      *)

\* Block b leaves victim list n of die d for the next; no other list changes.
BlockMovesUp(d, b, n) ==
    /\ victimList' \in [Dies -> [0 .. P -> Seq(Blocks)]]
    /\ \A e \in Dies, m \in 0 .. P :
        /\ Distinct(victimList'[e][m])
        /\ \A c \in Blocks : InList(victimList'[e][m], c) <=>
              IF e = d /\ c = b THEN m = n + 1 ELSE InList(victimList[e][m], c)

\* The block of the old slice moves up one victim list.
LEMMA InvalidateMovesBlock ==
    ASSUME TypeOK, ListInv, NEW d \in Dies, NEW b \in Blocks, NEW n \in 0 .. P - 1,
           n = invalidCnt[d][b], ~BeingCollected(d, b),
           NEW moved, moved = [victimList[d] EXCEPT ![n] = Unlink(victimList[d][n], b),
                                                    ![n + 1] = Append(victimList[d][n + 1], b)],
           victimList' = [victimList EXCEPT ![d] = moved]
    PROVE  BlockMovesUp(d, b, n)
<1>1. n \in 0 .. P /\ n + 1 \in 0 .. P /\ n # n + 1
    BY Geometry
<1>2. victimList \in [Dies -> [0 .. P -> Seq(Blocks)]]
    BY DEF TypeOK, P, SLICES_PER_BLOCK
<1>3. \A e \in Dies, m \in 0 .. P :
          /\ Distinct(victimList[e][m])
          /\ InList(victimList[e][m], b) /\ e = d => m = n
    BY Geometry DEF ListInv
<1> DEFINE low  == Unlink(victimList[d][n], b)
           high == Append(victimList[d][n + 1], b)
<1>4. moved = [victimList[d] EXCEPT ![n] = low, ![n + 1] = high]
    OBVIOUS
<1>5. /\ low \in Seq(Blocks) /\ Distinct(low)
      /\ \A c : InList(low, c) <=> InList(victimList[d][n], c) /\ c # b
    <2>1. victimList[d][n] \in Seq(Blocks)
        BY <1>1, <1>2
    <2>2. Distinct(victimList[d][n])
        BY <1>1, <1>3
    <2> QED
        BY <2>1, <2>2, UnlinkList
<1>6. ~InList(victimList[d][n + 1], b)
    BY <1>1, <1>3
<1>7. /\ high \in Seq(Blocks) /\ Distinct(high)
      /\ \A c : InList(high, c) <=> InList(victimList[d][n + 1], c) \/ c = b
    <2>1. victimList[d][n + 1] \in Seq(Blocks)
        BY <1>1, <1>2
    <2>2. Distinct(victimList[d][n + 1])
        BY <1>1, <1>3
    <2> QED
        BY <1>6, <2>1, <2>2, AppendList
<1> HIDE DEF low, high
<1>8. /\ moved \in [0 .. P -> Seq(Blocks)]
      /\ moved[n] = low /\ moved[n + 1] = high
      /\ \A m \in 0 .. P : m # n /\ m # n + 1 => moved[m] = victimList[d][m]
    <2>1. victimList[d] \in [0 .. P -> Seq(Blocks)]
        BY <1>2
    <2>2. low \in Seq(Blocks) /\ high \in Seq(Blocks)
        BY <1>5, <1>7
    <2> QED
        BY ONLY <1>1, <1>4, <2>1, <2>2
<1>9. /\ victimList' \in [Dies -> [0 .. P -> Seq(Blocks)]]
      /\ victimList'[d] = moved
      /\ \A e \in Dies : e # d => victimList'[e] = victimList[e]
    BY <1>2, <1>8
<1>10. ASSUME NEW e \in Dies, NEW m \in 0 .. P
       PROVE  Distinct(victimList'[e][m])
    <2>1. CASE e = d /\ m = n
        BY <1>5, <1>8, <1>9, <2>1
    <2>2. CASE e = d /\ m = n + 1
        BY <1>7, <1>8, <1>9, <2>2
    <2>3. CASE e # d \/ m \notin {n, n + 1}
        <3>1. victimList'[e][m] = victimList[e][m]
            BY <1>8, <1>9, <2>3
        <3> QED
            BY <1>3, <3>1
    <2> QED
        BY <2>1, <2>2, <2>3
<1>11. ASSUME NEW e \in Dies, NEW m \in 0 .. P, NEW c \in Blocks
       PROVE  InList(victimList'[e][m], c) <=>
                 IF e = d /\ c = b THEN m = n + 1 ELSE InList(victimList[e][m], c)
    <2>1. CASE e = d /\ m = n
        <3>1. InList(victimList'[e][m], c) <=> InList(victimList[e][m], c) /\ c # b
            BY <1>5, <1>8, <1>9, <2>1
        <3> QED
            BY <1>1, <2>1, <3>1
    <2>2. CASE e = d /\ m = n + 1
        <3>1. InList(victimList'[e][m], c) <=> InList(victimList[e][m], c) \/ c = b
            BY <1>7, <1>8, <1>9, <2>2
        <3> QED
            BY <1>1, <2>2, <3>1
    <2>3. CASE e # d \/ m \notin {n, n + 1}
        <3>1. victimList'[e][m] = victimList[e][m]
            BY <1>8, <1>9, <2>3
        <3>2. e = d => ~InList(victimList[e][m], b) /\ m # n + 1
            BY <1>3, <2>3
        <3> QED
            BY <3>1, <3>2
    <2> QED
        BY <2>1, <2>2, <2>3
<1> QED
    BY <1>9, <1>10, <1>11 DEF BlockMovesUp

LEMMA AddrTransWriteInv ==
    ASSUME IInv, NEW l \in LogicalSlices, AddrTransWrite(l)
    PROVE  IInv'
<1> USE DEF IInv
<1>1. /\ pc = "idle" /\ pc' = "alloc" /\ lsa' = l
      /\ UNCHANGED <<currentPage, fbList, currentBlock, targetCh, targetWay, targetDie, victim, gcPage>>
    BY DEF AddrTransWrite, die, gc
<1>2. \A d, b : ~BeingCollected(d, b) /\ ~BeingCollected(d, b)'
    BY <1>1 DEF BeingCollected
<1>3. /\ pc' \in PCs /\ lsa' \in LogicalSlices \cup {NONE}
      /\ pc' \notin {"copy", "erase"} /\ pc' # "copy"
    BY <1>1 DEF PCs
<1>4. CASE l2v[l] # NONE /\ v2l[l2v[l]] = l
    <2>2. PICK d \in Dies, b \in Blocks, p \in Pages : l2v[l] = <<d, b, p>>
        <3>1. l2v[l] \in Slices
            BY <1>4 DEF TypeOK
        <3> QED
            BY <3>1 DEF Slices
    <2>3. PICK n \in 0 .. P : n = invalidCnt[d][b]
        BY DEF TypeOK, P, SLICES_PER_BLOCK
    <2>1. /\ l2v' = [l2v EXCEPT ![l] = NONE]
          /\ invalidCnt' = [invalidCnt EXCEPT ![d][b] = n + 1]
          /\ victimList' = [victimList EXCEPT ![d][n] = Unlink(@, b), ![d][n + 1] = Append(@, b)]
          /\ v2l' = v2l
        BY <1>4, <2>2, <2>3
           DEF AddrTransWrite, InvalidateOldVsa, Vsa2VdieTranslation, Vsa2VblockTranslation
    <2> DEFINE M == Mapped(l2v, d, b)
    <2>4. IsFiniteSet(M) /\ Cardinality(M) \in Nat
        BY MappedFinite
    <2>5. n + Cardinality(M) = currentPage[d][b]
        BY <1>2, <2>3 DEF CountInv
    <2>7. p \in M
        BY <2>2 DEF Mapped
    <2>8. Mapped(l2v, d, b)' = M \ {p}
        <3>1. \A k \in LogicalSlices : l2v'[k] = IF k = l THEN NONE ELSE l2v[k]
            BY <2>1 DEF TypeOK
        <3>2. \A k \in LogicalSlices : l2v[k] = <<d, b, p>> => k = l
            BY <2>2 DEF Agreement
        <3>3. \A q \in Pages : NONE # <<d, b, q>>
            BY NoneAssumption DEF Slices
        <3> QED
            BY <2>2, <3>1, <3>2, <3>3 DEF Mapped
    <2>9. \A e \in Dies, c \in Blocks :
              ~(e = d /\ c = b) => Mapped(l2v, e, c)' = Mapped(l2v, e, c)
        <3>1. \A k \in LogicalSlices : l2v'[k] = IF k = l THEN NONE ELSE l2v[k]
            BY <2>1 DEF TypeOK
        <3>2. \A e \in Dies, c \in Blocks, q \in Pages : NONE # <<e, c, q>>
            BY NoneAssumption DEF Slices
        <3> QED
            BY <2>2, <3>1, <3>2 DEF Mapped
    <2> HIDE DEF M
    <2>10. Cardinality(M \ {p}) = Cardinality(M) - 1
        BY <2>4, <2>7, FS_RemoveElement
    <2>12. currentPage[d][b] \in 0 .. P
        BY DEF TypeOK, P
    <2>13. Cardinality(M) # 0
        BY <2>4, <2>7, FS_EmptySet
    <2>14. n \in 0 .. P - 1
        BY <2>4, <2>5, <2>12, <2>13, Geometry
    <2>15. \A e \in Dies, c \in Blocks :
               invalidCnt'[e][c] = IF e = d /\ c = b THEN n + 1 ELSE invalidCnt[e][c]
        BY <2>1, <2>3 DEF TypeOK
    <2>17. BlockMovesUp(d, b, n)
        <3>1. ~BeingCollected(d, b)
            BY <1>2
        <3> DEFINE moved == [victimList[d] EXCEPT ![n] = Unlink(victimList[d][n], b),
                                                  ![n + 1] = Append(victimList[d][n + 1], b)]
        <3>2. n + 1 # n
            OBVIOUS
        <3>3. victimList' = [victimList EXCEPT ![d] = moved]
            BY <2>1, <3>2 DEF TypeOK
        <3>4. moved = [victimList[d] EXCEPT ![n] = Unlink(victimList[d][n], b),
                                            ![n + 1] = Append(victimList[d][n + 1], b)]
            OBVIOUS
        <3> HIDE DEF moved
        <3> QED
            BY ONLY TypeOK, ListInv, d \in Dies, b \in Blocks,
                    <2>3, <2>14, <3>1, <3>3, <3>4, InvalidateMovesBlock
    <2>18. TypeOK'
        <3>1. l2v' \in [LogicalSlices -> Slices \cup {NONE}]
            BY <2>1 DEF TypeOK
        <3>2. n + 1 \in 0 .. SLICES_PER_BLOCK
            BY <2>14, Geometry
        <3>3. invalidCnt' \in [Dies -> [Blocks -> 0 .. SLICES_PER_BLOCK]]
            BY <2>1, <2>3, <3>2 DEF TypeOK
        <3> QED
            BY <1>1, <1>3, <2>1, <2>17, <3>1, <3>3 DEF TypeOK, P, SLICES_PER_BLOCK, BlockMovesUp
    <2>19. Agreement'
        <3>1. \A k \in LogicalSlices : l2v'[k] = IF k = l THEN NONE ELSE l2v[k]
            BY <2>1 DEF TypeOK
        <3>2. \A e \in Dies, c \in Blocks, q \in Pages : NONE # <<e, c, q>>
            BY NoneAssumption DEF Slices
        <3> QED
            BY <1>1, <2>1, <3>1, <3>2 DEF Agreement
    <2>20. CountInv'
        <3> SUFFICES ASSUME NEW e \in Dies, NEW c \in Blocks
                     PROVE  invalidCnt'[e][c] + Cardinality(Mapped(l2v, e, c)') = currentPage[e][c]
            BY <1>1 DEF CountInv
        <3>1. CASE e = d /\ c = b
            <4>1. invalidCnt'[e][c] = n + 1 /\ Mapped(l2v, e, c)' = M \ {p}
                BY <2>8, <2>15, <3>1
            <4> QED
                BY <2>4, <2>5, <2>10, <2>14, <3>1, <4>1
        <3>2. CASE ~(e = d /\ c = b)
            <4>1. invalidCnt'[e][c] = invalidCnt[e][c] /\ Mapped(l2v, e, c)' = Mapped(l2v, e, c)
                BY <2>9, <2>15, <3>2
            <4> QED
                BY <1>2, <4>1 DEF CountInv
        <3> QED
            BY <3>1, <3>2
    <2>21. ListInv'
        <3> SUFFICES ASSUME NEW e \in Dies, NEW m \in 0 .. P, NEW c \in Blocks
                     PROVE  InList(victimList'[e][m], c) <=> m > 0 /\ m = invalidCnt'[e][c]
            BY <1>2, <2>17, Geometry DEF ListInv, BlockMovesUp
        <3>1. InList(victimList[e][m], c) <=> m > 0 /\ m = invalidCnt[e][c]
            BY <1>2, Geometry DEF ListInv
        <3>2. InList(victimList'[e][m], c) <=>
                 IF e = d /\ c = b THEN m = n + 1 ELSE InList(victimList[e][m], c)
            BY <2>17 DEF BlockMovesUp
        <3>3. CASE e = d /\ c = b
            BY <2>14, <2>15, <3>2, <3>3
        <3>4. CASE ~(e = d /\ c = b)
            BY <2>15, <3>1, <3>2, <3>4
        <3> QED
            BY <3>3, <3>4
    <2>22. FreeInv'
        BY <1>1, <1>2 DEF FreeInv
    <2>23. CallInv' /\ NothingLeftBehind'
        <3>1. l2v'[l] = NONE
            BY <2>1 DEF TypeOK
        <3> QED
            BY <1>1, <1>3, <3>1 DEF CallInv, NothingLeftBehind, ErasesCurrentBlock
    <2> QED
        BY <2>18, <2>19, <2>20, <2>21, <2>22, <2>23
<1>5. CASE ~(l2v[l] # NONE /\ v2l[l2v[l]] = l)
    <2>1. l2v' = l2v /\ v2l' = v2l /\ invalidCnt' = invalidCnt /\ victimList' = victimList
        BY <1>5 DEF AddrTransWrite, maps
    <2>2. l2v[l] = NONE
        <3>1. MapsAgree
            BY AgreementIsMapsAgree
        <3> QED
            BY <1>5, <3>1 DEF MapsAgree
    <2>3. TypeOK'
        BY <1>1, <1>3, <2>1 DEF TypeOK
    <2>4. Agreement'
        BY <1>1, <2>1 DEF Agreement
    <2>5. CountInv'
        <3>1. \A e \in Dies, c \in Blocks : Mapped(l2v, e, c)' = Mapped(l2v, e, c)
            BY <2>1 DEF Mapped
        <3> QED
            BY <1>1, <1>2, <2>1, <3>1 DEF CountInv
    <2>6. ListInv' /\ FreeInv'
        BY <1>1, <1>2, <2>1 DEF ListInv, FreeInv
    <2>7. CallInv' /\ NothingLeftBehind'
        BY <1>1, <1>3, <2>1, <2>2 DEF CallInv, NothingLeftBehind, ErasesCurrentBlock
    <2> QED
        BY <2>3, <2>4, <2>5, <2>6, <2>7
<1> QED
    BY <1>4, <1>5

-----------------------------------------------------------------------------
(* FindFreeVirtualSlice: the slice is given a page and the call returns.   *)

\* The free lists after a step that writes to block b of the target die: no
\* list has gained a block, and neither b nor a current block is on one.
FreeListsAfter(b) ==
    /\ fbList' \in [Dies -> Seq(Blocks)]
    /\ currentBlock' \in [Dies -> Blocks]
    /\ \A d \in Dies :
        /\ Distinct(fbList'[d])
        /\ \A c \in Blocks : InList(fbList'[d], c) =>
              InList(fbList[d], c) /\ c # currentBlock'[d] /\ ~(d = targetDie /\ c = b)

\* Taking the head of the target die's free list as its current block.
LEMMA PopFreeBlock ==
    ASSUME TypeOK, FreeInv, fbList[targetDie] # <<>>,
           currentBlock' = [currentBlock EXCEPT ![targetDie] = Head(fbList[targetDie])],
           fbList' = [fbList EXCEPT ![targetDie] = Tail(fbList[targetDie])]
    PROVE  /\ Head(fbList[targetDie]) \in Blocks
           /\ currentPage[targetDie][Head(fbList[targetDie])] = 0
           /\ ~BeingCollected(targetDie, Head(fbList[targetDie]))
           /\ FreeListsAfter(Head(fbList[targetDie]))
<1> DEFINE q == fbList[targetDie]
<1>1. /\ targetDie \in Dies /\ fbList \in [Dies -> Seq(Blocks)]
      /\ currentBlock \in [Dies -> Blocks]
    BY DEF TypeOK
<1>2. q \in Seq(Blocks) /\ q # <<>> /\ Distinct(q)
    BY <1>1 DEF FreeInv
<1> DEFINE h == Head(q)
           t == Tail(q)
<1> HIDE DEF q
<1>3. /\ h \in Blocks /\ InList(q, h) /\ t \in Seq(Blocks) /\ Distinct(t)
      /\ \A x : InList(t, x) <=> InList(q, x) /\ x # h
    BY <1>2, TailList
<1>4. currentBlock' = [currentBlock EXCEPT ![targetDie] = h]
    BY DEF q
<1>5. fbList' = [fbList EXCEPT ![targetDie] = t]
    BY DEF q
<1> HIDE DEF h, t
<1>6. currentPage[targetDie][h] = 0 /\ ~BeingCollected(targetDie, h)
    BY <1>1, <1>3 DEF FreeInv, q
<1>7. fbList' \in [Dies -> Seq(Blocks)] /\ currentBlock' \in [Dies -> Blocks]
    BY <1>1, <1>3, <1>4, <1>5
<1>8. ASSUME NEW d \in Dies
      PROVE  /\ Distinct(fbList'[d])
             /\ \A c \in Blocks : InList(fbList'[d], c) =>
                   InList(fbList[d], c) /\ c # currentBlock'[d] /\ ~(d = targetDie /\ c = h)
    <2>1. CASE d = targetDie
        <3>1. fbList'[d] = t /\ currentBlock'[d] = h
            BY <1>1, <1>4, <1>5, <2>1
        <3>2. fbList[d] = q
            BY <2>1 DEF q
        <3> QED
            BY <1>3, <3>1, <3>2
    <2>2. CASE d # targetDie
        <3>1. fbList'[d] = fbList[d] /\ currentBlock'[d] = currentBlock[d]
            BY <1>1, <1>4, <1>5, <2>2
        <3> QED
            BY <2>2, <3>1 DEF FreeInv
    <2> QED
        BY <2>1, <2>2
<1>9. FreeListsAfter(h)
    BY <1>7, <1>8 DEF FreeListsAfter
<1> QED
    BY <1>3, <1>6, <1>9 DEF h, q

\* Leaving the free lists and the current blocks as they are.
LEMMA KeepFreeBlocks ==
    ASSUME TypeOK, FreeInv, UNCHANGED <<fbList, currentBlock>>
    PROVE  FreeListsAfter(currentBlock[targetDie])
    BY DEF TypeOK, FreeInv, FreeListsAfter

\* Free blocks stay erased when block b is written to.
LEMMA ProgramFreeBlocks ==
    ASSUME TypeOK, FreeInv, NEW b \in Blocks, NEW l \in LogicalSlices,
           currentPage[targetDie][b] # P, Program(targetDie, b, l), FreeListsAfter(b),
           \A d \in Dies, c \in Blocks : BeingCollected(d, c)' => BeingCollected(d, c)
    PROVE  FreeInv'
<1>1. targetDie \in Dies
    BY DEF TypeOK
<1>2. \A d \in Dies, c \in Blocks :
          ~(d = targetDie /\ c = b) => currentPage'[d][c] = currentPage[d][c]
    <2>1. currentPage' = [currentPage EXCEPT ![targetDie][b] = @ + 1]
        BY DEF Program
    <2> QED
        BY <1>1, <2>1 DEF TypeOK
<1> QED
    BY <1>2 DEF FreeInv, FreeListsAfter

LEMMA FinishWriteInv ==
    ASSUME IInv, pc \in {"alloc", "realloc"}, NEW b \in Blocks,
           currentPage[targetDie][b] # P, FinishWrite(b), FreeListsAfter(b)
    PROVE  IInv'
<1> USE DEF IInv
<1>1. /\ Program(targetDie, b, lsa) /\ pc' = "idle" /\ lsa' = NONE
      /\ UNCHANGED <<invalidCnt, victimList, victim, gcPage>>
    BY DEF FinishWrite, gc
<1>2. /\ lsa \in LogicalSlices /\ l2v[lsa] = NONE
      /\ targetDie \in Dies
    BY DEF CallInv, TypeOK
<1>3. \A d, c : ~BeingCollected(d, c) /\ ~BeingCollected(d, c)'
    BY <1>1 DEF BeingCollected
<1>4. \A d \in Dies, c \in Blocks, p \in Pages : l2v[lsa] # <<d, c, p>>
    BY <1>2, NoneAssumption DEF Slices
<1>5. /\ l2v' \in [LogicalSlices -> Slices \cup {NONE}]
      /\ v2l' \in [Slices -> LogicalSlices \cup {NONE}]
      /\ currentPage' \in [Dies -> [Blocks -> 0 .. P]]
    BY <1>1, <1>2, ProgramEffect
<1>6. /\ targetCh' \in 0 .. USER_CHANNELS - 1
      /\ targetWay' \in 0 .. USER_WAYS - 1
      /\ targetDie' \in Dies
    <2>1. /\ targetCh \in 0 .. USER_CHANNELS - 1 /\ targetWay \in 0 .. USER_WAYS - 1
          /\ FindDieForFreeSliceAllocation
        BY DEF TypeOK, FinishWrite
    <2>2. targetDie' \in Dies
        BY <2>1, DieInRange DEF FindDieForFreeSliceAllocation
    <2>3. (targetWay + 1) % USER_WAYS \in 0 .. USER_WAYS - 1
        BY <2>1, GeometryAssumption
    <2>4. targetCh' \in 0 .. USER_CHANNELS - 1 /\ targetWay' \in 0 .. USER_WAYS - 1
        BY <2>1, <2>3, GeometryAssumption DEF FindDieForFreeSliceAllocation
    <2> QED
        BY <2>2, <2>4
<1>7. TypeOK'
    BY <1>1, <1>5, <1>6 DEF TypeOK, P, PCs, FreeListsAfter
<1>8. Agreement'
    BY <1>1, <1>2, ProgramAgrees
<1>9. CountInv'
    BY <1>1, <1>2, <1>3, <1>4, ProgramCounts
<1>10. ListInv'
    BY <1>1, <1>3 DEF ListInv
<1>11. FreeInv'
    BY <1>1, <1>2, <1>3, ProgramFreeBlocks
<1>12. CallInv' /\ NothingLeftBehind'
    BY <1>1 DEF CallInv, NothingLeftBehind, ErasesCurrentBlock
<1> QED
    BY <1>7, <1>8, <1>9, <1>10, <1>11, <1>12

LEMMA AllocFromCurrentInv ==
    ASSUME IInv, AllocFromCurrent
    PROVE  IInv'
<1>1. currentBlock[targetDie] \in Blocks
    BY DEF IInv, TypeOK
<1>2. FreeListsAfter(currentBlock[targetDie])
    BY KeepFreeBlocks DEF IInv, AllocFromCurrent
<1>3. /\ pc \in {"alloc", "realloc"} /\ FinishWrite(currentBlock[targetDie])
      /\ currentPage[targetDie][currentBlock[targetDie]] # P
    BY DEF AllocFromCurrent, CurrentIsFull, P
<1> QED
    BY <1>1, <1>2, <1>3, FinishWriteInv

LEMMA AllocFromNewBlockInv ==
    ASSUME IInv, AllocFromNewBlock
    PROVE  IInv'
<1> DEFINE h == Head(fbList[targetDie])
<1>1. /\ pc \in {"alloc", "realloc"} /\ FinishWrite(h)
      /\ currentBlock' = [currentBlock EXCEPT ![targetDie] = h]
      /\ Len(fbList[targetDie]) > 1
    BY DEF AllocFromNewBlock, NormalBlockAvailable, RESERVED_FREE_BLOCK_COUNT
<1>2. fbList' = [fbList EXCEPT ![targetDie] = Tail(fbList[targetDie])]
    BY DEF AllocFromNewBlock
<1>3. fbList[targetDie] # <<>>
    BY <1>1, EmptySeq
<1>4. h \in Blocks /\ currentPage[targetDie][h] = 0 /\ FreeListsAfter(h)
    BY <1>1, <1>2, <1>3, PopFreeBlock DEF IInv
<1> HIDE DEF h
<1>5. currentPage[targetDie][h] # P
    BY <1>4, Geometry
<1> QED
    BY <1>1, <1>4, <1>5, FinishWriteInv

-----------------------------------------------------------------------------
(* GarbageCollection: the victim is taken, copied and erased.              *)

\* A nonempty finite set of numbers has a greatest element: among the sets of
\* the elements above each element, one is minimal.
LEMMA GreatestExists ==
    ASSUME NEW n \in Nat, NEW V \in SUBSET (0 .. n), V # {}
    PROVE  \E m \in V : \A k \in V : k <= m
<1> DEFINE Above(m) == {k \in V : k > m}
           T == {Above(m) : m \in V}
           R == StrictSubsetOrdering(V)
<1>1. IsFiniteSet(V)
    <2>1. IsFiniteSet(0 .. n)
        BY FS_Interval
    <2> QED
        BY <2>1, FS_Subset
<1>2. IsWellFoundedOn(R, SUBSET V)
    BY <1>1, FS_FiniteSubsetsOfFinite, FS_StrictSubsetOrderingWellFounded
<1>3. T \subseteq SUBSET V /\ T # {}
    OBVIOUS
<1>4. PICK x \in T : \A y \in T : ~(<<y, x>> \in R)
    <2> HIDE DEF T, R
    <2> QED
        BY <1>2, <1>3, WFMin
<1>5. PICK m \in V : x = Above(m)
    BY <1>4
<1>6. ASSUME NEW k \in V, ~(k <= m)
      PROVE  FALSE
    <2>1. k \in Int /\ m \in Int /\ k > m
        BY <1>6
    <2>2. \A j \in V : j \in Int
        OBVIOUS
    <2>3. \A j : j \in Above(k) <=> j \in V /\ j > k
        OBVIOUS
    <2>4. \A j : j \in Above(m) <=> j \in V /\ j > m
        OBVIOUS
    <2> DEFINE A == Above(k)
               B == Above(m)
    <2>5. A \in SUBSET V /\ B \in SUBSET V /\ A \in T
        OBVIOUS
    <2> HIDE DEF A, B, T
    <2>6. \A j \in A : j \in B
        BY <2>1, <2>2, <2>3, <2>4 DEF A, B
    <2>7. k \in B /\ k \notin A
        BY <2>1, <2>3, <2>4 DEF A, B
    <2>8. <<A, B>> \in R
        BY <2>5, <2>6, <2>7 DEF StrictSubsetOrdering
    <2> QED
        BY <1>4, <1>5, <2>5, <2>8 DEF B
<1> QED
    BY <1>6

\* Unlinking a victim's list head takes that block off every list.
LEMMA StartGarbageCollectionInv ==
    ASSUME IInv, StartGarbageCollection, ~ErasesCurrentBlock'
    PROVE  IInv'
<1> USE DEF IInv
<1>1. PICK d \in Dies : d = targetDie
    BY DEF TypeOK
<1>2. PICK n \in VictimCounts(d) : n = MostInvalid(d)
    <2>1. VictimCounts(d) # {} /\ VictimCounts(d) \in SUBSET (0 .. P)
        BY <1>1, Geometry DEF StartGarbageCollection, VictimCounts
    <2>2. \E m \in VictimCounts(d) : \A k \in VictimCounts(d) : k <= m
        BY <2>1, Geometry, GreatestExists
    <2> QED
        BY <2>2 DEF MostInvalid
<1>3. n \in 1 .. P /\ n \in 0 .. P /\ victimList[d][n] # <<>>
    BY Geometry DEF VictimCounts
<1> DEFINE q == victimList[d][n]
<1>4. /\ q \in Seq(Blocks) /\ q # <<>> /\ Distinct(q)
      /\ \A c \in Blocks : InList(q, c) <=> n = invalidCnt[d][c] /\ ~BeingCollected(d, c)
    <2>1. q \in Seq(Blocks)
        BY <1>3, Geometry DEF TypeOK
    <2>2. Distinct(q) /\ \A c \in Blocks : InList(q, c) <=> n = invalidCnt[d][c] /\ ~BeingCollected(d, c)
        BY <1>3, Geometry DEF ListInv
    <2> QED
        BY <1>3, <2>1, <2>2
<1>5. PICK b \in Blocks : b = Head(q)
    BY <1>4, TailList
<1>6. /\ pc = "alloc" /\ victim' = b /\ gcPage' = 0
      /\ victimList' = [victimList EXCEPT ![d] = [victimList[d] EXCEPT ![n] = Tail(q)]]
      /\ pc' = IF invalidCnt[d][b] # P THEN "copy" ELSE "erase"
      /\ UNCHANGED <<l2v, v2l, currentPage, invalidCnt, fbList, currentBlock,
                     targetCh, targetWay, targetDie, lsa>>
    <2>1. victimList' = [victimList EXCEPT ![d][n] = Tail(@)]
        BY <1>1, <1>2 DEF StartGarbageCollection
    <2>2. victimList' = [victimList EXCEPT ![d] = [victimList[d] EXCEPT ![n] = Tail(q)]]
        BY <1>3, <2>1 DEF TypeOK
    <2> QED
        BY <1>1, <1>2, <1>5, <2>2, Geometry DEF StartGarbageCollection, maps, die
<1> DEFINE t == Tail(q)
<1>7. /\ t \in Seq(Blocks) /\ Distinct(t) /\ InList(q, b)
      /\ \A c : InList(t, c) <=> InList(q, c) /\ c # b
    <2> HIDE DEF q
    <2> QED
        BY <1>4, <1>5, TailList
<1>8. victimList \in [Dies -> [0 .. P -> Seq(Blocks)]]
    BY DEF TypeOK, P, SLICES_PER_BLOCK
<1> DEFINE lists1 == [victimList[d] EXCEPT ![n] = t]
<1>9. /\ lists1 \in [0 .. P -> Seq(Blocks)] /\ lists1[n] = t
      /\ \A m \in 0 .. P : m # n => lists1[m] = victimList[d][m]
    <2> HIDE DEF t
    <2>1. victimList[d] \in [0 .. P -> Seq(Blocks)]
        BY <1>8
    <2>2. t \in Seq(Blocks)
        BY <1>7
    <2> QED
        BY ONLY <1>3, <2>1, <2>2 DEF lists1
<1>10. victimList' = [victimList EXCEPT ![d] = lists1]
    BY <1>6
<1> HIDE DEF lists1, t
<1>11. /\ victimList' \in [Dies -> [0 .. P -> Seq(Blocks)]]
       /\ victimList'[d] = lists1
       /\ \A e \in Dies : e # d => victimList'[e] = victimList[e]
    BY <1>8, <1>9, <1>10
<1>12. \A e, c : ~BeingCollected(e, c) /\ (BeingCollected(e, c)' <=> e = d /\ c = b)
    BY <1>1, <1>6 DEF BeingCollected
<1>13. invalidCnt[d][b] = n
    BY <1>4, <1>7
<1>14. TypeOK'
    <2>1. pc' \in PCs /\ victim' \in Blocks \cup {NONE}
        BY <1>6 DEF PCs
    <2>2. gcPage' \in 0 .. USER_PAGES_PER_BLOCK
        BY <1>6, Geometry DEF P
    <2>3. victimList' \in [Dies -> [0 .. SLICES_PER_BLOCK -> Seq(Blocks)]]
        BY <1>11, Geometry
    <2> QED
        BY <1>6, <2>1, <2>2, <2>3 DEF TypeOK
<1>15. Agreement'
    BY <1>6 DEF Agreement
<1>16. CountInv'
    <2>1. \A e, c : Mapped(l2v, e, c)' = Mapped(l2v, e, c)
        BY <1>6 DEF Mapped
    <2> QED
        BY <1>6, <1>12, <2>1 DEF CountInv
<1>17. ListInv'
    <2> SUFFICES ASSUME NEW e \in Dies, NEW m \in 0 .. P
                 PROVE  /\ Distinct(victimList'[e][m])
                        /\ \A c \in Blocks : InList(victimList'[e][m], c) <=>
                              m > 0 /\ m = invalidCnt[e][c] /\ ~(e = d /\ c = b)
        BY <1>6, <1>12, Geometry DEF ListInv
    <2>1. /\ Distinct(victimList[e][m])
          /\ \A c \in Blocks : InList(victimList[e][m], c) <=> m > 0 /\ m = invalidCnt[e][c]
        BY <1>12, Geometry DEF ListInv
    <2>2. CASE e = d /\ m = n
        <3>1. victimList'[e][m] = t /\ victimList[e][m] = q
            BY <1>9, <1>11, <2>2
        <3> HIDE DEF q
        <3> QED
            BY <1>7, <2>1, <2>2, <3>1
    <2>3. CASE ~(e = d /\ m = n)
        <3>1. victimList'[e][m] = victimList[e][m]
            BY <1>9, <1>11, <2>3
        <3>2. \A c \in Blocks : e = d /\ c = b => m # invalidCnt[e][c]
            BY <1>13, <2>3
        <3> QED
            BY <2>1, <3>1, <3>2
    <2> QED
        BY <2>2, <2>3
<1>18. invalidCnt[d][b] + Cardinality(Mapped(l2v, d, b)) = currentPage[d][b]
    BY <1>12 DEF CountInv
<1>19. Cardinality(Mapped(l2v, d, b)) \in Nat /\ currentPage[d][b] \in 0 .. P
    BY MappedFinite DEF TypeOK, P
<1>20. FreeInv'
    <2>1. currentPage[d][b] # 0
        BY <1>3, <1>13, <1>18, <1>19
    <2> QED
        BY <1>6, <1>12, <2>1 DEF FreeInv
<1>21. CallInv'
    <2>1. 0 \in Pages
        BY Geometry
    <2> QED
        BY <1>6, <2>1 DEF CallInv
<1>22. NothingLeftBehind'
    <2>1. CASE n = P
        <3>1. Cardinality(Mapped(l2v, d, b)) = 0
            BY <1>13, <1>18, <1>19, <2>1, Geometry
        <3>2. Mapped(l2v, d, b) = {}
            BY <3>1, MappedFinite, FS_EmptySet
        <3> QED
            BY <1>1, <1>6, <3>2 DEF NothingLeftBehind, Mapped
    <2>2. CASE n # P
        <3>1. \A p \in Pages : 0 <= p
            BY Geometry
        <3>2. pc' = "copy"
            BY <1>6, <1>13, <2>2
        <3> QED
            BY <1>6, <3>1, <3>2 DEF NothingLeftBehind
    <2> QED
        BY <2>1, <2>2
<1> QED
    BY <1>14, <1>15, <1>16, <1>17, <1>20, <1>21, <1>22

\* What either disjunct of the copy loop leaves: its page counter moves on.
LEMMA NextGcPageEffect ==
    ASSUME TypeOK, CallInv, pc = "copy", NextGcPage
    PROVE  /\ gcPage' \in 0 .. P /\ pc' \in {"copy", "erase"} /\ pc' \in PCs
           /\ pc' = "copy" => gcPage' \in Pages
           /\ \A p \in Pages : p >= gcPage /\ p # gcPage => pc' = "copy" /\ gcPage' <= p
<1>1. gcPage \in Int /\ 0 <= gcPage /\ gcPage < P
    BY Geometry DEF CallInv
<1>2. gcPage' = gcPage + 1 /\ pc' = IF gcPage + 1 = P THEN "erase" ELSE "copy"
    BY DEF NextGcPage, P
<1>3. pc' \in {"copy", "erase"} /\ pc' \in PCs
    BY <1>2 DEF PCs
<1>4. P \in Nat
    BY Geometry
<1>5. gcPage' \in 0 .. P
    BY <1>1, <1>2, <1>4
<1>6. pc' = "copy" => gcPage' \in Pages
    BY <1>1, <1>2, <1>4, Geometry
<1>7. ASSUME NEW p \in Pages, p >= gcPage, p # gcPage
      PROVE  pc' = "copy" /\ gcPage' <= p
    <2>1. p \in Int /\ p < P
        BY Geometry
    <2>2. gcPage + 1 <= p /\ gcPage + 1 # P
        BY <1>1, <1>4, <1>7, <2>1
    <2> QED
        BY <1>2, <2>2
<1> QED
    BY <1>3, <1>5, <1>6, <1>7

LEMMA GcSkipInv ==
    ASSUME IInv, GcSkip, ~ErasesCurrentBlock'
    PROVE  IInv'
<1> USE DEF IInv
<1>1. /\ pc = "copy" /\ ~IsValid(GcSlice) /\ NextGcPage
      /\ UNCHANGED <<l2v, v2l, currentPage, invalidCnt, fbList, currentBlock, victimList,
                     targetCh, targetWay, targetDie, lsa, victim>>
    BY DEF GcSkip, maps, lists, die
<1>2. /\ gcPage' \in 0 .. P /\ pc' \in {"copy", "erase"} /\ pc' \in PCs
      /\ pc' = "copy" => gcPage' \in Pages
      /\ \A p \in Pages : p >= gcPage /\ p # gcPage => pc' = "copy" /\ gcPage' <= p
    BY <1>1, NextGcPageEffect
<1>3. \A d, b : BeingCollected(d, b)' <=> BeingCollected(d, b)
    BY <1>1, <1>2 DEF BeingCollected
<1>4. victim \in Blocks /\ targetDie \in Dies /\ gcPage \in Pages
    BY <1>1 DEF CallInv, TypeOK
<1>5. TypeOK'
    BY <1>1, <1>2 DEF TypeOK, P
<1>6. Agreement'
    BY <1>1 DEF Agreement
<1>7. CountInv'
    <2>1. \A d, b : Mapped(l2v, d, b)' = Mapped(l2v, d, b)
        BY <1>1 DEF Mapped
    <2> QED
        BY <1>1, <1>3, <2>1 DEF CountInv
<1>8. ListInv' /\ FreeInv'
    BY <1>1, <1>3 DEF ListInv, FreeInv
<1>9. CallInv'
    BY <1>1, <1>2, <1>4 DEF CallInv
<1>10. NothingLeftBehind'
    <2>1. \A l \in LogicalSlices : l2v[l] # <<targetDie, victim, gcPage>>
        BY <1>1, <1>4, ValidIsMapped DEF GcSlice
    <2>2. ASSUME NEW l \in LogicalSlices, NEW p \in Pages, l2v[l] = <<targetDie, victim, p>>
          PROVE  pc' = "copy" /\ gcPage' <= p
        <3>1. gcPage <= p /\ p # gcPage
            BY <1>1, <2>1, <2>2 DEF NothingLeftBehind
        <3>2. p >= gcPage
            BY <1>4, <3>1, Geometry
        <3> QED
            BY <1>2, <3>1, <3>2
    <2> QED
        BY <1>1, <2>2 DEF NothingLeftBehind
<1> QED
    BY <1>5, <1>6, <1>7, <1>8, <1>9, <1>10

\* The block the collector copies to is erased or partly written, is not the
\* victim, and leaves the free list when it becomes current.
LEMMA GcBlockChosen ==
    ASSUME TypeOK, FreeInv, CallInv, GcCopy
    PROVE  /\ GcBlock2 \in Blocks
           /\ currentPage[targetDie][GcBlock2] # P
           /\ GcBlock2 # victim
           /\ FreeListsAfter(GcBlock2)
<1> DEFINE d == targetDie
           q == fbList[d]
<1>1. /\ pc = "copy" /\ d \in Dies
      /\ fbList \in [Dies -> Seq(Blocks)] /\ currentBlock \in [Dies -> Blocks]
      /\ currentPage \in [Dies -> [Blocks -> 0 .. P]]
    BY DEF TypeOK, GcCopy, P
<1>2. q \in Seq(Blocks) /\ Distinct(q)
    BY <1>1 DEF FreeInv
<1>3. \A c \in Blocks : InList(q, c) => currentPage[d][c] = 0 /\ c # victim
    BY <1>1 DEF FreeInv, BeingCollected
<1>4. \A c \in Blocks : InList(q, c) => currentPage[d][c] # P
    BY <1>3, Geometry
<1>5. /\ currentBlock' = [currentBlock EXCEPT ![d] = GcBlock2]
      /\ fbList' = [fbList EXCEPT ![d] = GcList2]
      /\ GcBlockAvailable
    BY DEF GcCopy
<1>6. CASE ~GcLeavesVictim /\ ~GcLeavesFull
    <2>1. GcBlock2 = currentBlock[d] /\ GcList2 = q
        BY <1>6 DEF GcBlock2, GcBlock1, GcList2, GcList1
    <2>2. currentPage[d][GcBlock2] # P /\ GcBlock2 # victim
        BY <1>6, <2>1 DEF GcLeavesFull, GcLeavesVictim, GcBlock1, P
    <2>3. UNCHANGED <<fbList, currentBlock>>
        BY <1>1, <1>5, <2>1
    <2>4. FreeListsAfter(currentBlock[targetDie])
        BY <2>3, KeepFreeBlocks
    <2> QED
        BY <1>1, <2>1, <2>2, <2>4
<1>7. CASE (GcLeavesVictim /\ ~GcLeavesFull) \/ (~GcLeavesVictim /\ GcLeavesFull)
    <2>1. GcBlock2 = Head(q) /\ GcList2 = Tail(q) /\ q # <<>>
        BY <1>5, <1>7 DEF GcBlock2, GcBlock1, GcList2, GcList1, GcBlockAvailable
    <2>2. InList(q, Head(q))
        BY <1>2, <2>1, TailList
    <2>3. Head(q) \in Blocks /\ FreeListsAfter(Head(q))
        BY <1>5, <2>1, PopFreeBlock
    <2> QED
        BY <1>3, <1>4, <2>1, <2>2, <2>3
<1>8. CASE GcLeavesVictim /\ GcLeavesFull
    <2>1. GcBlock1 = Head(q) /\ q # <<>>
        BY <1>5, <1>8 DEF GcBlock1, GcBlockAvailable
    <2>2. InList(q, Head(q)) /\ Head(q) \in Blocks
        BY <1>2, <2>1, TailList
    <2> QED
        BY <1>4, <1>8, <2>1, <2>2 DEF GcLeavesFull, P
<1> QED
    BY <1>6, <1>7, <1>8

LEMMA GcCopyInv ==
    ASSUME IInv, GcCopy, ~ErasesCurrentBlock'
    PROVE  IInv'
<1> USE DEF IInv
<1>1. PICK d \in Dies, w \in Blocks, g \in Pages :
          d = targetDie /\ w = victim /\ g = gcPage
    BY DEF CallInv, TypeOK, GcCopy
<1>2. PICK b \in Blocks : b = GcBlock2
    BY GcBlockChosen
<1>3. currentPage[d][b] # P /\ b # w /\ FreeListsAfter(b)
    BY <1>1, <1>2, GcBlockChosen
<1>4. /\ pc = "copy" /\ IsValid(<<d, w, g>>) /\ NextGcPage
      /\ Program(d, b, v2l[<<d, w, g>>])
      /\ UNCHANGED <<invalidCnt, victimList, targetCh, targetWay, targetDie, lsa, victim>>
    BY <1>1, <1>2 DEF GcCopy, GcSlice, die
<1>5. PICK l \in LogicalSlices : l2v[l] = <<d, w, g>>
    BY <1>4, ValidIsMapped
<1>6. v2l[<<d, w, g>>] = l /\ \A k \in LogicalSlices : l2v[k] = <<d, w, g>> => k = l
    BY <1>5 DEF Agreement
<1>7. Program(d, b, l)
    BY <1>4, <1>6
<1>8. /\ gcPage' \in 0 .. P /\ pc' \in {"copy", "erase"} /\ pc' \in PCs
      /\ pc' = "copy" => gcPage' \in Pages
      /\ \A p \in Pages : p >= gcPage /\ p # gcPage => pc' = "copy" /\ gcPage' <= p
    BY <1>4, NextGcPageEffect
<1>9. \A e, c : (BeingCollected(e, c)' <=> e = d /\ c = w) /\ (BeingCollected(e, c) <=> e = d /\ c = w)
    BY <1>1, <1>4, <1>8 DEF BeingCollected
<1>10. /\ l2v' \in [LogicalSlices -> Slices \cup {NONE}]
       /\ v2l' \in [Slices -> LogicalSlices \cup {NONE}]
       /\ currentPage' \in [Dies -> [Blocks -> 0 .. P]]
       /\ \A k \in LogicalSlices : l2v'[k] = IF k = l THEN <<d, b, currentPage[d][b]>> ELSE l2v[k]
    BY <1>3, <1>7, ProgramEffect
<1>11. TypeOK'
    BY <1>3, <1>4, <1>8, <1>10 DEF TypeOK, P, FreeListsAfter
<1>12. Agreement'
    BY <1>3, <1>7, ProgramAgrees
<1>13. CountInv'
    <2>1. ASSUME NEW e \in Dies, NEW c \in Blocks, ~BeingCollected(e, c)'
          PROVE  ~BeingCollected(e, c) /\ \A p \in Pages : l2v[l] # <<e, c, p>>
        BY <1>5, <1>9, <2>1
    <2> QED
        BY <1>3, <1>4, <1>7, <2>1, ProgramCounts
<1>14. ListInv'
    BY <1>4, <1>9 DEF ListInv
<1>15. FreeInv'
    BY <1>1, <1>3, <1>7, <1>9, ProgramFreeBlocks
<1>16. CallInv'
    <2>1. lsa \in LogicalSlices /\ l2v[lsa] = NONE
        BY <1>4 DEF CallInv
    <2>2. lsa # l
        BY <1>5, <2>1, NoneAssumption DEF Slices
    <2>3. l2v'[lsa] = NONE
        BY <1>10, <2>1, <2>2
    <2> QED
        BY <1>1, <1>4, <1>8, <2>1, <2>3 DEF CallInv
<1>17. NothingLeftBehind'
    <2>1. ASSUME NEW k \in LogicalSlices, NEW p \in Pages, l2v'[k] = <<d, w, p>>
          PROVE  pc' = "copy" /\ gcPage' <= p
        <3>1. k # l /\ l2v[k] = <<d, w, p>>
            BY <1>3, <1>10, <2>1
        <3>2. p # g
            BY <1>6, <3>1
        <3>3. gcPage <= p
            BY <1>1, <1>4, <3>1 DEF NothingLeftBehind
        <3>4. p >= gcPage
            BY <1>1, <3>3, Geometry
        <3> QED
            BY <1>1, <1>8, <3>2, <3>4
    <2> QED
        BY <1>1, <1>4, <2>1 DEF NothingLeftBehind
<1> QED
    BY <1>11, <1>12, <1>13, <1>14, <1>15, <1>16, <1>17

\* The victim holds no live slice any more and joins the free list, which it
\* was not on, as an erased block.
LEMMA EraseBlockInv ==
    ASSUME IInv, EraseBlock
    PROVE  IInv'
<1> USE DEF IInv
<1>1. PICK d \in Dies, w \in Blocks : d = targetDie /\ w = victim
    BY DEF CallInv, TypeOK, EraseBlock
<1>2. /\ pc = "erase" /\ pc' = "realloc" /\ victim' = NONE
      /\ currentPage' = [currentPage EXCEPT ![d][w] = 0]
      /\ invalidCnt' = [invalidCnt EXCEPT ![d][w] = 0]
      /\ fbList' = [fbList EXCEPT ![d] = Append(fbList[d], w)]
      /\ v2l' = [v \in Slices |-> IF v[1] = d /\ v[2] = w THEN NONE ELSE v2l[v]]
      /\ UNCHANGED <<l2v, currentBlock, victimList, targetCh, targetWay, targetDie, lsa, gcPage>>
    BY <1>1 DEF EraseBlock, ResetCounts, die
<1>3. \A e, c : ~BeingCollected(e, c)' /\ (BeingCollected(e, c) <=> e = d /\ c = w)
    BY <1>1, <1>2 DEF BeingCollected
<1>4. \A e \in Dies, c \in Blocks :
          /\ currentPage'[e][c] = IF e = d /\ c = w THEN 0 ELSE currentPage[e][c]
          /\ invalidCnt'[e][c] = IF e = d /\ c = w THEN 0 ELSE invalidCnt[e][c]
    BY <1>2 DEF TypeOK
<1>5. \A l \in LogicalSlices, p \in Pages : l2v[l] # <<d, w, p>>
    BY <1>1, <1>2 DEF NothingLeftBehind
<1>6. w # currentBlock[d]
    BY <1>1, <1>2 DEF CallInv, ErasesCurrentBlock
<1> DEFINE q == fbList[d]
           r == Append(q, w)
<1>7. q \in Seq(Blocks) /\ Distinct(q) /\ ~InList(q, w)
    BY <1>3 DEF TypeOK, FreeInv
<1>8. /\ r \in Seq(Blocks) /\ Distinct(r)
      /\ \A x : InList(r, x) <=> InList(q, x) \/ x = w
    <2> HIDE DEF q
    <2> QED
        BY <1>7, AppendList
<1>9. fbList' = [fbList EXCEPT ![d] = r]
    BY <1>2
<1> HIDE DEF r
<1>10. TypeOK'
    <2>5. 0 \in 0 .. USER_PAGES_PER_BLOCK /\ 0 \in 0 .. SLICES_PER_BLOCK
        BY GeometryAssumption DEF SLICES_PER_BLOCK
    <2>1. currentPage' \in [Dies -> [Blocks -> 0 .. USER_PAGES_PER_BLOCK]]
        BY <1>2, <2>5 DEF TypeOK
    <2>2. invalidCnt' \in [Dies -> [Blocks -> 0 .. SLICES_PER_BLOCK]]
        BY <1>2, <2>5 DEF TypeOK
    <2>3. fbList' \in [Dies -> Seq(Blocks)]
        BY <1>8, <1>9 DEF TypeOK
    <2>4. v2l' \in [Slices -> LogicalSlices \cup {NONE}]
        BY <1>2 DEF TypeOK
    <2> QED
        BY <1>2, <2>1, <2>2, <2>3, <2>4 DEF TypeOK, PCs
<1>11. Agreement'
    <2> SUFFICES ASSUME NEW l \in LogicalSlices, NEW e \in Dies, NEW c \in Blocks, NEW p \in Pages,
                        l2v[l] = <<e, c, p>>
                 PROVE  v2l'[<<e, c, p>>] = l /\ p < currentPage'[e][c]
        BY <1>2 DEF Agreement
    <2>1. ~(e = d /\ c = w)
        BY <1>5
    <2>2. <<e, c, p>> \in Slices
        BY DEF Slices
    <2>3. v2l'[<<e, c, p>>] = v2l[<<e, c, p>>]
        BY <1>2, <2>1, <2>2
    <2> QED
        BY <1>4, <2>1, <2>3 DEF Agreement
<1>12. CountInv'
    <2> SUFFICES ASSUME NEW e \in Dies, NEW c \in Blocks
                 PROVE  invalidCnt'[e][c] + Cardinality(Mapped(l2v, e, c)) = currentPage'[e][c]
        <3>1. \A e, c : Mapped(l2v, e, c)' = Mapped(l2v, e, c)
            BY <1>2 DEF Mapped
        <3> QED
            BY <3>1 DEF CountInv
    <2>1. CASE e = d /\ c = w
        <3>1. Mapped(l2v, e, c) = {}
            BY <1>5, <2>1 DEF Mapped
        <3>2. Cardinality(Mapped(l2v, e, c)) = 0
            BY <3>1, FS_EmptySet
        <3> QED
            BY <1>4, <2>1, <3>2
    <2>2. CASE ~(e = d /\ c = w)
        <3>1. invalidCnt'[e][c] = invalidCnt[e][c] /\ currentPage'[e][c] = currentPage[e][c]
            BY <1>4, <2>2
        <3> QED
            BY <1>3, <2>2, <3>1 DEF CountInv
    <2> QED
        BY <2>1, <2>2
<1>13. ListInv'
    <2> SUFFICES ASSUME NEW e \in Dies, NEW n \in 0 .. SLICES_PER_BLOCK
                 PROVE  /\ Distinct(victimList[e][n])
                        /\ \A c \in Blocks : InList(victimList[e][n], c) <=> n > 0 /\ n = invalidCnt'[e][c]
        BY <1>2, <1>3 DEF ListInv
    <2>1. /\ Distinct(victimList[e][n])
          /\ \A c \in Blocks : InList(victimList[e][n], c) <=>
                n > 0 /\ n = invalidCnt[e][c] /\ ~(e = d /\ c = w)
        BY <1>3 DEF ListInv
    <2>2. ASSUME NEW c \in Blocks
          PROVE  InList(victimList[e][n], c) <=> n > 0 /\ n = invalidCnt'[e][c]
        <3>1. CASE e = d /\ c = w
            BY <1>4, <2>1, <3>1
        <3>2. CASE ~(e = d /\ c = w)
            BY <1>4, <2>1, <3>2
        <3> QED
            BY <3>1, <3>2
    <2> QED
        BY <2>1, <2>2
<1>14. FreeInv'
    <2> SUFFICES ASSUME NEW e \in Dies
                 PROVE  /\ Distinct(fbList'[e])
                        /\ \A c \in Blocks : InList(fbList'[e], c) =>
                              currentPage'[e][c] = 0 /\ c # currentBlock[e]
        BY <1>2, <1>3 DEF FreeInv
    <2>1. CASE e = d
        <3>1. fbList'[e] = r
            BY <1>9, <2>1 DEF TypeOK
        <3>2. \A c \in Blocks : InList(q, c) => currentPage[d][c] = 0 /\ c # currentBlock[d]
            BY DEF FreeInv
        <3> HIDE DEF q
        <3> QED
            BY <1>4, <1>6, <1>8, <2>1, <3>1, <3>2
    <2>2. CASE e # d
        <3>1. fbList'[e] = fbList[e]
            BY <1>9, <2>2 DEF TypeOK
        <3> QED
            BY <1>4, <2>2, <3>1 DEF FreeInv
    <2> QED
        BY <2>1, <2>2
<1>15. CallInv' /\ NothingLeftBehind'
    BY <1>2 DEF CallInv, NothingLeftBehind, ErasesCurrentBlock
<1> QED
    BY <1>10, <1>11, <1>12, <1>13, <1>14, <1>15

-----------------------------------------------------------------------------
(* The invariant holds in every state, and what follows from it.           *)

LEMMA StepInv == IInv /\ [Next /\ ~ErasesCurrentBlock']_vars => IInv'
<1> SUFFICES ASSUME IInv, [Next /\ ~ErasesCurrentBlock']_vars
             PROVE  IInv'
    OBVIOUS
<1>1. CASE Next /\ ~ErasesCurrentBlock'
    <2>1. ASSUME NEW l \in LogicalSlices, AddrTransWrite(l) PROVE IInv'
        BY <2>1, AddrTransWriteInv
    <2>2. CASE AllocFromCurrent
        BY <2>2, AllocFromCurrentInv
    <2>3. CASE AllocFromNewBlock
        BY <2>3, AllocFromNewBlockInv
    <2>4. CASE StartGarbageCollection
        BY <1>1, <2>4, StartGarbageCollectionInv
    <2>5. CASE GcSkip
        BY <1>1, <2>5, GcSkipInv
    <2>6. CASE GcCopy
        BY <1>1, <2>6, GcCopyInv
    <2>7. CASE EraseBlock
        BY <2>7, EraseBlockInv
    <2> QED
        BY <1>1, <2>1, <2>2, <2>3, <2>4, <2>5, <2>6, <2>7 DEF Next, Allocate, Collect
<1>2. CASE UNCHANGED vars
    <2>1. UNCHANGED <<l2v, v2l, currentPage, invalidCnt, fbList, currentBlock, victimList,
                      targetCh, targetWay, targetDie, pc, lsa, victim, gcPage>>
        BY <1>2 DEF vars, maps, lists, die, gc
    <2>2. \A d, b : (BeingCollected(d, b)' <=> BeingCollected(d, b)) /\ Mapped(l2v, d, b)' = Mapped(l2v, d, b)
        BY <2>1 DEF BeingCollected, Mapped
    <2>3. TypeOK' /\ Agreement' /\ CountInv'
        BY <2>1, <2>2 DEF IInv, TypeOK, Agreement, CountInv
    <2>4. ListInv' /\ FreeInv'
        BY <2>1, <2>2 DEF IInv, ListInv, FreeInv
    <2>5. CallInv' /\ NothingLeftBehind'
        BY <2>1 DEF IInv, CallInv, NothingLeftBehind, ErasesCurrentBlock
    <2> QED
        BY <2>3, <2>4, <2>5 DEF IInv
<1> QED
    BY <1>1, <1>2

LEMMA Inductive == SpecUnlessCurrentErased => []IInv
<1> QED
    BY InitInv, StepInv, PTL DEF SpecUnlessCurrentErased

\* The structures keep their types: no count or die number leaves its range,
\* and the lists hold blocks.
THEOREM TypeCorrect == SpecUnlessCurrentErased => []TypeOK
<1>1. IInv => TypeOK
    BY DEF IInv
<1> QED
    BY <1>1, Inductive, PTL

\* The two maps agree on every mapped slice, whatever collections moved it.
THEOREM MapsStayAgreed == SpecUnlessCurrentErased => []MapsAgree
<1>1. IInv => MapsAgree
    BY AgreementIsMapsAgree DEF IInv
<1> QED
    BY <1>1, Inductive, PTL

\* invalidSliceCnt counts exactly the superseded pages of a block.
THEOREM InvalidCountIsExact == SpecUnlessCurrentErased => []InvalidCountExact
<1>1. IInv => InvalidCountExact
    BY ValidPagesAreMapped DEF IInv, CountInv, InvalidCountExact
<1> QED
    BY <1>1, Inductive, PTL

\* An entry of a list without repetitions is at one position of it.
LEMMA PositionsOfEntry ==
    ASSUME NEW q, Distinct(q), NEW b
    PROVE  Cardinality({i \in 1 .. Len(q) : q[i] = b}) = IF InList(q, b) THEN 1 ELSE 0
<1> DEFINE I == {i \in 1 .. Len(q) : q[i] = b}
<1>1. CASE InList(q, b)
    <2>1. PICK i \in 1 .. Len(q) : q[i] = b
        BY <1>1 DEF InList
    <2>2. I = {i}
        BY <2>1 DEF Distinct
    <2>3. Cardinality(I) = 1
        BY <2>2, FS_Singleton
    <2> QED
        BY <1>1, <2>3
<1>2. CASE ~InList(q, b)
    <2>1. I = {}
        BY <1>2 DEF InList
    <2>2. Cardinality(I) = 0
        BY <2>1, FS_EmptySet
    <2> QED
        BY <1>2, <2>2
<1> QED
    BY <1>1, <1>2

\* A block is on the victim list its count names, once, and on no other.
THEOREM VictimListsStayExact == SpecUnlessCurrentErased => []VictimListsExact
<1>1. ASSUME IInv, NEW d \in Dies, NEW b \in Blocks, NEW n \in 0 .. SLICES_PER_BLOCK
      PROVE  Cardinality({i \in 1 .. Len(victimList[d][n]) : victimList[d][n][i] = b}) =
                IF n > 0 /\ n = invalidCnt[d][b] /\ ~BeingCollected(d, b) THEN 1 ELSE 0
    <2>1. /\ Distinct(victimList[d][n])
          /\ InList(victimList[d][n], b) <=> n > 0 /\ n = invalidCnt[d][b] /\ ~BeingCollected(d, b)
        BY <1>1 DEF IInv, ListInv
    <2> DEFINE q == victimList[d][n]
    <2>2. Cardinality({i \in 1 .. Len(q) : q[i] = b}) = IF InList(q, b) THEN 1 ELSE 0
        <3>1. Distinct(q)
            BY <2>1
        <3> HIDE DEF q
        <3> QED
            BY <3>1, PositionsOfEntry
    <2>3. CASE InList(q, b)
        BY <2>1, <2>2, <2>3
    <2>4. CASE ~InList(q, b)
        BY <2>1, <2>2, <2>4
    <2> QED
        BY <2>3, <2>4
<1>2. IInv => VictimListsExact
    BY <1>1 DEF VictimListsExact
<1> QED
    BY <1>2, Inductive, PTL

\* A free block is listed once, is erased, holds no live data and is not the
\* block its die writes to.
THEOREM FreeBlocksStayUnused == SpecUnlessCurrentErased => []FreeBlocksUnused
<1>1. ASSUME IInv, NEW d \in Dies, NEW i \in 1 .. Len(fbList[d])
      PROVE  /\ \A j \in 1 .. Len(fbList[d]) : fbList[d][j] = fbList[d][i] => j = i
             /\ currentPage[d][fbList[d][i]] = 0
             /\ ValidPages(d, fbList[d][i]) = {}
             /\ fbList[d][i] # currentBlock[d]
    <2>1. fbList[d] \in Seq(Blocks)
        BY <1>1 DEF IInv, TypeOK
    <2>2. PICK b \in Blocks : b = fbList[d][i]
        BY <2>1, ElementOfSeq
    <2>3. InList(fbList[d], b)
        BY <2>2 DEF InList
    <2>4. Distinct(fbList[d]) /\ currentPage[d][b] = 0 /\ b # currentBlock[d]
        BY <1>1, <2>3 DEF IInv, FreeInv
    <2>5. \A p \in Pages : ~(p < currentPage[d][b])
        BY <2>4, Geometry
    <2>6. Mapped(l2v, d, b) = {}
        BY <1>1, <2>5 DEF IInv, Agreement, Mapped
    <2>7. ValidPages(d, b) = {}
        BY <1>1, <2>6, ValidPagesAreMapped DEF IInv
    <2> QED
        BY <2>2, <2>4, <2>7 DEF Distinct
<1>2. IInv => FreeBlocksUnused
    BY <1>1 DEF FreeBlocksUnused
<1> QED
    BY <1>2, Inductive, PTL

-----------------------------------------------------------------------------
(* The reserve block.  A collection starts with at least one free block.   *)
(* It takes one only when it first copies, and the slices it copies are    *)
(* fewer than a block's pages, because its victim has an invalid one: so   *)
(* they fit in that block, and the erased victim becomes the new reserve.  *)

\* The live slices left in the victim.
Remaining == Cardinality(Mapped(l2v, targetDie, victim))

\* The reserve of die d is spent, on a block with room for what remains.
ReserveSpent(d) ==
    /\ pc \in {"copy", "erase"} /\ d = targetDie
    /\ currentBlock[d] # victim
    /\ currentPage[d][currentBlock[d]] + Remaining < P

ReserveInv ==
    /\ \A d \in Dies : fbList[d] # <<>> \/ ReserveSpent(d)
    /\ pc \in {"copy", "erase"} => Remaining < P
    /\ pc = "realloc" => Len(fbList[targetDie]) >= 2 \/ ~CurrentIsFull

\* A list is empty exactly when its length is zero.
LEMMA NonEmpty ==
    ASSUME NEW S, NEW q \in Seq(S)
    PROVE  /\ Len(q) \in Nat
           /\ q # <<>> <=> Len(q) >= 1
    BY EmptySeq, LenProperties

\* A list of two entries is not emptied by taking one.
LEMMA LongTail ==
    ASSUME NEW S, NEW q \in Seq(S), Len(q) > 1
    PROVE  Tail(q) # <<>>
<1>1. Len(q) \in Nat /\ q # <<>>
    BY NonEmpty
<1>2. Tail(q) \in Seq(S) /\ Len(Tail(q)) = Len(q) - 1
    BY <1>1, HeadTailProperties
<1>3. Len(Tail(q)) >= 1
    BY <1>1, <1>2
<1> QED
    BY <1>2, <1>3, NonEmpty

LEMMA ReserveInit == Init => ReserveInv
<1> SUFFICES ASSUME Init PROVE ReserveInv
    OBVIOUS
<1>1. ASSUME NEW d \in Dies
      PROVE  fbList[d] # <<>>
    <2> DEFINE q == FreeAtBoot[d]
    <2>1. q \in Seq(Blocks) /\ Len(q) > 1
        BY FreeAtBootAssumption DEF RESERVED_FREE_BLOCK_COUNT
    <2> HIDE DEF q
    <2>3. Tail(q) # <<>>
        BY <2>1, LongTail
    <2>4. fbList[d] = Tail(q)
        BY DEF Init, InitCurrentBlockOfDieMap, q
    <2> QED
        BY <2>3, <2>4
<1>2. pc = "idle"
    BY DEF Init
<1> QED
    BY <1>1, <1>2 DEF ReserveInv

LEMMA ReserveAllocNew ==
    ASSUME TypeOK, ReserveInv, AllocFromNewBlock
    PROVE  ReserveInv'
<1>1. /\ Len(fbList[targetDie]) > 1 /\ pc' = "idle"
      /\ fbList' = [fbList EXCEPT ![targetDie] = Tail(fbList[targetDie])]
      /\ pc \in {"alloc", "realloc"}
    BY DEF AllocFromNewBlock, NormalBlockAvailable, RESERVED_FREE_BLOCK_COUNT, FinishWrite
<1>2. fbList \in [Dies -> Seq(Blocks)] /\ targetDie \in Dies
    BY DEF TypeOK
<1> DEFINE q == fbList[targetDie]
<1>3. q \in Seq(Blocks) /\ Len(q) > 1
    BY <1>1, <1>2
<1> HIDE DEF q
<1>4. Tail(q) # <<>>
    BY <1>3, LongTail
<1>5. fbList' = [fbList EXCEPT ![targetDie] = Tail(q)]
    BY <1>1 DEF q
<1>6. \A d \in Dies : fbList[d] # <<>>
    BY <1>1 DEF ReserveInv, ReserveSpent
<1>7. \A d \in Dies : fbList'[d] # <<>>
    BY <1>2, <1>4, <1>5, <1>6
<1> QED
    BY <1>1, <1>7 DEF ReserveInv

LEMMA ReserveStart ==
    ASSUME IInv, ReserveInv, IInv', StartGarbageCollection
    PROVE  ReserveInv'
<1>1. /\ pc = "alloc" /\ pc' \in {"copy", "erase"}
      /\ UNCHANGED <<l2v, currentPage, fbList, targetDie>>
    BY DEF StartGarbageCollection, maps, die
<1>2. PICK d \in Dies, b \in Blocks : d = targetDie /\ b = victim'
    <2>1. targetDie \in Dies /\ victim' \in Blocks
        BY <1>1 DEF IInv, TypeOK, CallInv
    <2> QED
        BY <2>1
<1>3. \A e \in Dies : fbList[e] # <<>>
    BY <1>1 DEF ReserveInv, ReserveSpent
<1>4. invalidCnt[d][b] # 0
    <2>1. PICK n \in VictimCounts(d) : n = MostInvalid(d)
        <3>1. VictimCounts(d) # {} /\ VictimCounts(d) \in SUBSET (0 .. P)
            BY <1>2, Geometry DEF StartGarbageCollection, VictimCounts
        <3>2. \E m \in VictimCounts(d) : \A k \in VictimCounts(d) : k <= m
            BY <3>1, Geometry, GreatestExists
        <3> QED
            BY <3>2 DEF MostInvalid
    <2>2. n \in 0 .. SLICES_PER_BLOCK /\ n > 0 /\ victimList[d][n] # <<>>
        BY Geometry DEF VictimCounts
    <2>3. b = Head(victimList[d][n])
        BY <1>2, <2>1 DEF StartGarbageCollection
    <2>4. victimList[d][n] \in Seq(Blocks) /\ Distinct(victimList[d][n])
        <3>3. victimList \in [Dies -> [0 .. SLICES_PER_BLOCK -> Seq(Blocks)]]
            BY DEF IInv, TypeOK
        <3>1. victimList[d][n] \in Seq(Blocks)
            BY ONLY <2>2, <3>3, d \in Dies
        <3>2. Distinct(victimList[d][n])
            BY <2>2 DEF IInv, ListInv
        <3> QED
            BY <3>1, <3>2
    <2>5. InList(victimList[d][n], b)
        BY <2>2, <2>3, <2>4, TailList
    <2> QED
        BY <2>2, <2>5 DEF IInv, ListInv
<1>5. Cardinality(Mapped(l2v, d, b)) < P
    <2>1. invalidCnt[d][b] + Cardinality(Mapped(l2v, d, b)) = currentPage[d][b]
        BY <1>1 DEF IInv, CountInv, BeingCollected
    <2>2. invalidCnt[d][b] \in 0 .. P /\ currentPage[d][b] \in 0 .. P
        BY DEF IInv, TypeOK, P, SLICES_PER_BLOCK
    <2>3. Cardinality(Mapped(l2v, d, b)) \in Nat
        BY MappedFinite
    <2> QED
        BY <1>4, <2>1, <2>2, <2>3, Geometry
<1>6. Remaining' = Cardinality(Mapped(l2v, d, b))
    BY <1>1, <1>2 DEF Remaining, Mapped
<1> QED
    BY <1>1, <1>3, <1>5, <1>6 DEF ReserveInv

\* A step of the copy loop that copies nothing.
LEMMA ReserveSkip ==
    ASSUME IInv, ReserveInv, GcSkip
    PROVE  ReserveInv'
<1>1. /\ pc = "copy" /\ pc' \in {"copy", "erase"}
      /\ UNCHANGED <<l2v, currentPage, fbList, currentBlock, targetDie, victim>>
    BY NextGcPageEffect DEF IInv, GcSkip, maps, lists, die
<1>2. Remaining' = Remaining
    BY <1>1 DEF Remaining, Mapped
<1> QED
    BY <1>1, <1>2 DEF ReserveInv, ReserveSpent

\* A block is taken only while the reserve is unspent, and then has room.
LEMMA ReserveCopy ==
    ASSUME IInv, ReserveInv, GcCopy
    PROVE  ReserveInv'
<1> USE DEF IInv
<1>1. PICK d \in Dies, w \in Blocks, g \in Pages :
          d = targetDie /\ w = victim /\ g = gcPage
    BY DEF CallInv, TypeOK, GcCopy
<1>2. PICK b \in Blocks : b = GcBlock2
    BY GcBlockChosen
<1>3. currentPage[d][b] # P /\ b # w
    BY <1>1, <1>2, GcBlockChosen
<1>4. /\ pc = "copy" /\ IsValid(<<d, w, g>>) /\ NextGcPage
      /\ Program(d, b, v2l[<<d, w, g>>])
      /\ currentBlock' = [currentBlock EXCEPT ![d] = b]
      /\ fbList' = [fbList EXCEPT ![d] = GcList2]
      /\ UNCHANGED <<targetDie, victim>>
    BY <1>1, <1>2 DEF GcCopy, GcSlice, die
<1>5. pc' \in {"copy", "erase"}
    BY <1>4, NextGcPageEffect
<1>6. PICK l \in LogicalSlices : l2v[l] = <<d, w, g>>
    BY <1>4, ValidIsMapped
<1>7. v2l[<<d, w, g>>] = l /\ \A k \in LogicalSlices : l2v[k] = <<d, w, g>> => k = l
    BY <1>6 DEF Agreement
<1>8. Program(d, b, l)
    BY <1>4, <1>7
<1>9. /\ currentPage'[d][b] = currentPage[d][b] + 1
      /\ \A k \in LogicalSlices : l2v'[k] = IF k = l THEN <<d, b, currentPage[d][b]>> ELSE l2v[k]
      /\ currentPage[d][b] \in Pages
    BY <1>3, <1>8, ProgramEffect
<1> DEFINE M == Mapped(l2v, d, w)
<1>10. Mapped(l2v, d, w)' = M \ {g} /\ g \in M
    BY <1>3, <1>6, <1>7, <1>9 DEF Mapped
<1>11. IsFiniteSet(M) /\ Cardinality(M) \in Nat
    BY MappedFinite
<1>12. Remaining = Cardinality(M)
    BY <1>1 DEF Remaining
<1>13. Remaining' = Cardinality(Mapped(l2v, d, w)')
    BY <1>1, <1>4 DEF Remaining, Mapped
<1> HIDE DEF M
<1>14. Remaining' = Remaining - 1 /\ Remaining \in Nat
    BY <1>10, <1>11, <1>12, <1>13, FS_RemoveElement
<1>15. Remaining < P
    BY <1>4 DEF ReserveInv
<1>16. \A e \in Dies : e # d => fbList[e] # <<>> /\ fbList'[e] = fbList[e]
    BY <1>1, <1>4 DEF ReserveInv, ReserveSpent, TypeOK
<1>17. ReserveSpent(d)' <=> currentPage'[d][b] + Remaining' < P
    <2>1. currentBlock'[d] = b
        BY <1>4 DEF TypeOK
    <2> QED
        BY <1>1, <1>3, <1>4, <1>5, <2>1 DEF ReserveSpent
<1>18. fbList'[d] # <<>> \/ ReserveSpent(d)'
    <2>1. P \in Nat /\ currentPage[d][b] \in Int
        BY <1>9, Geometry
    <2>2. CASE ~GcLeavesVictim /\ ~GcLeavesFull
        <3>1. b = currentBlock[d] /\ GcList2 = fbList[d]
            BY <1>1, <1>2, <2>2 DEF GcBlock2, GcBlock1, GcList2, GcList1
        <3>2. fbList'[d] = fbList[d]
            BY <1>4, <3>1 DEF TypeOK
        <3>3. CASE fbList[d] # <<>>
            BY <3>2, <3>3
        <3>4. CASE ReserveSpent(d)
            <4>1. currentPage[d][b] + Remaining < P
                BY <3>1, <3>4 DEF ReserveSpent
            <4>2. currentPage'[d][b] + Remaining' < P
                BY <1>9, <1>14, <2>1, <4>1
            <4> QED
                BY <1>17, <4>2
        <3> QED
            BY <3>3, <3>4 DEF ReserveInv
    <2>3. CASE (GcLeavesVictim /\ ~GcLeavesFull) \/ (~GcLeavesVictim /\ GcLeavesFull)
        <3>1. b = Head(fbList[d]) /\ fbList[d] # <<>>
            BY <1>1, <1>2, <2>3 DEF GcCopy, GcBlock2, GcBlock1, GcList2, GcList1, GcBlockAvailable
        <3>2. currentPage[d][b] = 0
            <4>1. fbList[d] \in Seq(Blocks) /\ Distinct(fbList[d])
                BY DEF TypeOK, FreeInv
            <4>2. InList(fbList[d], b)
                BY <3>1, <4>1, TailList
            <4> QED
                BY <4>2 DEF FreeInv
        <3>3. currentPage'[d][b] + Remaining' < P
            BY <1>9, <1>14, <1>15, <2>1, <3>2
        <3> QED
            BY <1>17, <3>3
    <2>4. CASE GcLeavesVictim /\ GcLeavesFull
        <3>1. GcBlock1 = Head(fbList[d]) /\ fbList[d] # <<>>
            BY <1>1, <2>4 DEF GcCopy, GcBlock1, GcBlockAvailable
        <3>2. /\ fbList[d] \in Seq(Blocks) /\ Distinct(fbList[d])
            BY DEF TypeOK, FreeInv
        <3>3. InList(fbList[d], Head(fbList[d])) /\ Head(fbList[d]) \in Blocks
            BY <3>1, <3>2, TailList
        <3>4. currentPage[d][Head(fbList[d])] = 0
            BY <3>3 DEF FreeInv
        <3> QED
            BY <1>1, <2>1, <2>4, <3>1, <3>4, Geometry DEF GcLeavesFull, P
    <2> QED
        BY <2>2, <2>3, <2>4
<1>19. \A e \in Dies : fbList'[e] # <<>> \/ ReserveSpent(e)'
    BY <1>16, <1>18
<1>20. Remaining' < P
    BY <1>14, <1>15, Geometry
<1> QED
    BY <1>5, <1>19, <1>20 DEF ReserveInv

\* The erased victim is the new reserve; the spent one, if any, has room.
LEMMA ReserveErase ==
    ASSUME IInv, ReserveInv, EraseBlock
    PROVE  ReserveInv'
<1> USE DEF IInv
<1>1. PICK d \in Dies, w \in Blocks : d = targetDie /\ w = victim
    BY DEF CallInv, TypeOK, EraseBlock
<1>2. /\ pc = "erase" /\ pc' = "realloc"
      /\ currentPage' = [currentPage EXCEPT ![d][w] = 0]
      /\ fbList' = [fbList EXCEPT ![d] = Append(fbList[d], w)]
      /\ UNCHANGED <<currentBlock, targetDie>>
    BY <1>1 DEF EraseBlock, ResetCounts, die
<1> DEFINE q == fbList[d]
           r == Append(q, w)
<1>3. q \in Seq(Blocks)
    BY DEF TypeOK
<1> HIDE DEF q
<1>4. r \in Seq(Blocks) /\ Len(r) = Len(q) + 1 /\ Len(q) \in Nat
    BY <1>3, AppendEntry, LenProperties
<1>5. r # <<>>
    BY <1>4, NonEmpty
<1>6. fbList' = [fbList EXCEPT ![d] = r]
    BY <1>2 DEF q
<1> HIDE DEF r
<1>7. fbList'[d] = r /\ \A e \in Dies : e # d => fbList'[e] = fbList[e]
    BY <1>6 DEF TypeOK
<1>8. \A e \in Dies : fbList'[e] # <<>>
    BY <1>1, <1>5, <1>7 DEF ReserveInv, ReserveSpent
<1>9. CASE q # <<>>
    <2>1. Len(r) >= 2
        BY <1>3, <1>4, <1>9, NonEmpty
    <2> QED
        BY <1>1, <1>2, <1>7, <1>8, <2>1 DEF ReserveInv
<1>10. CASE q = <<>>
    <2>1. ReserveSpent(d)
        BY <1>10 DEF ReserveInv, q
    <2>2. Remaining \in Nat
        BY MappedFinite DEF Remaining
    <2>3. currentBlock[d] # w /\ currentPage[d][currentBlock[d]] # P
        <3>1. currentPage[d][currentBlock[d]] \in 0 .. P
            BY DEF TypeOK, P
        <3> QED
            BY <1>1, <2>1, <2>2, <3>1, Geometry DEF ReserveSpent
    <2>4. currentPage'[d][currentBlock'[d]] = currentPage[d][currentBlock[d]]
        BY <1>2, <2>3 DEF TypeOK
    <2>5. ~CurrentIsFull'
        BY <1>1, <1>2, <2>3, <2>4 DEF CurrentIsFull, P
    <2> QED
        BY <1>2, <1>8, <2>5 DEF ReserveInv
<1> QED
    BY <1>9, <1>10

LEMMA ReserveStep == IInv /\ IInv' /\ ReserveInv /\ [Next /\ ~ErasesCurrentBlock']_vars => ReserveInv'
<1> SUFFICES ASSUME IInv, IInv', ReserveInv, [Next /\ ~ErasesCurrentBlock']_vars
             PROVE  ReserveInv'
    OBVIOUS
<1>1. ASSUME NEW l \in LogicalSlices, AddrTransWrite(l) PROVE ReserveInv'
    BY <1>1 DEF AddrTransWrite, ReserveInv, ReserveSpent
<1>2. CASE AllocFromCurrent
    <2>1. pc \in {"alloc", "realloc"} /\ pc' = "idle" /\ fbList' = fbList
        BY <1>2 DEF AllocFromCurrent, FinishWrite
    <2> QED
        BY <2>1 DEF ReserveInv, ReserveSpent
<1>3. CASE AllocFromNewBlock
    BY <1>3, ReserveAllocNew DEF IInv
<1>4. CASE StartGarbageCollection
    BY <1>4, ReserveStart
<1>5. CASE GcSkip
    BY <1>5, ReserveSkip
<1>6. CASE GcCopy
    BY <1>6, ReserveCopy
<1>7. CASE EraseBlock
    BY <1>7, ReserveErase
<1>8. CASE UNCHANGED vars
    <2>1. UNCHANGED <<l2v, currentPage, fbList, currentBlock, targetDie, pc, victim>>
        BY <1>8 DEF vars, maps, lists, die, gc
    <2>2. Remaining' = Remaining
        BY <2>1 DEF Remaining, Mapped
    <2> QED
        BY <2>1, <2>2 DEF ReserveInv, ReserveSpent, CurrentIsFull
<1> QED
    BY <1>1, <1>2, <1>3, <1>4, <1>5, <1>6, <1>7, <1>8 DEF Next, Allocate, Collect

LEMMA ReserveInductive == SpecUnlessCurrentErased => [](IInv /\ ReserveInv)
<1>1. Init => IInv /\ ReserveInv
    BY InitInv, ReserveInit
<1>2. IInv /\ ReserveInv /\ [Next /\ ~ErasesCurrentBlock']_vars => (IInv /\ ReserveInv)'
    BY StepInv, ReserveStep
<1> QED
    BY <1>1, <1>2, PTL DEF SpecUnlessCurrentErased

\* Outside a collection every die has its reserve block.
THEOREM ReserveStaysKept == SpecUnlessCurrentErased => []ReserveKept
<1>1. ASSUME IInv, ReserveInv, pc \in {"idle", "alloc", "realloc"}, NEW d \in Dies
      PROVE  Len(fbList[d]) >= RESERVED_FREE_BLOCK_COUNT
    <2>1. fbList[d] # <<>>
        BY <1>1 DEF ReserveInv, ReserveSpent
    <2>2. fbList[d] \in Seq(Blocks)
        BY <1>1 DEF IInv, TypeOK
    <2> QED
        BY <2>1, <2>2, NonEmpty DEF RESERVED_FREE_BLOCK_COUNT
<1>2. IInv /\ ReserveInv => ReserveKept
    BY <1>1 DEF ReserveKept
<1> QED
    BY <1>2, ReserveInductive, PTL

\* The assertions "There is no available block" never fire.
THEOREM BlocksStayAvailable == SpecUnlessCurrentErased => []BlockAvailable
<1>1. ASSUME IInv, ReserveInv, pc = "copy", IsValid(GcSlice)
      PROVE  GcBlockAvailable
    <2>1. PICK d \in Dies : d = targetDie
        BY <1>1 DEF IInv, TypeOK
    <2>2. CASE ReserveSpent(d)
        <3>1. currentBlock[d] # victim
            BY <2>2 DEF ReserveSpent
        <3>2. currentPage[d][currentBlock[d]] # P
            <4>1. Remaining \in Nat /\ currentPage[d][currentBlock[d]] \in 0 .. P
                BY <1>1, MappedFinite DEF Remaining, IInv, TypeOK, P
            <4> QED
                BY <2>2, <4>1, Geometry DEF ReserveSpent
        <3> QED
            BY <2>1, <3>1, <3>2 DEF GcBlockAvailable, GcLeavesVictim, GcLeavesFull, GcBlock1, P
    <2>3. CASE fbList[d] # <<>>
        <3>1. CASE ~GcLeavesVictim
            BY <2>1, <2>3, <3>1 DEF GcBlockAvailable, GcList1
        <3>2. CASE GcLeavesVictim
            <4>1. GcBlock1 = Head(fbList[d])
                BY <2>1, <3>2 DEF GcBlock1
            <4>2. fbList[d] \in Seq(Blocks) /\ Distinct(fbList[d])
                BY <1>1 DEF IInv, TypeOK, FreeInv
            <4>3. InList(fbList[d], Head(fbList[d])) /\ Head(fbList[d]) \in Blocks
                BY <2>3, <4>2, TailList
            <4>4. currentPage[d][Head(fbList[d])] = 0
                BY <1>1, <4>3 DEF IInv, FreeInv
            <4>5. ~GcLeavesFull
                BY <2>1, <4>1, <4>4, Geometry DEF GcLeavesFull, P
            <4> QED
                BY <2>1, <2>3, <4>5 DEF GcBlockAvailable
        <3> QED
            BY <3>1, <3>2
    <2> QED
        BY <1>1, <2>2, <2>3 DEF ReserveInv
<1>2. ASSUME IInv, ReserveInv, pc = "realloc", CurrentIsFull
      PROVE  NormalBlockAvailable(targetDie)
    <2>1. Len(fbList[targetDie]) >= 2 /\ Len(fbList[targetDie]) \in Nat
        BY <1>2, NonEmpty DEF ReserveInv, IInv, TypeOK
    <2> QED
        BY <2>1 DEF NormalBlockAvailable, RESERVED_FREE_BLOCK_COUNT
<1>3. IInv /\ ReserveInv => BlockAvailable
    BY <1>1, <1>2 DEF BlockAvailable
<1> QED
    BY <1>3, ReserveInductive, PTL

-----------------------------------------------------------------------------
(* The victim of a collection.  When a collection starts, every usable     *)
(* block of the die but the reserve is full.  If none had an invalid slice *)
(* all their pages would be live: more slices than the die may hold.       *)

\* Block b is one the start-up found good and gave to die d.
Usable(d, b) == InList(FreeAtBoot[d], b)

\* A usable block is free, current or full: none is left half written, lost
\* to the free list.
BlocksFilled ==
    \A d \in Dies, b \in Blocks : Usable(d, b) =>
        InList(fbList[d], b) \/ b = currentBlock[d] \/ currentPage[d][b] = P

\* The collector leaves the current block for another only when it is full.
LeftBlocksFull ==
    pc = "copy" /\ victim = currentBlock[targetDie] => CurrentIsFull

FilledInv == BlocksFilled /\ LeftBlocksFull

LEMMA FilledInit == Init => FilledInv
<1> SUFFICES ASSUME Init PROVE FilledInv
    OBVIOUS
<1>1. ASSUME NEW d \in Dies, NEW b \in Blocks, Usable(d, b), b # currentBlock[d]
      PROVE  InList(fbList[d], b)
    <2> DEFINE q == FreeAtBoot[d]
    <2>1. q \in Seq(Blocks) /\ Len(q) > 1 /\ Distinct(q)
        BY FreeAtBootAssumption DEF RESERVED_FREE_BLOCK_COUNT, Distinct
    <2>2. currentBlock[d] = Head(q) /\ fbList[d] = Tail(q)
        BY DEF Init, InitCurrentBlockOfDieMap
    <2>3. InList(q, b)
        BY <1>1 DEF Usable
    <2> HIDE DEF q
    <2>4. q # <<>>
        BY <2>1, EmptySeq
    <2> QED
        BY <1>1, <2>1, <2>2, <2>3, <2>4, TailList
<1>2. pc = "idle"
    BY DEF Init
<1> QED
    BY <1>1, <1>2 DEF FilledInv, BlocksFilled, LeftBlocksFull

\* Writing to the current block of the target die.
LEMMA FilledKeep ==
    ASSUME IInv, BlocksFilled, UNCHANGED <<fbList, currentBlock>>, NEW l \in LogicalSlices,
           Program(targetDie, currentBlock[targetDie], l)
    PROVE  BlocksFilled'
<1>1. currentPage' = [currentPage EXCEPT ![targetDie][currentBlock[targetDie]] = @ + 1]
    BY DEF Program
<1>2. \A d \in Dies, b \in Blocks :
          b # currentBlock[d] => currentPage'[d][b] = currentPage[d][b]
    BY <1>1 DEF IInv, TypeOK
<1> QED
    BY <1>2 DEF BlocksFilled

\* Leaving a full current block for the head of the free list.
LEMMA FilledPop ==
    ASSUME IInv, BlocksFilled, CurrentIsFull, fbList[targetDie] # <<>>,
           currentBlock' = [currentBlock EXCEPT ![targetDie] = Head(fbList[targetDie])],
           fbList' = [fbList EXCEPT ![targetDie] = Tail(fbList[targetDie])],
           NEW l \in LogicalSlices, Program(targetDie, Head(fbList[targetDie]), l)
    PROVE  BlocksFilled'
<1>1. PICK t \in Dies : t = targetDie
    BY DEF IInv, TypeOK
<1>2. fbList[t] \in Seq(Blocks) /\ Distinct(fbList[t])
    BY DEF IInv, TypeOK, FreeInv
<1>3. PICK h \in Blocks : h = Head(fbList[t])
    BY <1>1, <1>2, TailList
<1>4. \A x : InList(Tail(fbList[t]), x) <=> InList(fbList[t], x) /\ x # h
    BY <1>1, <1>2, <1>3, TailList
<1>5. currentPage' = [currentPage EXCEPT ![t][h] = @ + 1]
    BY <1>1, <1>3 DEF Program
<1>6. \A d \in Dies, b \in Blocks :
          ~(d = t /\ b = h) => currentPage'[d][b] = currentPage[d][b]
    BY <1>5 DEF IInv, TypeOK
<1>7. currentBlock' = [currentBlock EXCEPT ![t] = h]
    BY <1>1, <1>3
<1>8. /\ currentBlock'[t] = h /\ fbList'[t] = Tail(fbList[t])
      /\ \A d \in Dies : d # t => currentBlock'[d] = currentBlock[d] /\ fbList'[d] = fbList[d]
    BY <1>1, <1>7 DEF IInv, TypeOK
<1>9. ASSUME NEW d \in Dies, NEW b \in Blocks, Usable(d, b)
      PROVE  InList(fbList'[d], b) \/ b = currentBlock'[d] \/ currentPage'[d][b] = P
    <2>1. InList(fbList[d], b) \/ b = currentBlock[d] \/ currentPage[d][b] = P
        BY <1>9 DEF BlocksFilled
    <2>2. CASE d # t
        BY <1>6, <1>8, <2>1, <2>2
    <2>3. CASE d = t /\ b = h
        BY <1>8, <2>3
    <2>4. CASE d = t /\ b # h
        <3>1. currentPage'[d][b] = currentPage[d][b]
            BY <1>6, <2>4
        <3>2. InList(fbList[d], b) => InList(fbList'[d], b)
            BY <1>4, <1>8, <2>4
        <3>3. b = currentBlock[d] => currentPage[d][b] = P
            BY <1>1, <2>4 DEF CurrentIsFull, P
        <3> QED
            BY <2>1, <3>1, <3>2, <3>3
    <2> QED
        BY <2>2, <2>3, <2>4
<1> QED
    BY <1>9 DEF BlocksFilled

\* A copied slice goes to the current block, or to a new one if the current
\* block is full.  The victim is never the current block afterwards.
LEMMA FilledCopy ==
    ASSUME IInv, FilledInv, GcCopy
    PROVE  FilledInv'
<1>1. PICK d \in Dies, w \in Blocks : d = targetDie /\ w = victim
    BY DEF IInv, CallInv, TypeOK, GcCopy
<1>2. /\ pc = "copy" /\ IsValid(GcSlice) /\ GcBlockAvailable
      /\ currentBlock' = [currentBlock EXCEPT ![targetDie] = GcBlock2]
      /\ fbList' = [fbList EXCEPT ![targetDie] = GcList2]
      /\ Program(targetDie, GcBlock2, v2l[GcSlice])
      /\ UNCHANGED <<targetDie, victim>>
    BY DEF GcCopy, die
<1>3. v2l[GcSlice] \in LogicalSlices
    BY <1>1, <1>2 DEF IInv, CallInv, TypeOK, GcSlice, IsValid, Slices
<1>4. LeftBlocksFull'
    <2>1. currentBlock'[targetDie] = GcBlock2 /\ GcBlock2 # victim
        BY <1>2, GcBlockChosen DEF IInv, TypeOK
    <2> QED
        BY <1>2, <2>1 DEF LeftBlocksFull
<1>5. CASE ~GcLeavesVictim /\ ~GcLeavesFull
    <2>1. GcBlock2 = currentBlock[targetDie] /\ GcList2 = fbList[targetDie]
        BY <1>5 DEF GcBlock2, GcBlock1, GcList2, GcList1
    <2>2. UNCHANGED <<fbList, currentBlock>>
        BY <1>2, <2>1 DEF IInv, TypeOK
    <2>3. Program(targetDie, currentBlock[targetDie], v2l[GcSlice])
        BY <1>2, <2>1
    <2> QED
        BY <1>3, <1>4, <2>2, <2>3, FilledKeep DEF FilledInv
<1>6. CASE (GcLeavesVictim /\ ~GcLeavesFull) \/ (~GcLeavesVictim /\ GcLeavesFull)
    <2>1. /\ GcBlock2 = Head(fbList[targetDie]) /\ GcList2 = Tail(fbList[targetDie])
          /\ fbList[targetDie] # <<>>
        BY <1>2, <1>6 DEF GcBlock2, GcBlock1, GcList2, GcList1, GcBlockAvailable
    <2>2. CurrentIsFull
        BY <1>2, <1>6 DEF FilledInv, LeftBlocksFull, GcLeavesVictim, GcLeavesFull, GcBlock1,
                          CurrentIsFull
    <2>3. Program(targetDie, Head(fbList[targetDie]), v2l[GcSlice])
        BY <1>2, <2>1
    <2>4. /\ currentBlock' = [currentBlock EXCEPT ![targetDie] = Head(fbList[targetDie])]
          /\ fbList' = [fbList EXCEPT ![targetDie] = Tail(fbList[targetDie])]
        BY <1>2, <2>1
    <2> QED
        BY <1>3, <1>4, <2>1, <2>2, <2>3, <2>4, FilledPop DEF FilledInv
<1>7. CASE GcLeavesVictim /\ GcLeavesFull
    <2>1. GcBlock1 = Head(fbList[d]) /\ fbList[d] # <<>>
        BY <1>1, <1>2, <1>7 DEF GcBlock1, GcBlockAvailable
    <2>2. fbList[d] \in Seq(Blocks) /\ Distinct(fbList[d])
        BY DEF IInv, TypeOK, FreeInv
    <2>3. InList(fbList[d], Head(fbList[d])) /\ Head(fbList[d]) \in Blocks
        BY <2>1, <2>2, TailList
    <2>4. currentPage[d][Head(fbList[d])] = 0
        BY <2>3 DEF IInv, FreeInv
    <2> QED
        BY <1>1, <1>7, <2>1, <2>4, Geometry DEF GcLeavesFull, P
<1> QED
    BY <1>5, <1>6, <1>7

\* The erased victim joins the free list.
LEMMA FilledErase ==
    ASSUME IInv, FilledInv, EraseBlock
    PROVE  FilledInv'
<1>1. PICK t \in Dies, w \in Blocks : t = targetDie /\ w = victim
    BY DEF IInv, CallInv, TypeOK, EraseBlock
<1>2. /\ pc = "erase" /\ pc' = "realloc"
      /\ currentPage' = [currentPage EXCEPT ![t][w] = 0]
      /\ fbList' = [fbList EXCEPT ![t] = Append(fbList[t], w)]
      /\ UNCHANGED currentBlock
    BY <1>1 DEF EraseBlock, ResetCounts
<1>3. fbList[t] \in Seq(Blocks) /\ Distinct(fbList[t])
    BY DEF IInv, TypeOK, FreeInv
<1>4. ~InList(fbList[t], w)
    BY <1>1, <1>2 DEF IInv, FreeInv, BeingCollected
<1>5. \A x : InList(Append(fbList[t], w), x) <=> InList(fbList[t], x) \/ x = w
    BY <1>3, <1>4, AppendList
<1>6. fbList'[t] = Append(fbList[t], w) /\ \A d \in Dies : d # t => fbList'[d] = fbList[d]
    BY <1>2 DEF IInv, TypeOK
<1>7. \A d \in Dies, b \in Blocks :
          ~(d = t /\ b = w) => currentPage'[d][b] = currentPage[d][b]
    BY <1>2 DEF IInv, TypeOK
<1>8. ASSUME NEW d \in Dies, NEW b \in Blocks, Usable(d, b)
      PROVE  InList(fbList'[d], b) \/ b = currentBlock'[d] \/ currentPage'[d][b] = P
    <2>1. InList(fbList[d], b) \/ b = currentBlock[d] \/ currentPage[d][b] = P
        BY <1>8 DEF FilledInv, BlocksFilled
    <2>2. CASE d = t /\ b = w
        BY <1>5, <1>6, <2>2
    <2>3. CASE ~(d = t /\ b = w)
        <3>1. InList(fbList[d], b) => InList(fbList'[d], b)
            BY <1>5, <1>6
        <3> QED
            BY <1>2, <1>7, <2>1, <2>3, <3>1
    <2> QED
        BY <2>2, <2>3
<1> QED
    BY <1>2, <1>8 DEF FilledInv, BlocksFilled, LeftBlocksFull

LEMMA FilledStep == IInv /\ FilledInv /\ [Next /\ ~ErasesCurrentBlock']_vars => FilledInv'
<1> SUFFICES ASSUME IInv, FilledInv, [Next /\ ~ErasesCurrentBlock']_vars
             PROVE  FilledInv'
    OBVIOUS
<1>1. ASSUME NEW l \in LogicalSlices, AddrTransWrite(l) PROVE FilledInv'
    BY <1>1 DEF AddrTransWrite, FilledInv, BlocksFilled, LeftBlocksFull
<1>2. CASE AllocFromCurrent
    <2>1. /\ pc' = "idle" /\ UNCHANGED <<fbList, currentBlock>> /\ lsa \in LogicalSlices
          /\ Program(targetDie, currentBlock[targetDie], lsa)
        BY <1>2 DEF AllocFromCurrent, FinishWrite, IInv, CallInv
    <2> QED
        BY <2>1, FilledKeep DEF FilledInv, LeftBlocksFull
<1>3. CASE AllocFromNewBlock
    <2>1. /\ pc' = "idle" /\ CurrentIsFull /\ lsa \in LogicalSlices
          /\ Len(fbList[targetDie]) > 1
          /\ currentBlock' = [currentBlock EXCEPT ![targetDie] = Head(fbList[targetDie])]
          /\ fbList' = [fbList EXCEPT ![targetDie] = Tail(fbList[targetDie])]
          /\ Program(targetDie, Head(fbList[targetDie]), lsa)
        BY <1>3 DEF AllocFromNewBlock, FinishWrite, NormalBlockAvailable,
                    RESERVED_FREE_BLOCK_COUNT, IInv, CallInv
    <2>2. fbList[targetDie] # <<>>
        BY <2>1, EmptySeq
    <2> QED
        BY <2>1, <2>2, FilledPop DEF FilledInv, LeftBlocksFull
<1>4. CASE StartGarbageCollection
    <2>1. CurrentIsFull /\ UNCHANGED <<currentPage, fbList, currentBlock, targetDie>>
        BY <1>4 DEF StartGarbageCollection, die
    <2> QED
        BY <2>1 DEF FilledInv, BlocksFilled, LeftBlocksFull, CurrentIsFull
<1>5. CASE GcSkip
    <2>1. pc = "copy" /\ UNCHANGED <<currentPage, fbList, currentBlock, targetDie, victim>>
        BY <1>5 DEF GcSkip, lists, die
    <2> QED
        BY <2>1 DEF FilledInv, BlocksFilled, LeftBlocksFull, CurrentIsFull
<1>6. CASE GcCopy
    BY <1>6, FilledCopy
<1>7. CASE EraseBlock
    BY <1>7, FilledErase
<1>8. CASE UNCHANGED vars
    <2>1. UNCHANGED <<currentPage, fbList, currentBlock, targetDie, pc, victim>>
        BY <1>8 DEF vars, lists, die, gc
    <2> QED
        BY <2>1 DEF FilledInv, BlocksFilled, LeftBlocksFull, CurrentIsFull
<1> QED
    BY <1>1, <1>2, <1>3, <1>4, <1>5, <1>6, <1>7, <1>8 DEF Next, Allocate, Collect

LEMMA FilledInductive == SpecUnlessCurrentErased => [](IInv /\ FilledInv)
<1>1. Init => IInv /\ FilledInv
    BY InitInv, FilledInit
<1>2. IInv /\ FilledInv /\ [Next /\ ~ErasesCurrentBlock']_vars => (IInv /\ FilledInv)'
    BY StepInv, FilledStep
<1> QED
    BY <1>1, <1>2, PTL DEF SpecUnlessCurrentErased

\* The first n positive numbers.
LEMMA FirstNumbers ==
    ASSUME NEW n \in Nat
    PROVE  IsFiniteSet(1 .. n) /\ Cardinality(1 .. n) = n
<1>1. Cardinality(1 .. n) = IF 1 > n THEN 0 ELSE n - 1 + 1
    BY FS_Interval
<1>2. IsFiniteSet(1 .. n)
    BY FS_Interval
<1> QED
    BY <1>1, <1>2

\* The usable blocks that are not free are all but the free ones.
LEMMA BlocksInUse ==
    ASSUME TypeOK, NEW d \in Dies, Len(fbList[d]) <= 1
    PROVE  LET U == {b \in Blocks : Usable(d, b) /\ ~InList(fbList[d], b)}
           IN  IsFiniteSet(U) /\ Cardinality(U) >= Len(FreeAtBoot[d]) - 1
<1> DEFINE q == FreeAtBoot[d]
           r == fbList[d]
           A == {b \in Blocks : Usable(d, b)}
           U == {b \in Blocks : Usable(d, b) /\ ~InList(r, b)}
<1>1. q \in Seq(Blocks) /\ Distinct(q) /\ Len(q) \in Nat
    BY FreeAtBootAssumption, LenProperties DEF Distinct
<1>2. r \in Seq(Blocks) /\ Len(r) <= 1
    BY DEF TypeOK
<1>3. IsFiniteSet(A) /\ Cardinality(A) = Len(q)
    <2>1. \A x \in 1 .. Len(q) : q[x] \in A
        BY <1>1, ElementOfSeq DEF Usable, InList
    <2>2. \A b \in A : \E x \in 1 .. Len(q) : q[x] = b
        BY DEF Usable, InList
    <2>3. \A x, y \in 1 .. Len(q) : q[x] = q[y] => x = y
        BY <1>1 DEF Distinct
    <2> HIDE DEF q, A
    <2> DEFINE f == [x \in 1 .. Len(q) |-> q[x]]
    <2>4. \A x \in 1 .. Len(q) : f[x] = q[x]
        OBVIOUS
    <2>5. f \in [1 .. Len(q) -> A]
        BY <2>1
    <2> HIDE DEF f
    <2>6. f \in Injection(1 .. Len(q), A)
        BY <2>3, <2>4, <2>5 DEF Injection, IsInjective
    <2>7. f \in Surjection(1 .. Len(q), A)
        BY <2>2, <2>4, <2>5 DEF Surjection
    <2>8. IsFiniteSet(1 .. Len(q)) /\ Cardinality(1 .. Len(q)) = Len(q)
        BY <1>1, FirstNumbers
    <2>9. ExistsBijection(1 .. Len(q), A)
        BY <2>6, <2>7 DEF ExistsBijection, Bijection
    <2> QED
        BY <2>8, <2>9, FS_Bijection
<1>4. \E h : \A b : InList(r, b) => b = h
    <2>1. Len(r) \in Nat
        BY <1>2, LenProperties
    <2>2. \A b : InList(r, b) => b = r[1]
        BY <1>2, <2>1 DEF InList
    <2> QED
        BY <2>2
<1>5. PICK h : \A b : InList(r, b) => b = h
    BY <1>4
<1>6. U \in SUBSET A /\ A \ {h} \in SUBSET U
    BY <1>5
<1> HIDE DEF q, r, A, U
<1>7. IsFiniteSet(U) /\ Cardinality(U) \in Nat
    BY <1>3, <1>6, FS_Subset, FS_CardinalityType
<1>8. Cardinality(A \ {h}) >= Len(q) - 1
    <2>1. Cardinality(A \ {h}) = IF h \in A THEN Cardinality(A) - 1 ELSE Cardinality(A)
        BY <1>3, FS_RemoveElement
    <2>2. Len(q) \in Nat /\ Cardinality(A) = Len(q)
        BY <1>1, <1>3
    <2> QED
        BY <2>1, <2>2
<1>9. Cardinality(A \ {h}) <= Cardinality(U)
    BY <1>6, <1>7, FS_Subset
<1>10. Cardinality(A \ {h}) \in Nat
    BY <1>3, FS_RemoveElement, FS_CardinalityType
<1>11. Cardinality(U) >= Len(q) - 1
    BY <1>1, <1>7, <1>8, <1>9, <1>10
<1> QED
    BY <1>7, <1>11 DEF q, r, U

\* A full block without an invalid slice is live from its first page to its last.
LEMMA FullBlocksLive ==
    ASSUME IInv, NEW d \in Dies, NEW b \in Blocks, ~BeingCollected(d, b),
           VictimCounts(d) = {}, currentPage[d][b] = P
    PROVE  \A p \in Pages : \E l \in LogicalSlices : l2v[l] = <<d, b, p>>
<1> DEFINE M == Mapped(l2v, d, b)
           n == invalidCnt[d][b]
<1>1. n \in 0 .. P
    BY Geometry DEF IInv, TypeOK
<1>2. n = 0
    <2> SUFFICES ASSUME n # 0 PROVE FALSE
        OBVIOUS
    <2>1. n \in 0 .. SLICES_PER_BLOCK /\ n > 0 /\ n \in 1 .. SLICES_PER_BLOCK
        BY <1>1, Geometry
    <2>2. InList(victimList[d][n], b)
        BY <2>1 DEF IInv, ListInv
    <2>3. victimList[d][n] \in Seq(Blocks)
        <3>1. victimList \in [Dies -> [0 .. SLICES_PER_BLOCK -> Seq(Blocks)]]
            BY DEF IInv, TypeOK
        <3> HIDE DEF n
        <3> QED
            BY ONLY <2>1, <3>1, d \in Dies
    <2>4. victimList[d][n] # <<>>
        BY <2>2, <2>3, EmptySeq DEF InList
    <2> QED
        BY <2>1, <2>4 DEF VictimCounts
<1>3. IsFiniteSet(M) /\ Cardinality(M) \in Nat
    BY MappedFinite
<1>4. Cardinality(M) = P
    <2>1. n + Cardinality(M) = P
        BY DEF IInv, CountInv
    <2> QED
        BY <1>2, <1>3, <2>1
<1>5. IsFiniteSet(Pages) /\ Cardinality(Pages) = P
    <2>1. P \in Nat /\ P > 0
        BY Geometry
    <2>2. 0 \in Int /\ P - 1 \in Int /\ ~(0 > P - 1) /\ (P - 1) - 0 + 1 = P
        BY <2>1
    <2>3. Pages = 0 .. P - 1
        BY DEF Pages, P
    <2> QED
        BY <2>2, <2>3, FS_Interval
<1>6. M \in SUBSET Pages
    BY DEF Mapped
<1>7. M = Pages
    BY <1>4, <1>5, <1>6, FS_Subset
<1> QED
    BY <1>7 DEF Mapped

\* Otherwise every page of the blocks in use would be live.
LEMMA RoomLeavesVictim ==
    ASSUME IInv, FilledInv, pc = "alloc", CurrentIsFull, ~NormalBlockAvailable(targetDie),
           DieHasRoom(targetDie)
    PROVE  VictimCounts(targetDie) # {}
<1> SUFFICES ASSUME VictimCounts(targetDie) = {} PROVE FALSE
    OBVIOUS
<1>1. PICK d \in Dies : d = targetDie
    BY DEF IInv, TypeOK
<1> DEFINE U == {b \in Blocks : Usable(d, b) /\ ~InList(fbList[d], b)}
           L == LiveOn(d)
           f == [x \in U \X Pages |-> v2l[<<d, x[1], x[2]>>]]
<1>2. Len(fbList[d]) <= 1
    <2>1. Len(fbList[d]) \in Nat /\ ~(Len(fbList[d]) > 1)
        BY <1>1, LenProperties DEF IInv, TypeOK, NormalBlockAvailable, RESERVED_FREE_BLOCK_COUNT
    <2> QED
        BY <2>1
<1>3. IsFiniteSet(U) /\ Cardinality(U) >= Len(FreeAtBoot[d]) - 1
    BY <1>2, BlocksInUse DEF IInv
<1>4. ASSUME NEW b \in U, NEW p \in Pages
      PROVE  \E l \in LogicalSlices : l2v[l] = <<d, b, p>>
    <2>1. b \in Blocks /\ Usable(d, b) /\ ~InList(fbList[d], b)
        OBVIOUS
    <2>2. currentPage[d][b] = P
        BY <1>1, <2>1 DEF FilledInv, BlocksFilled, CurrentIsFull, P
    <2>3. ~BeingCollected(d, b)
        BY DEF BeingCollected
    <2> QED
        BY <1>1, <2>1, <2>2, <2>3, FullBlocksLive
<1>5. ASSUME NEW b \in U, NEW p \in Pages
      PROVE  /\ v2l[<<d, b, p>>] \in LiveOn(d)
             /\ l2v[v2l[<<d, b, p>>]] = <<d, b, p>>
    <2>1. PICK l \in LogicalSlices : l2v[l] = <<d, b, p>>
        BY <1>4
    <2>2. v2l[<<d, b, p>>] = l
        BY <2>1 DEF IInv, Agreement
    <2> QED
        BY <2>1, <2>2 DEF LiveOn
<1>6. f \in Injection(U \X Pages, L)
    <2>1. ASSUME NEW x \in U \X Pages
          PROVE  f[x] \in L /\ l2v[f[x]] = <<d, x[1], x[2]>> /\ x = <<x[1], x[2]>>
        BY <1>5
    <2>2. ASSUME NEW x \in U \X Pages, NEW y \in U \X Pages, f[x] = f[y]
          PROVE  x = y
        <3>1. <<d, x[1], x[2]>> = <<d, y[1], y[2]>>
            BY <2>1, <2>2
        <3>2. x[1] = y[1] /\ x[2] = y[2]
            BY <3>1
        <3> QED
            BY <2>1, <3>2
    <2>3. f \in [U \X Pages -> L]
        BY <2>1
    <2> HIDE DEF f
    <2> QED
        BY <2>2, <2>3 DEF Injection, IsInjective
<1>7. IsFiniteSet(Pages) /\ Cardinality(Pages) = P
    <2>1. P \in Nat /\ P > 0
        BY Geometry
    <2>2. 0 \in Int /\ P - 1 \in Int /\ ~(0 > P - 1) /\ (P - 1) - 0 + 1 = P
        BY <2>1
    <2>3. Pages = 0 .. P - 1
        BY DEF Pages, P
    <2> QED
        BY <2>2, <2>3, FS_Interval
<1> HIDE DEF U, L, f
<1>8. Cardinality(U \X Pages) = Cardinality(U) * P
    BY <1>3, <1>7, FS_Product
<1>9. IsFiniteSet(L) /\ Cardinality(L) < P * (Len(FreeAtBoot[d]) - 1)
    BY <1>1 DEF DieHasRoom, Room, L, P, RESERVED_FREE_BLOCK_COUNT
<1>10. Cardinality(U \X Pages) <= Cardinality(L)
    BY <1>6, <1>9, FS_Injection
<1>11. Cardinality(U) \in Nat /\ Cardinality(L) \in Nat
    BY <1>3, <1>9, FS_CardinalityType
<1>12. Len(FreeAtBoot[d]) \in Nat
    BY FreeAtBootAssumption, LenProperties
<1>13. P * (Len(FreeAtBoot[d]) - 1) <= Cardinality(U) * P
    <2>1. P \in Nat /\ Len(FreeAtBoot[d]) - 1 \in Int
        BY <1>12, Geometry
    <2>2. \A x, y \in Int : x <= y => P * x <= y * P
        BY <2>1
    <2> QED
        BY <1>3, <1>11, <2>1, <2>2
<1>14. Cardinality(U) * P \in Int /\ P * (Len(FreeAtBoot[d]) - 1) \in Int
    BY <1>11, <1>12, Geometry
<1> QED
    BY <1>8, <1>9, <1>10, <1>11, <1>13, <1>14

\* The assertion "There are no free blocks. Abort terminate this ssd" fires
\* only on a die whose live slices fill every block but the reserve.
THEOREM VictimsStayAvailable ==
    SpecUnlessCurrentErased => []VictimWhileRoom
<1>1. IInv /\ FilledInv => VictimWhileRoom
    BY RoomLeavesVictim DEF VictimWhileRoom, VictimExists
<1> QED
    BY <1>1, FilledInductive, PTL

(***************************************************************************)
(* The data: the store of logical slices.                                  *)
(***************************************************************************)

\* While a call is under way it holds data for its slice.
IncomingInv == pc # "idle" => incoming \in Data

FlashInv == flash \in [Slices -> Data \cup {NONE}]

StoredInv == IInv /\ IncomingInv /\ FlashInv

\* Every step of StoredData is a step of AddressTranslation.
LEMMA StoredStepIsStep ==
    ASSUME [StoredNext /\ ~ErasesCurrentBlock']_storedVars
    PROVE  [Next /\ ~ErasesCurrentBlock']_vars
<1>1. StoredNext => Next
    BY DEF StoredNext, Evict, WritePage, CopyPage, EraseFlash, MoveNothing, Next, Collect
<1>2. UNCHANGED storedVars => UNCHANGED vars
    BY DEF storedVars
<1> QED
    BY <1>1, <1>2

\* What the host asks a read of l to return.
Read(l) == DataReadFromNand(l)

LEMMA ReadIs ==
    ASSUME NEW l
    PROVE  Read(l) = IF l2v[l] = NONE THEN NONE ELSE flash[l2v[l]]
    BY DEF Read, DataReadFromNand, AddrTransRead

\* The step of a page write, copied or new: what the pages then hold.
LEMMA ProgramFlash ==
    ASSUME IInv, FlashInv, NEW d \in Dies, NEW b \in Blocks, NEW l \in LogicalSlices,
           currentPage[d][b] # P, Program(d, b, l),
           NEW x \in Data \cup {NONE}, flash' = [flash EXCEPT ![l2v'[l]] = x]
    PROVE  /\ FlashInv'
           /\ \A k \in LogicalSlices : Read(k)' = IF k = l THEN x ELSE Read(k)
<1> DEFINE v == <<d, b, currentPage[d][b]>>
<1>1. /\ v \in Slices
      /\ \A k \in LogicalSlices : l2v'[k] = IF k = l THEN v ELSE l2v[k]
      /\ \A k \in LogicalSlices : l2v[k] # v
    BY ProgramEffect, ProgramAgrees DEF IInv
<1>2. l2v \in [LogicalSlices -> Slices \cup {NONE}]
    BY DEF IInv, TypeOK
<1> HIDE DEF v
<1>3. flash' = [flash EXCEPT ![v] = x] /\ v # NONE
    BY <1>1, NoneAssumption
<1>4. FlashInv'
    BY <1>1, <1>3 DEF FlashInv
<1>5. \A u \in Slices : flash'[u] = IF u = v THEN x ELSE flash[u]
    BY <1>1, <1>3 DEF FlashInv
<1>6. ASSUME NEW k \in LogicalSlices
      PROVE  Read(k)' = IF k = l THEN x ELSE Read(k)
    <2>1. Read(k)' = IF l2v'[k] = NONE THEN NONE ELSE flash'[l2v'[k]]
        BY DEF Read, DataReadFromNand, AddrTransRead
    <2>2. Read(k) = IF l2v[k] = NONE THEN NONE ELSE flash[l2v[k]]
        BY ReadIs
    <2>3. CASE k = l
        BY <1>1, <1>3, <1>5, <2>1, <2>3
    <2>4. CASE k # l
        <3>1. l2v'[k] = l2v[k] /\ l2v[k] # v
            BY <1>1, <2>4
        <3>2. CASE l2v[k] = NONE
            BY <2>1, <2>2, <2>4, <3>1, <3>2
        <3>3. CASE l2v[k] # NONE
            <4>1. l2v[k] \in Slices
                BY <1>2, <3>3
            <4>2. flash'[l2v[k]] = flash[l2v[k]]
                BY <1>5, <3>1, <4>1
            <4> QED
                BY <2>1, <2>2, <2>4, <3>1, <3>3, <4>2
        <3> QED
            BY <3>2, <3>3
    <2> QED
        BY <2>3, <2>4
<1> QED
    BY <1>4, <1>6

-----------------------------------------------------------------------------
(* One lemma per operation: the mapped step and the invariants.            *)

\* The values the refinement mapping takes: what is stored, what is written.
Stored  == [l \in LogicalSlices |-> DataReadFromNand(l)]
Writing == IF pc = "idle" THEN NONE ELSE <<lsa, incoming>>

LEMMA EvictStep ==
    ASSUME StoredInv, Evict
    PROVE  /\ IncomingInv' /\ FlashInv'
           /\ \E l \in LogicalSlices, x \in Data :
                /\ Writing = NONE /\ Writing' = <<l, x>>
                /\ Stored' = [Stored EXCEPT ![l] = NONE]
<1>1. PICK l \in LogicalSlices, x \in Data : AddrTransWrite(l) /\ incoming' = x
    BY DEF Evict
<1>2. pc = "idle" /\ pc' = "alloc" /\ lsa' = l /\ flash' = flash
    BY <1>1 DEF AddrTransWrite, Evict
<1>3. IncomingInv' /\ FlashInv'
    BY <1>1, <1>2 DEF StoredInv, IncomingInv, FlashInv
<1>4. Writing = NONE /\ Writing' = <<l, x>>
    BY <1>1, <1>2 DEF Writing
<1>5. \A k \in LogicalSlices : l2v'[k] = IF k = l THEN NONE ELSE l2v[k]
    <2>1. CASE l2v[l] # NONE /\ v2l[l2v[l]] = l
        <3>1. l2v' = [l2v EXCEPT ![l] = NONE]
            BY <1>1, <2>1 DEF AddrTransWrite, InvalidateOldVsa
        <3> QED
            BY <3>1 DEF StoredInv, IInv, TypeOK
    <2>2. CASE ~(l2v[l] # NONE /\ v2l[l2v[l]] = l)
        <3>1. l2v' = l2v
            BY <1>1, <2>2 DEF AddrTransWrite, maps
        <3>2. l2v[l] = NONE
            BY <2>2, AgreementIsMapsAgree DEF StoredInv, IInv, MapsAgree
        <3> QED
            BY <3>1, <3>2
    <2> QED
        BY <2>1, <2>2
<1>6. \A k \in LogicalSlices : DataReadFromNand(k)' = IF k = l THEN NONE ELSE DataReadFromNand(k)
    BY <1>2, <1>5 DEF DataReadFromNand, AddrTransRead
<1>7. Stored' = [Stored EXCEPT ![l] = NONE]
    BY <1>6 DEF Stored
<1> QED
    BY <1>3, <1>4, <1>7

LEMMA WritePageStep ==
    ASSUME StoredInv, WritePage
    PROVE  /\ IncomingInv' /\ FlashInv'
           /\ Writing # NONE /\ Writing' = NONE
           /\ Stored' = [Stored EXCEPT ![Writing[1]] = Writing[2]]
<1>1. /\ pc \in {"alloc", "realloc"} /\ pc' = "idle"
      /\ \E b \in Blocks : Program(targetDie, b, lsa) /\ currentPage[targetDie][b] # P
    <2>1. CASE AllocFromCurrent
        BY <2>1 DEF AllocFromCurrent, CurrentIsFull, FinishWrite, StoredInv, IInv, TypeOK, P
    <2>2. CASE AllocFromNewBlock
        <3> DEFINE h == Head(fbList[targetDie])
        <3>1. /\ pc \in {"alloc", "realloc"} /\ FinishWrite(h)
              /\ currentBlock' = [currentBlock EXCEPT ![targetDie] = h]
              /\ Len(fbList[targetDie]) > 1
            BY <2>2 DEF AllocFromNewBlock, NormalBlockAvailable, RESERVED_FREE_BLOCK_COUNT
        <3>2. fbList' = [fbList EXCEPT ![targetDie] = Tail(fbList[targetDie])]
            BY <2>2 DEF AllocFromNewBlock
        <3>3. fbList[targetDie] # <<>>
            BY <3>1, EmptySeq
        <3>4. h \in Blocks /\ currentPage[targetDie][h] = 0
            BY <3>1, <3>2, <3>3, PopFreeBlock DEF StoredInv, IInv
        <3> HIDE DEF h
        <3> QED
            BY <3>1, <3>4, Geometry DEF FinishWrite
    <2> QED
        BY <2>1, <2>2 DEF WritePage, Allocate
<1>2. lsa \in LogicalSlices /\ targetDie \in Dies /\ incoming \in Data
    BY <1>1 DEF StoredInv, IncomingInv, IInv, CallInv, TypeOK
<1>3. flash' = [flash EXCEPT ![l2v'[lsa]] = incoming]
    BY DEF WritePage
<1>4. /\ FlashInv'
      /\ \A k \in LogicalSlices : Read(k)' = IF k = lsa THEN incoming ELSE Read(k)
    BY <1>1, <1>2, <1>3, ProgramFlash DEF StoredInv
<1>5. Writing = <<lsa, incoming>> /\ Writing' = NONE
    BY <1>1 DEF Writing
<1>6. Writing # NONE
    BY <1>2, <1>5, DataAssumption
<1>7. Stored' = [Stored EXCEPT ![lsa] = incoming]
    BY <1>2, <1>4 DEF Stored, Read
<1> QED
    BY <1>1, <1>4, <1>5, <1>6, <1>7 DEF IncomingInv

\* A copied slice reads at its new page what it read at its old one.
LEMMA CopyPageStep ==
    ASSUME StoredInv, CopyPage
    PROVE  /\ IncomingInv' /\ FlashInv'
           /\ UNCHANGED <<Stored, Writing>>
<1>1. /\ GcCopy /\ incoming' = incoming
      /\ flash' = [flash EXCEPT ![l2v'[v2l[GcSlice]]] = flash[GcSlice]]
    BY DEF CopyPage
<1>2. /\ pc = "copy" /\ pc' \in {"copy", "erase"} /\ lsa' = lsa
    BY <1>1, NextGcPageEffect DEF GcCopy, StoredInv, IInv
<1>3. PICK d \in Dies, w \in Blocks, g \in Pages :
          d = targetDie /\ w = victim /\ g = gcPage
    BY <1>2 DEF CallInv, TypeOK, StoredInv, IInv
<1>4. GcSlice = <<d, w, g>> /\ IsValid(<<d, w, g>>)
    BY <1>1, <1>3 DEF GcSlice, GcCopy
<1>5. PICK l \in LogicalSlices : l2v[l] = <<d, w, g>>
    BY <1>4, ValidIsMapped DEF StoredInv, IInv
<1>6. v2l[<<d, w, g>>] = l
    BY <1>5 DEF Agreement, StoredInv, IInv
<1>7. PICK b \in Blocks : currentPage[d][b] # P /\ Program(d, b, l)
    BY <1>1, <1>3, <1>4, <1>6, GcBlockChosen DEF GcCopy, StoredInv, IInv
<1>8. <<d, w, g>> \in Slices /\ flash[<<d, w, g>>] \in Data \cup {NONE}
    BY DEF Slices, StoredInv, FlashInv
<1>9. flash' = [flash EXCEPT ![l2v'[l]] = flash[<<d, w, g>>]]
    BY <1>1, <1>4, <1>6
<1>10. /\ FlashInv'
       /\ \A k \in LogicalSlices : Read(k)' = IF k = l THEN flash[<<d, w, g>>] ELSE Read(k)
    BY <1>7, <1>8, <1>9, ProgramFlash DEF StoredInv
<1>11. Read(l) = flash[<<d, w, g>>]
    BY <1>5, <1>8, ReadIs, NoneAssumption
<1>12. Stored' = Stored
    BY <1>10, <1>11 DEF Stored, Read
<1> QED
    BY <1>1, <1>2, <1>10, <1>12 DEF IncomingInv, StoredInv, Writing

\* An erase loses no page a logical slice is mapped to.
LEMMA EraseFlashStep ==
    ASSUME StoredInv, EraseFlash
    PROVE  /\ IncomingInv' /\ FlashInv'
           /\ UNCHANGED <<Stored, Writing>>
<1>1. /\ pc = "erase" /\ pc' = "realloc" /\ UNCHANGED <<l2v, lsa, incoming>>
      /\ flash' = [v \in Slices |-> IF v[1] = targetDie /\ v[2] = victim THEN NONE ELSE flash[v]]
    BY DEF EraseFlash, EraseBlock
<1>2. \A k \in LogicalSlices, p \in Pages : l2v[k] # <<targetDie, victim, p>>
    BY <1>1 DEF StoredInv, IInv, NothingLeftBehind
<1>3. FlashInv'
    BY <1>1 DEF StoredInv, FlashInv
<1>4. ASSUME NEW k \in LogicalSlices
      PROVE  DataReadFromNand(k)' = DataReadFromNand(k)
    <2>1. CASE l2v[k] = NONE
        BY <1>1, <2>1 DEF DataReadFromNand, AddrTransRead
    <2>2. CASE l2v[k] # NONE
        <3>1. l2v[k] \in Slices
            BY <2>2 DEF StoredInv, IInv, TypeOK
        <3>2. ~(l2v[k][1] = targetDie /\ l2v[k][2] = victim)
            BY <1>2, <3>1, SliceParts
        <3>3. flash'[l2v[k]] = flash[l2v[k]]
            BY <1>1, <3>1, <3>2
        <3> QED
            BY <1>1, <2>2, <3>3 DEF DataReadFromNand, AddrTransRead
    <2> QED
        BY <2>1, <2>2
<1>5. Stored' = Stored
    BY <1>4 DEF Stored
<1> QED
    BY <1>1, <1>3, <1>5 DEF StoredInv, IncomingInv, Writing

LEMMA MoveNothingStep ==
    ASSUME StoredInv, MoveNothing
    PROVE  /\ IncomingInv' /\ FlashInv'
           /\ UNCHANGED <<Stored, Writing>>
<1>1. UNCHANGED <<l2v, lsa, flash, incoming>>
    BY DEF MoveNothing, StartGarbageCollection, GcSkip, maps
<1>2. pc # "idle" /\ pc' # "idle"
    <2>1. CASE StartGarbageCollection
        BY <2>1 DEF StartGarbageCollection
    <2>2. CASE GcSkip
        BY <2>2, NextGcPageEffect DEF GcSkip, StoredInv, IInv
    <2> QED
        BY <2>1, <2>2 DEF MoveNothing
<1>3. Stored' = Stored
    BY <1>1 DEF Stored, DataReadFromNand, AddrTransRead
<1> QED
    BY <1>1, <1>2, <1>3 DEF StoredInv, IncomingInv, FlashInv, Writing

-----------------------------------------------------------------------------
(* The refinement.                                                         *)

LEMMA StoredInitInv == StoredInit => StoredInv
    BY InitInv DEF StoredInit, StoredInv, IncomingInv, FlashInv, Init

LEMMA StoredStep ==
    ASSUME StoredInv, [StoredNext /\ ~ErasesCurrentBlock']_storedVars
    PROVE  /\ StoredInv'
           /\ [Store!Next]_<<Stored, Writing>>
<1>1. IInv'
    BY StoredStepIsStep, StepInv DEF StoredInv
<1>2. CASE Evict
    <2>1. /\ IncomingInv' /\ FlashInv'
          /\ \E l \in LogicalSlices, x \in Data :
                /\ Writing = NONE /\ Writing' = <<l, x>>
                /\ Stored' = [Stored EXCEPT ![l] = NONE]
        BY <1>2, EvictStep
    <2>2. \E l \in LogicalSlices, x \in Data : Store!StartWrite(l, x)
        BY <2>1 DEF Store!StartWrite, Stored, Writing
    <2> QED
        BY <1>1, <2>1, <2>2 DEF StoredInv, Store!Next
<1>3. CASE WritePage
    <2>1. /\ IncomingInv' /\ FlashInv'
          /\ Writing # NONE /\ Writing' = NONE
          /\ Stored' = [Stored EXCEPT ![Writing[1]] = Writing[2]]
        BY <1>3, WritePageStep
    <2>2. Store!FinishWrite
        BY <2>1 DEF Store!FinishWrite, Stored, Writing
    <2> QED
        BY <1>1, <2>1, <2>2 DEF StoredInv, Store!Next
<1>4. CASE CopyPage
    BY <1>1, <1>4, CopyPageStep DEF StoredInv
<1>5. CASE EraseFlash
    BY <1>1, <1>5, EraseFlashStep DEF StoredInv
<1>6. CASE MoveNothing
    BY <1>1, <1>6, MoveNothingStep DEF StoredInv
<1>7. CASE UNCHANGED storedVars
    <2>1. UNCHANGED <<l2v, pc, lsa, flash, incoming>>
        BY <1>7 DEF storedVars, vars, maps
    <2> QED
        BY <1>1, <2>1 DEF StoredInv, IncomingInv, FlashInv, Stored, Writing, DataReadFromNand, AddrTransRead
<1> QED
    BY <1>2, <1>3, <1>4, <1>5, <1>6, <1>7 DEF StoredNext

\* Whatever is copied and erased, a logical slice reads as it was last written
\* and no write disturbs another slice.
THEOREM TranslationImplementsStore == StoredSpec => ImplementsSliceStore
<1>1. StoredInit => Store!Init
    <2> SUFFICES ASSUME StoredInit PROVE Store!Init
        OBVIOUS
    <2>1. \A l \in LogicalSlices : DataReadFromNand(l) = NONE
        BY DEF StoredInit, Init, InitSliceMap, DataReadFromNand, AddrTransRead
    <2> QED
        BY <2>1 DEF StoredInit, Init, Store!Init
<1>2. StoredInv /\ [StoredNext /\ ~ErasesCurrentBlock']_storedVars => StoredInv'
    BY StoredStep
<1>3. StoredInv /\ [StoredNext /\ ~ErasesCurrentBlock']_storedVars => [Store!Next]_<<Stored, Writing>>
    BY StoredStep
<1>4. [Store!Next]_<<Stored, Writing>> <=> [Store!Next]_<<[l \in LogicalSlices |-> DataReadFromNand(l)],
                                                         IF pc = "idle" THEN NONE ELSE <<lsa, incoming>>>>
    BY DEF Stored, Writing
<1> QED
    BY <1>1, <1>2, <1>3, <1>4, StoredInitInv, PTL DEF StoredSpec, ImplementsSliceStore, Store!Spec
=============================================================================
