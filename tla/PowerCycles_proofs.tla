------------------------- MODULE PowerCycles_proofs -------------------------
(***************************************************************************)
(* What a drive keeps on its flash from one start to the next, for every   *)
(* size of a die: the table of bad blocks (BadBlocks, parts 1 to 3) and    *)
(* the directories of the near-memory files (NmcMapping, part 4).          *)
(*                                                                         *)
(* The virtual blocks in use are mapped to different good blocks, the      *)
(* capacity the drive reports is backed by them, and no block that failed  *)
(* before a finished shutdown is used after the next start, unless the     *)
(* table was lost or the whole drive was erased.                           *)
(*                                                                         *)
(* The first part is about RemapBadBlock.  Its loop is a recursive         *)
(* function (Remapping); RemappingIs shows that it computes what its       *)
(* definition says, Progress is the loop's invariant, and both hold after  *)
(* any number of blocks because there is no least one for which they fail. *)
(*                                                                         *)
(* The second part follows the mapping over power cycles.                  *)
(*                                                                         *)
(* The third follows a block that failed.  Between the failure and the     *)
(* next use it is remembered in turn by the flags of the memory            *)
(* (MemoryKeeps), the image of the table (ImageKeeps), the table           *)
(* (TableKeeps) and again the flags.  What the remapping does with the     *)
(* flags does not matter here, only that InitBlockMap asks them afterwards.*)
(*                                                                         *)
(* The fourth is about the files.  The pages of a channel's directory that *)
(* are programmed are a prefix of the scan (PrefixInv), so the first empty *)
(* page is where the next table goes (PlaceInv) and a torn page hides      *)
(* nothing; the last table with the name of an answered file is its own    *)
(* (AnsweredInv), and the blocks it lists are off the free lists           *)
(* (BlocksInv).  WalkExists and WalkEnds show what the recursive walk over *)
(* the directory blocks to be skipped computes.                            *)
(***************************************************************************)
EXTENDS BadBlocks, NmcMapping, SequenceTheorems, FiniteSetTheorems, WellFoundedInduction, TLAPS

\* Where the firmware is after a start.
Running == {"up", "saveErase", "saveProgram", "saved"}

(***************************************************************************)
(* RemapBadBlock.                                                          *)
(***************************************************************************)

\* The number of user blocks of a die; the spare blocks of LUN l.
Total == LUNS_PER_DIE * USER_BLOCKS_PER_LUN
FirstSpare(l) == l * TOTAL_BLOCKS_PER_LUN + USER_BLOCKS_PER_LUN
EndOf(l) == (l + 1) * TOTAL_BLOCKS_PER_LUN

\* A set of natural numbers has a least element.
LEMMA SmallestOf ==
    ASSUME NEW T \in SUBSET Nat, T # {}
    PROVE  \E x \in T : \A y \in T : x <= y
<1>1. IsWellFoundedOn(OpToRel(<, Nat), Nat)
  BY NatLessThanWellFounded
<1>2. PICK x \in T : \A y \in T : <<y, x>> \notin OpToRel(<, Nat)
  BY <1>1, WFMin
<1>3. \A y \in T : ~(y < x)
  BY <1>2 DEF OpToRel
<1>. QED
  BY <1>3

\* Quotient and remainder.
LEMMA DivMod ==
    ASSUME NEW a \in Nat, NEW n \in Nat \ {0}
    PROVE  /\ a \div n \in Nat
           /\ a % n \in 0 .. n - 1
           /\ a = (a \div n) * n + (a % n)
OBVIOUS

\* Products of natural numbers grow with the first factor.
LEMMA Product ==
    ASSUME NEW a \in Nat, NEW b \in Nat, NEW n \in Nat
    PROVE  a * n \in Nat /\ (a <= b => a * n <= b * n)
<1>1. a * n \in Nat /\ b * n \in Nat
  OBVIOUS
<1>2. ASSUME a <= b PROVE a * n <= b * n
  <2>1. PICK k \in Nat : b = a + k
    <3>1. b - a \in Nat /\ b = a + (b - a)
      BY <1>2
    <3>. QED
      BY <3>1
  <2>2. b * n = a * n + k * n /\ k * n \in Nat
    BY <2>1
  <2>. QED
    BY <1>1, <2>2
<1>. QED
  BY <1>1, <1>2

\* The sizes of a die.
LEMMA Sizes ==
    /\ USER_BLOCKS_PER_LUN \in Nat \ {0} /\ TOTAL_BLOCKS_PER_LUN \in Nat \ {0}
    /\ LUNS_PER_DIE \in Nat \ {0} /\ USER_BLOCKS_PER_LUN <= TOTAL_BLOCKS_PER_LUN
    /\ Total \in Nat /\ VBlks = 0 .. Total - 1
<1>1. /\ USER_BLOCKS_PER_LUN \in Nat \ {0} /\ TOTAL_BLOCKS_PER_LUN \in Nat \ {0}
      /\ LUNS_PER_DIE \in Nat \ {0} /\ USER_BLOCKS_PER_LUN <= TOTAL_BLOCKS_PER_LUN
  BY SizeAssumption
<1>. QED
  BY <1>1, Product DEF Total, VBlks

\* A LUN ends where the next begins, and inside the die.
LEMMA LunBounds ==
    ASSUME NEW l \in Luns
    PROVE  /\ l \in Nat /\ l * TOTAL_BLOCKS_PER_LUN \in Nat
           /\ FirstSpare(l) = l * TOTAL_BLOCKS_PER_LUN + USER_BLOCKS_PER_LUN
           /\ EndOf(l) = l * TOTAL_BLOCKS_PER_LUN + TOTAL_BLOCKS_PER_LUN
           /\ FirstSpare(l) \in Nat /\ EndOf(l) \in Nat /\ FirstSpare(l) <= EndOf(l)
           /\ l * TOTAL_BLOCKS_PER_LUN <= FirstSpare(l)
           /\ EndOf(l) <= LUNS_PER_DIE * TOTAL_BLOCKS_PER_LUN
           /\ \A m \in Luns : l < m => EndOf(l) <= m * TOTAL_BLOCKS_PER_LUN
<1>1. l \in Nat /\ l + 1 \in Nat /\ l + 1 <= LUNS_PER_DIE
  BY Sizes DEF Luns
<1>2. l * TOTAL_BLOCKS_PER_LUN \in Nat
  BY <1>1, Sizes, Product
<1>3. EndOf(l) = l * TOTAL_BLOCKS_PER_LUN + TOTAL_BLOCKS_PER_LUN
  BY <1>1, <1>2, Sizes DEF EndOf
<1>4. EndOf(l) <= LUNS_PER_DIE * TOTAL_BLOCKS_PER_LUN
  BY <1>1, Sizes, Product DEF EndOf
<1>5. ASSUME NEW m \in Luns, l < m PROVE EndOf(l) <= m * TOTAL_BLOCKS_PER_LUN
  <2>1. m \in Nat /\ l + 1 <= m
    BY <1>1, <1>5, Sizes DEF Luns
  <2>. QED
    BY <1>1, <2>1, Sizes, Product DEF EndOf
<1>6. FirstSpare(l) = l * TOTAL_BLOCKS_PER_LUN + USER_BLOCKS_PER_LUN
  BY DEF FirstSpare
<1>7. PICK x \in Nat : x = l * TOTAL_BLOCKS_PER_LUN
  BY <1>2
<1>8. FirstSpare(l) \in Nat /\ EndOf(l) \in Nat /\ FirstSpare(l) <= EndOf(l) /\ x <= FirstSpare(l)
  BY <1>3, <1>6, <1>7, Sizes
<1>. QED
  BY <1>1, <1>2, <1>3, <1>4, <1>5, <1>6, <1>7, <1>8

\* A virtual block stands for a user block of its LUN.
LEMMA BlockBounds ==
    ASSUME NEW v \in VBlks
    PROVE  /\ LunOf(v) \in Luns /\ Vblock2PblockOfTbs(v) \in PBlks
           /\ v % USER_BLOCKS_PER_LUN \in 0 .. USER_BLOCKS_PER_LUN - 1
           /\ v = LunOf(v) * USER_BLOCKS_PER_LUN + (v % USER_BLOCKS_PER_LUN)
           /\ Vblock2PblockOfTbs(v) = LunOf(v) * TOTAL_BLOCKS_PER_LUN + (v % USER_BLOCKS_PER_LUN)
<1>1. v \in Nat /\ v < LUNS_PER_DIE * USER_BLOCKS_PER_LUN
  BY Sizes DEF VBlks, Total
<1>2. /\ LunOf(v) \in Nat /\ v % USER_BLOCKS_PER_LUN \in 0 .. USER_BLOCKS_PER_LUN - 1
      /\ v = LunOf(v) * USER_BLOCKS_PER_LUN + (v % USER_BLOCKS_PER_LUN)
  BY <1>1, Sizes, DivMod DEF LunOf
<1>3. LunOf(v) < LUNS_PER_DIE
  <2> SUFFICES ASSUME LUNS_PER_DIE <= LunOf(v) PROVE FALSE
    BY <1>2, Sizes
  <2>1. LUNS_PER_DIE * USER_BLOCKS_PER_LUN <= LunOf(v) * USER_BLOCKS_PER_LUN
    BY <1>2, Sizes, Product
  <2>2. LunOf(v) * USER_BLOCKS_PER_LUN \in Nat /\ LUNS_PER_DIE * USER_BLOCKS_PER_LUN \in Nat
    BY <1>2, Sizes, Product
  <2>3. PICK r \in Nat, x \in Nat, y \in Nat :
           /\ r = v % USER_BLOCKS_PER_LUN /\ x = LunOf(v) * USER_BLOCKS_PER_LUN
           /\ y = LUNS_PER_DIE * USER_BLOCKS_PER_LUN
    BY <1>2, <2>2, Sizes
  <2>4. v = x + r /\ v < y /\ y <= x
    BY <1>1, <1>2, <2>1, <2>3
  <2>. QED
    BY <1>1, <2>3, <2>4
<1>4. LunOf(v) \in Luns
  BY <1>2, <1>3, Sizes DEF Luns
<1>5. Vblock2PblockOfTbs(v) = LunOf(v) * TOTAL_BLOCKS_PER_LUN + (v % USER_BLOCKS_PER_LUN)
  BY DEF Vblock2PblockOfTbs
<1>6. Vblock2PblockOfTbs(v) \in PBlks
  <2>1. PICK x \in Nat, r \in Nat : /\ x = LunOf(v) * TOTAL_BLOCKS_PER_LUN /\ r = v % USER_BLOCKS_PER_LUN
                                    /\ r < USER_BLOCKS_PER_LUN
    BY <1>2, <1>4, LunBounds, Sizes
  <2>2. PICK y \in Nat : y = LUNS_PER_DIE * TOTAL_BLOCKS_PER_LUN
    BY Sizes, Product
  <2>3. x + TOTAL_BLOCKS_PER_LUN <= y
    BY <1>4, <2>1, <2>2, LunBounds
  <2>4. x + r \in 0 .. y - 1
    BY <2>1, <2>2, <2>3, Sizes
  <2>. QED
    BY <1>5, <2>1, <2>2, <2>4 DEF PBlks
<1>. QED
  BY <1>2, <1>4, <1>5, <1>6

\* The block a virtual block stands for lies below the spare blocks of its LUN.
LEMMA BlockInLun ==
    ASSUME NEW v \in VBlks
    PROVE  /\ LunOf(v) * TOTAL_BLOCKS_PER_LUN <= Vblock2PblockOfTbs(v)
           /\ Vblock2PblockOfTbs(v) < FirstSpare(LunOf(v))
<1>0. /\ LunOf(v) * TOTAL_BLOCKS_PER_LUN \in Nat
      /\ v % USER_BLOCKS_PER_LUN \in Nat /\ v % USER_BLOCKS_PER_LUN < USER_BLOCKS_PER_LUN
  <2>1. LunOf(v) \in Luns /\ v % USER_BLOCKS_PER_LUN \in 0 .. USER_BLOCKS_PER_LUN - 1
    BY BlockBounds
  <2>. QED
    BY <2>1, LunBounds, Sizes
<1>1. PICK x \in Nat, r \in Nat : /\ x = LunOf(v) * TOTAL_BLOCKS_PER_LUN /\ r = v % USER_BLOCKS_PER_LUN
                                  /\ r < USER_BLOCKS_PER_LUN
  BY <1>0
<1>2. Vblock2PblockOfTbs(v) = x + r /\ FirstSpare(LunOf(v)) = x + USER_BLOCKS_PER_LUN
  BY <1>1, BlockBounds, LunBounds
<1>. QED
  BY <1>1, <1>2, Sizes

\* No two virtual blocks stand for the same block.
LEMMA BlocksApart ==
    ASSUME NEW v \in VBlks, NEW w \in VBlks, Vblock2PblockOfTbs(v) = Vblock2PblockOfTbs(w)
    PROVE  v = w
<1>1. PICK p \in PBlks : p = Vblock2PblockOfTbs(v)
  BY BlockBounds
<1>2. PICK l \in Luns, m \in Luns : l = LunOf(v) /\ m = LunOf(w)
  BY BlockBounds
<1>3. p \in Nat
  BY <1>1, Sizes, Product DEF PBlks
<1>4. /\ l * TOTAL_BLOCKS_PER_LUN <= p /\ p < FirstSpare(l)
      /\ m * TOTAL_BLOCKS_PER_LUN <= p /\ p < FirstSpare(m)
  BY <1>1, <1>2, BlockInLun
<1>5. /\ l \in Nat /\ m \in Nat
      /\ FirstSpare(l) \in Nat /\ EndOf(l) \in Nat /\ FirstSpare(l) <= EndOf(l)
      /\ FirstSpare(m) \in Nat /\ EndOf(m) \in Nat /\ FirstSpare(m) <= EndOf(m)
      /\ l * TOTAL_BLOCKS_PER_LUN \in Nat /\ m * TOTAL_BLOCKS_PER_LUN \in Nat
      /\ l < m => EndOf(l) <= m * TOTAL_BLOCKS_PER_LUN
      /\ m < l => EndOf(m) <= l * TOTAL_BLOCKS_PER_LUN
  BY LunBounds
<1>6. l = m
  <2>1. PICK x \in Nat, y \in Nat : x = l * TOTAL_BLOCKS_PER_LUN /\ y = m * TOTAL_BLOCKS_PER_LUN
    BY <1>5
  <2>. QED
    BY <1>3, <1>4, <1>5, <2>1
<1>7. PICK x \in Nat : x = l * TOTAL_BLOCKS_PER_LUN
  BY <1>5
<1>8. p = x + (v % USER_BLOCKS_PER_LUN) /\ p = x + (w % USER_BLOCKS_PER_LUN)
  BY <1>1, <1>2, <1>6, <1>7, BlockBounds
<1>9. v % USER_BLOCKS_PER_LUN = w % USER_BLOCKS_PER_LUN
  BY <1>3, <1>7, <1>8, BlockBounds, Sizes
<1>. QED
  BY <1>2, <1>6, <1>9, BlockBounds, Zenon

\* A spare block belongs to one LUN, and no virtual block stands for it.
LEMMA SparesApart ==
    ASSUME NEW l \in Luns, NEW p \in FirstSpare(l) .. EndOf(l) - 1
    PROVE  /\ p \in PBlks
           /\ \A v \in VBlks : Vblock2PblockOfTbs(v) # p
           /\ \A m \in Luns : p \in FirstSpare(m) .. EndOf(m) - 1 => m = l
<1>1. /\ l \in Nat /\ FirstSpare(l) \in Nat /\ EndOf(l) \in Nat /\ p \in Nat
      /\ FirstSpare(l) <= p /\ p < EndOf(l)
  BY LunBounds
<1>2. p \in PBlks
  <2>1. PICK y \in Nat : y = LUNS_PER_DIE * TOTAL_BLOCKS_PER_LUN
    BY Sizes, Product
  <2>2. EndOf(l) <= y
    BY <2>1, LunBounds
  <2>. QED
    BY <1>1, <2>1, <2>2 DEF PBlks
<1>3. ASSUME NEW m \in Luns, m * TOTAL_BLOCKS_PER_LUN <= p, p < EndOf(m) PROVE m = l
  <2>1. /\ m \in Nat /\ EndOf(m) \in Nat
        /\ l < m => EndOf(l) <= m * TOTAL_BLOCKS_PER_LUN
        /\ m < l => EndOf(m) <= l * TOTAL_BLOCKS_PER_LUN
    BY LunBounds
  <2>2. PICK x \in Nat, y \in Nat :
           /\ x = l * TOTAL_BLOCKS_PER_LUN /\ y = m * TOTAL_BLOCKS_PER_LUN /\ x <= FirstSpare(l)
    BY LunBounds
  <2>. QED
    BY <1>1, <1>3, <2>1, <2>2
<1>4. ASSUME NEW m \in Luns, p \in FirstSpare(m) .. EndOf(m) - 1 PROVE m = l
  <2>1. m * TOTAL_BLOCKS_PER_LUN \in Nat /\ FirstSpare(m) \in Nat /\ EndOf(m) \in Nat
        /\ m * TOTAL_BLOCKS_PER_LUN <= FirstSpare(m)
    <3>1. PICK y \in Nat : y = m * TOTAL_BLOCKS_PER_LUN
      BY LunBounds
    <3>. QED
      BY <3>1, LunBounds, Sizes
  <2>2. PICK y \in Nat : y = m * TOTAL_BLOCKS_PER_LUN
    BY <2>1
  <2>3. y <= p /\ p < EndOf(m)
    BY <1>1, <1>4, <2>1, <2>2
  <2>. QED
    BY <1>3, <2>2, <2>3
<1>5. ASSUME NEW v \in VBlks, Vblock2PblockOfTbs(v) = p PROVE FALSE
  <2>1. PICK m \in Luns : m = LunOf(v)
    BY BlockBounds
  <2>2. m * TOTAL_BLOCKS_PER_LUN <= p /\ p < FirstSpare(m)
    BY <1>5, <2>1, BlockInLun
  <2>3. p < EndOf(m)
    BY <1>1, <2>2, LunBounds
  <2>4. m = l
    BY <1>3, <2>2, <2>3
  <2>. QED
    BY <1>1, <2>2, <2>4
<1>. QED
  BY <1>2, <1>4, <1>5

\* The block that v stands for before the remapping.
Block(v) == Vblock2PblockOfTbs(v)

\* RemapBlock, case by case: a good block stays, a bad one gets the next good spare
\* block of its LUN, or is lost when there is none.
LEMMA RemapBlockIs ==
    ASSUME NEW s, NEW v \in VBlks, NEW isBad, NEW l \in Luns, l = LunOf(v),
           s.next[l] \in FirstSpare(l) .. EndOf(l)
    PROVE  \/ Block(v) \notin isBad /\ RemapBlock(s, v, isBad) = s
           \/ Block(v) \in isBad /\ RemapBlock(s, v, isBad) = NoSpare(s, l)
           \/ /\ Block(v) \in isBad
              /\ \E spare \in s.next[l] .. EndOf(l) - 1 :
                    spare \notin isBad /\ RemapBlock(s, v, isBad) = TakeSpare(s, Block(v), l, spare)
<1> DEFINE spares == SparesFrom(l, s.next[l]) \ isBad
<1>1. RemapBlock(s, v, isBad) =
         IF Block(v) \notin isBad THEN s
         ELSE IF spares = {} THEN NoSpare(s, l) ELSE TakeSpare(s, Block(v), l, Min(spares))
  BY DEF RemapBlock, Block
<1>2. SparesFrom(l, s.next[l]) = s.next[l] .. EndOf(l) - 1
  BY DEF SparesFrom, EndOf
<1>3. ASSUME spares # {} PROVE Min(spares) \in spares
  <2>1. s.next[l] \in Nat /\ EndOf(l) \in Nat
    BY LunBounds
  <2>2. spares \in SUBSET Nat
    BY <1>2, <2>1
  <2>3. PICK x \in spares : \A y \in spares : x <= y
    BY <1>3, <2>2, SmallestOf
  <2> HIDE DEF spares
  <2>. QED
    BY <2>3 DEF Min
<1> HIDE DEF spares
<1>4. ASSUME spares # {}
      PROVE  \E spare \in s.next[l] .. EndOf(l) - 1 : spare \notin isBad /\ spare = Min(spares)
  BY <1>2, <1>3, <1>4 DEF spares
<1>. QED
  BY <1>1, <1>4

\* The virtual blocks below n that stand for a bad block and found no spare one.
Unmapped(n, r, isBad) == {v \in VBlks : v < n /\ Block(v) \in isBad /\ r[Block(v)] = Block(v)}

\* How far RemapBadBlock has come after n blocks.
Progress(n, s, isBad) ==
    /\ s \in [next : [Luns -> Nat], remap : [PBlks -> PBlks], lost : Nat]
    /\ \A l \in Luns : s.next[l] \in FirstSpare(l) .. EndOf(l)
    /\ \A v \in VBlks :
          \/ s.remap[Block(v)] = Block(v)
          \/ /\ v < n /\ Block(v) \in isBad /\ s.remap[Block(v)] \notin isBad
             /\ s.remap[Block(v)] \in FirstSpare(LunOf(v)) .. s.next[LunOf(v)] - 1
    /\ \A v, w \in VBlks : s.remap[Block(v)] = s.remap[Block(w)] => v = w
    /\ s.lost = Cardinality(Unmapped(n, s.remap, isBad))

\* Nothing is remapped before the first block.
LEMMA StartProgress ==
    ASSUME remap = [p \in PBlks |-> p], NEW isBad
    PROVE  Progress(0, Unremapped, isBad)
<1>1. /\ Unremapped = [next |-> [l \in Luns |-> FirstSpare(l)], remap |-> [p \in PBlks |-> p], lost |-> 0]
  BY DEF Unremapped, FirstSpare
<1>2. \A l \in Luns : FirstSpare(l) \in FirstSpare(l) .. EndOf(l) /\ FirstSpare(l) \in Nat
  BY LunBounds
<1>3. \A v \in VBlks : Block(v) \in PBlks
  BY BlockBounds DEF Block
<1>4. \A v, w \in VBlks : Block(v) = Block(w) => v = w
  BY BlocksApart DEF Block
<1>5. Unmapped(0, [p \in PBlks |-> p], isBad) = {}
  BY Sizes DEF Unmapped
<1>6. Cardinality(Unmapped(0, [p \in PBlks |-> p], isBad)) = 0
  BY <1>5, FS_EmptySet
<1>. QED
  BY <1>1, <1>2, <1>3, <1>4, <1>6 DEF Progress

\* They can be counted.
LEMMA UnmappedFinite ==
    ASSUME NEW n, NEW r, NEW isBad
    PROVE  IsFiniteSet(Unmapped(n, r, isBad)) /\ Cardinality(Unmapped(n, r, isBad)) \in Nat
<1>1. IsFiniteSet(VBlks)
  BY Sizes, FS_Interval
<1>2. Unmapped(n, r, isBad) \in SUBSET VBlks
  BY DEF Unmapped
<1>. QED
  BY <1>1, <1>2, FS_Subset, FS_CardinalityType

\* A good block is passed over;
LEMMA GoodBlockProgress ==
    ASSUME NEW n \in VBlks, NEW isBad, NEW s, Progress(n, s, isBad), Block(n) \notin isBad
    PROVE  Progress(n + 1, s, isBad)
<1>1. \A v \in VBlks : v < n + 1 <=> v < n \/ v = n
  BY Sizes
<1>2. Unmapped(n + 1, s.remap, isBad) = Unmapped(n, s.remap, isBad)
  BY <1>1 DEF Unmapped
<1>. QED
  BY <1>1, <1>2 DEF Progress

\* a bad one that finds no spare block is counted;
LEMMA NoSpareProgress ==
    ASSUME NEW n \in VBlks, NEW isBad, NEW s, Progress(n, s, isBad), Block(n) \in isBad,
           NEW l \in Luns, l = LunOf(n)
    PROVE  Progress(n + 1, NoSpare(s, l), isBad)
<1> DEFINE t == NoSpare(s, l)
<1>1. /\ t.remap = s.remap /\ t.lost = s.lost + 1
      /\ t.next = [s.next EXCEPT ![l] = EndOf(l)]
      /\ t \in [next : [Luns -> Nat], remap : [PBlks -> PBlks], lost : Nat]
  <2>1. EndOf(l) \in Nat
    BY LunBounds
  <2>2. t = [s EXCEPT !.lost = @ + 1, !.next[l] = EndOf(l)]
    BY DEF NoSpare, EndOf
  <2>3. s \in [next : [Luns -> Nat], remap : [PBlks -> PBlks], lost : Nat]
    BY DEF Progress
  <2> HIDE DEF t
  <2>4. t = [next |-> [s.next EXCEPT ![l] = EndOf(l)], remap |-> s.remap, lost |-> s.lost + 1]
    BY <2>2, <2>3
  <2>5. [s.next EXCEPT ![l] = EndOf(l)] \in [Luns -> Nat] /\ s.remap \in [PBlks -> PBlks] /\ s.lost + 1 \in Nat
    BY <2>1, <2>3
  <2>. QED
    BY <2>4, <2>5
<1> HIDE DEF t
<1>2. \A v \in VBlks : v < n + 1 <=> v < n \/ v = n
  BY Sizes
<1>3. \A m \in Luns : t.next[m] \in FirstSpare(m) .. EndOf(m) /\ s.next[m] <= t.next[m] /\ s.next[m] \in Nat /\ t.next[m] \in Nat
  BY <1>1, LunBounds DEF Progress
<1>4. s.remap[Block(n)] = Block(n)
  BY Sizes DEF Progress
<1>5. Unmapped(n + 1, t.remap, isBad) = Unmapped(n, s.remap, isBad) \cup {n}
  BY <1>1, <1>2, <1>4 DEF Unmapped
<1>6. n \notin Unmapped(n, s.remap, isBad)
  BY Sizes DEF Unmapped
<1>7. t.lost = Cardinality(Unmapped(n + 1, t.remap, isBad))
  BY <1>1, <1>5, <1>6, UnmappedFinite, FS_AddElement DEF Progress
<1>8. \A v \in VBlks :
         \/ t.remap[Block(v)] = Block(v)
         \/ /\ v < n + 1 /\ Block(v) \in isBad /\ t.remap[Block(v)] \notin isBad
            /\ t.remap[Block(v)] \in FirstSpare(LunOf(v)) .. t.next[LunOf(v)] - 1
  <2> SUFFICES ASSUME NEW v \in VBlks, t.remap[Block(v)] # Block(v)
               PROVE  /\ v < n + 1 /\ Block(v) \in isBad /\ t.remap[Block(v)] \notin isBad
                      /\ t.remap[Block(v)] \in FirstSpare(LunOf(v)) .. t.next[LunOf(v)] - 1
    OBVIOUS
  <2>1. /\ v < n /\ Block(v) \in isBad /\ s.remap[Block(v)] \notin isBad
        /\ s.remap[Block(v)] \in FirstSpare(LunOf(v)) .. s.next[LunOf(v)] - 1
    BY <1>1 DEF Progress
  <2>2. PICK m \in Luns : m = LunOf(v)
    BY BlockBounds
  <2>3. FirstSpare(m) \in Nat /\ s.next[m] <= t.next[m] /\ s.next[m] \in Nat /\ t.next[m] \in Nat
    BY <1>3, LunBounds
  <2>4. t.remap[Block(v)] \in FirstSpare(m) .. t.next[m] - 1
    BY <1>1, <2>1, <2>2, <2>3
  <2>. QED
    BY <1>1, <1>2, <2>1, <2>2, <2>4
<1>9. \A v, w \in VBlks : t.remap[Block(v)] = t.remap[Block(w)] => v = w
  BY <1>1 DEF Progress
<1>10. Progress(n + 1, t, isBad)
  BY <1>1, <1>3, <1>7, <1>8, <1>9 DEF Progress
<1>. QED
  BY <1>10 DEF t

\* and one that takes a spare block shares it with no other, because the search
\* goes on behind it and no other LUN has it.
LEMMA SpareProgress ==
    ASSUME NEW n \in VBlks, NEW isBad, NEW s, Progress(n, s, isBad), Block(n) \in isBad,
           NEW l \in Luns, l = LunOf(n), NEW spare \in s.next[l] .. EndOf(l) - 1, spare \notin isBad
    PROVE  Progress(n + 1, TakeSpare(s, Block(n), l, spare), isBad)
<1> DEFINE t == TakeSpare(s, Block(n), l, spare)
<1>0. /\ s.next[l] \in FirstSpare(l) .. EndOf(l)
      /\ FirstSpare(l) \in Nat /\ EndOf(l) \in Nat /\ s.next[l] \in Nat
      /\ spare \in Nat /\ s.next[l] <= spare /\ spare < EndOf(l) /\ FirstSpare(l) <= spare
  <2>1. s.next[l] \in FirstSpare(l) .. EndOf(l)
    BY DEF Progress
  <2>2. FirstSpare(l) \in Nat /\ EndOf(l) \in Nat
    BY LunBounds
  <2>. QED
    BY <2>1, <2>2
<1>1. /\ spare \in PBlks /\ \A v \in VBlks : Block(v) # spare
      /\ \A m \in Luns : spare \in FirstSpare(m) .. EndOf(m) - 1 => m = l
  <2>1. spare \in FirstSpare(l) .. EndOf(l) - 1
    BY <1>0
  <2>. QED
    BY <2>1, SparesApart DEF Block
<1>2. /\ t.remap = [s.remap EXCEPT ![Block(n)] = spare] /\ t.lost = s.lost
      /\ t.next = [s.next EXCEPT ![l] = spare + 1]
      /\ t \in [next : [Luns -> Nat], remap : [PBlks -> PBlks], lost : Nat]
  <2>2. t = [s EXCEPT !.remap[Block(n)] = spare, !.next[l] = spare + 1]
    BY DEF TakeSpare
  <2>3. s \in [next : [Luns -> Nat], remap : [PBlks -> PBlks], lost : Nat]
    BY DEF Progress
  <2> HIDE DEF t
  <2>4. t = [next |-> [s.next EXCEPT ![l] = spare + 1], remap |-> [s.remap EXCEPT ![Block(n)] = spare],
             lost |-> s.lost]
    BY <2>2, <2>3
  <2>5. /\ [s.next EXCEPT ![l] = spare + 1] \in [Luns -> Nat]
        /\ [s.remap EXCEPT ![Block(n)] = spare] \in [PBlks -> PBlks] /\ s.lost \in Nat
    <3>1. s.next \in [Luns -> Nat] /\ s.remap \in [PBlks -> PBlks] /\ s.lost \in Nat
      BY <2>3
    <3>2. PICK next, map : next = s.next /\ map = s.remap
      OBVIOUS
    <3>3. next \in [Luns -> Nat] /\ map \in [PBlks -> PBlks] /\ spare \in PBlks /\ spare + 1 \in Nat
      BY <1>0, <1>1, <3>1, <3>2
    <3>4. [next EXCEPT ![l] = spare + 1] \in [Luns -> Nat]
      BY <3>3
    <3>5. [map EXCEPT ![Block(n)] = spare] \in [PBlks -> PBlks]
      BY <3>3
    <3>. QED
      BY <3>1, <3>2, <3>4, <3>5
  <2>. QED
    BY <2>4, <2>5
<1>3. /\ \A v \in VBlks : Block(v) \in PBlks
      /\ \A v, w \in VBlks : Block(v) = Block(w) => v = w
  BY BlockBounds, BlocksApart DEF Block
<1> HIDE DEF t
<1>4. /\ t.remap[Block(n)] = spare
      /\ \A v \in VBlks : v # n => t.remap[Block(v)] = s.remap[Block(v)]
  BY <1>2, <1>3 DEF Progress
<1>5. \A v \in VBlks : v < n + 1 <=> v < n \/ v = n
  BY Sizes
<1>6. \A m \in Luns : /\ t.next[m] \in FirstSpare(m) .. EndOf(m) /\ s.next[m] <= t.next[m]
                      /\ s.next[m] \in Nat /\ t.next[m] \in Nat
  <2> SUFFICES ASSUME NEW m \in Luns
               PROVE  /\ t.next[m] \in FirstSpare(m) .. EndOf(m) /\ s.next[m] <= t.next[m]
                      /\ s.next[m] \in Nat /\ t.next[m] \in Nat
    OBVIOUS
  <2>1. s.next[m] \in FirstSpare(m) .. EndOf(m) /\ FirstSpare(m) \in Nat /\ EndOf(m) \in Nat
    BY LunBounds DEF Progress
  <2>2. t.next[m] = IF m = l THEN spare + 1 ELSE s.next[m]
    BY <1>2 DEF Progress
  <2>. QED
    BY <1>0, <2>1, <2>2
<1>7. Unmapped(n + 1, t.remap, isBad) = Unmapped(n, s.remap, isBad)
  <2>1. n \notin Unmapped(n, s.remap, isBad)
    BY Sizes DEF Unmapped
  <2>. QED
    BY <1>1, <1>4, <1>5, <2>1 DEF Unmapped
<1>8. \A v \in VBlks :
         \/ t.remap[Block(v)] = Block(v)
         \/ /\ v < n + 1 /\ Block(v) \in isBad /\ t.remap[Block(v)] \notin isBad
            /\ t.remap[Block(v)] \in FirstSpare(LunOf(v)) .. t.next[LunOf(v)] - 1
  <2> SUFFICES ASSUME NEW v \in VBlks, t.remap[Block(v)] # Block(v)
               PROVE  /\ v < n + 1 /\ Block(v) \in isBad /\ t.remap[Block(v)] \notin isBad
                      /\ t.remap[Block(v)] \in FirstSpare(LunOf(v)) .. t.next[LunOf(v)] - 1
    OBVIOUS
  <2>1. CASE v = n
    <3>1. t.next[l] = spare + 1
      BY <1>2 DEF Progress
    <3>2. spare \in FirstSpare(l) .. t.next[l] - 1
      BY <1>0, <3>1
    <3>. QED
      BY <1>4, <1>5, <2>1, <3>2
  <2>2. CASE v # n
    <3>1. /\ v < n /\ Block(v) \in isBad /\ s.remap[Block(v)] \notin isBad
          /\ s.remap[Block(v)] \in FirstSpare(LunOf(v)) .. s.next[LunOf(v)] - 1
      BY <1>4, <2>2 DEF Progress
    <3>2. PICK m \in Luns : m = LunOf(v)
      BY BlockBounds
    <3>3. FirstSpare(m) \in Nat /\ s.next[m] <= t.next[m] /\ s.next[m] \in Nat /\ t.next[m] \in Nat
      BY <1>6, LunBounds
    <3>4. s.remap[Block(v)] \in FirstSpare(m) .. t.next[m] - 1
      BY <3>1, <3>2, <3>3
    <3>. QED
      BY <1>4, <1>5, <2>2, <3>1, <3>2, <3>4
  <2>. QED
    BY <2>1, <2>2
<1>9. \A v \in VBlks : v # n => s.remap[Block(v)] # spare
  <2> SUFFICES ASSUME NEW v \in VBlks, s.remap[Block(v)] = spare PROVE FALSE
    OBVIOUS
  <2>1. PICK m \in Luns : m = LunOf(v)
    BY BlockBounds
  <2>2. spare \in FirstSpare(m) .. s.next[m] - 1
    BY <1>1, <2>1 DEF Progress
  <2>3. FirstSpare(m) \in Nat /\ s.next[m] \in Nat /\ EndOf(m) \in Nat /\ s.next[m] <= EndOf(m)
    BY LunBounds DEF Progress
  <2>4. m = l
    BY <1>1, <2>2, <2>3
  <2>. QED
    BY <1>0, <2>2, <2>4
<1>10. \A v, w \in VBlks : t.remap[Block(v)] = t.remap[Block(w)] => v = w
  <2>1. \A v, w \in VBlks : s.remap[Block(v)] = s.remap[Block(w)] => v = w
    BY DEF Progress
  <2>. QED
    BY <1>4, <1>9, <2>1
<1>11. t.lost = Cardinality(Unmapped(n + 1, t.remap, isBad))
  BY <1>2, <1>7 DEF Progress
<1>12. Progress(n + 1, t, isBad)
  BY <1>2, <1>6, <1>8, <1>10, <1>11 DEF Progress
<1>. QED
  BY <1>12 DEF t

\* So the invariant of the loop holds after each block.
LEMMA BlockProgress ==
    ASSUME NEW n \in VBlks, NEW isBad, NEW s, Progress(n, s, isBad)
    PROVE  Progress(n + 1, RemapBlock(s, n, isBad), isBad)
<1>1. PICK l \in Luns : l = LunOf(n)
  BY BlockBounds
<1>2. s.next[l] \in FirstSpare(l) .. EndOf(l)
  BY DEF Progress
<1>3. \/ Block(n) \notin isBad /\ RemapBlock(s, n, isBad) = s
      \/ Block(n) \in isBad /\ RemapBlock(s, n, isBad) = NoSpare(s, l)
      \/ /\ Block(n) \in isBad
         /\ \E spare \in s.next[l] .. EndOf(l) - 1 :
               spare \notin isBad /\ RemapBlock(s, n, isBad) = TakeSpare(s, Block(n), l, spare)
  BY <1>1, <1>2, RemapBlockIs
<1>. QED
  BY <1>1, <1>3, GoodBlockProgress, NoSpareProgress, SpareProgress

\* f holds the remapping after 0 .. n blocks.
Computes(f, n, isBad) ==
    f = [i \in 0 .. n |-> IF i = 0 THEN Unremapped ELSE RemapBlock(f[i - 1], i - 1, isBad)]

\* One more block is remapped.
LEMMA ComputeStep ==
    ASSUME NEW f, NEW n \in Nat, NEW isBad, Computes(f, n, isBad)
    PROVE  \E g : Computes(g, n + 1, isBad)
<1> DEFINE x == RemapBlock(f[n], n, isBad)
           g == [i \in 0 .. n + 1 |-> IF i = n + 1 THEN x ELSE f[i]]
<1>1. \A i \in 0 .. n : f[i] = IF i = 0 THEN Unremapped ELSE RemapBlock(f[i - 1], i - 1, isBad)
  BY DEF Computes
<1>2. g[n + 1] = RemapBlock(g[n], n, isBad) /\ \A i \in 0 .. n : g[i] = f[i]
  OBVIOUS
<1> HIDE DEF x
<1>3. DOMAIN g = 0 .. n + 1 /\ g = [i \in 0 .. n + 1 |-> g[i]]
  OBVIOUS
<1> HIDE DEF g
<1>4. ASSUME NEW i \in 0 .. n + 1
      PROVE  g[i] = IF i = 0 THEN Unremapped ELSE RemapBlock(g[i - 1], i - 1, isBad)
  <2>1. CASE i = n + 1
    <3>1. i # 0 /\ i - 1 = n
      BY <2>1
    <3>. QED
      BY <1>2, <2>1, <3>1
  <2>2. CASE i # n + 1
    <3>1. i \in 0 .. n /\ (i # 0 => i - 1 \in 0 .. n)
      BY <2>2
    <3>2. g[i] = f[i] /\ (i # 0 => g[i - 1] = f[i - 1])
      BY <1>2, <3>1
    <3>. QED
      BY <1>1, <3>1, <3>2
  <2>. QED
    BY <2>1, <2>2
<1>5. Computes(g, n + 1, isBad)
  <2>1. g = [i \in 0 .. n + 1 |-> IF i = 0 THEN Unremapped ELSE RemapBlock(g[i - 1], i - 1, isBad)]
    BY <1>3, <1>4
  <2>. QED
    BY <2>1 DEF Computes
<1>. QED
  BY <1>5

\* So there is a remapping after any number of blocks: a least number without one
\* would be neither 0 nor one more than a number with one.
LEMMA ComputeAll ==
    ASSUME NEW n \in Nat, NEW isBad
    PROVE  \E f : Computes(f, n, isBad)
<1> DEFINE T == {i \in Nat : ~ \E f : Computes(f, i, isBad)}
<1>1. SUFFICES ASSUME n \in T PROVE FALSE
  OBVIOUS
<1>2. PICK i \in T : \A j \in T : i <= j
  BY <1>1, SmallestOf
<1>3. i # 0
  <2> DEFINE f == [j \in 0 .. 0 |-> Unremapped]
  <2>1. f = [j \in 0 .. 0 |-> IF j = 0 THEN Unremapped ELSE RemapBlock(f[j - 1], j - 1, isBad)]
    OBVIOUS
  <2>2. Computes(f, 0, isBad)
    BY <2>1 DEF Computes
  <2>. QED
    BY <2>2
<1>4. i - 1 \in Nat /\ i - 1 \notin T
  BY <1>2, <1>3
<1>5. PICK f : Computes(f, i - 1, isBad)
  BY <1>4
<1>6. \E g : Computes(g, i - 1 + 1, isBad)
  BY <1>4, <1>5, ComputeStep
<1>7. i - 1 + 1 = i
  BY <1>2
<1>. QED
  BY <1>2, <1>6, <1>7

\* Remapping is what its definition says it is.
LEMMA RemappingIs ==
    ASSUME NEW isBad
    PROVE  /\ Remapping(isBad)[0] = Unremapped
           /\ \A n \in VBlks : Remapping(isBad)[n + 1] = RemapBlock(Remapping(isBad)[n], n, isBad)
<1> DEFINE R == CHOOSE f : Computes(f, Total, isBad)
<1>1. Remapping(isBad) = R
  BY DEF Remapping, Computes, Total
<1>2. Computes(R, Total, isBad)
  BY Sizes, ComputeAll
<1> HIDE DEF R
<1>3. \A i \in 0 .. Total : R[i] = IF i = 0 THEN Unremapped ELSE RemapBlock(R[i - 1], i - 1, isBad)
  BY <1>2 DEF Computes
<1>4. R[0] = Unremapped
  BY <1>3, Sizes
<1>5. ASSUME NEW n \in VBlks PROVE R[n + 1] = RemapBlock(R[n], n, isBad)
  <2>1. PICK i \in 0 .. Total : i = n + 1 /\ i # 0 /\ i - 1 = n
    BY Sizes
  <2>2. R[i] = RemapBlock(R[i - 1], i - 1, isBad)
    BY <1>3, <2>1
  <2>. QED
    BY <2>1, <2>2
<1>. QED
  BY <1>1, <1>4, <1>5

\* And hence after any number of them.
LEMMA RemappingProgress ==
    ASSUME remap = [p \in PBlks |-> p], NEW isBad, NEW n \in 0 .. Total
    PROVE  Progress(n, Remapping(isBad)[n], isBad)
<1> DEFINE T == {i \in 0 .. Total : ~Progress(i, Remapping(isBad)[i], isBad)}
<1>1. SUFFICES ASSUME n \in T PROVE FALSE
  OBVIOUS
<1>2. PICK i \in T : \A j \in T : i <= j
  <2>1. T \in SUBSET Nat /\ T # {}
    BY <1>1, Sizes
  <2> HIDE DEF T
  <2>. QED
    BY <2>1, SmallestOf
<1>3. i # 0
  BY RemappingIs, StartProgress, <1>2
<1>4. i \in 0 .. Total /\ i - 1 \in VBlks /\ i - 1 \notin T /\ i - 1 \in 0 .. Total /\ i - 1 + 1 = i
  BY <1>2, <1>3, Sizes
<1>5. Progress(i - 1, Remapping(isBad)[i - 1], isBad)
  BY <1>4
<1>6. Progress(i - 1 + 1, RemapBlock(Remapping(isBad)[i - 1], i - 1, isBad), isBad)
  BY <1>4, <1>5, BlockProgress
<1>7. Remapping(isBad)[i - 1 + 1] = RemapBlock(Remapping(isBad)[i - 1], i - 1, isBad)
  BY <1>4, RemappingIs
<1>. QED
  BY <1>2, <1>4, <1>6, <1>7

\* The step of the start-up: the blocks not marked bad are behind distinct good blocks,
\* and as many are marked as found no spare one.
LEMMA RemapBadBlockIs ==
    ASSUME remap = [p \in PBlks |-> p], NEW isBad, RemapBadBlock(isBad),
           vbad' = {v \in VBlks : Physical(v)' \in isBad}
    PROVE  /\ remap' \in [PBlks -> PBlks]
           /\ lost' = Cardinality(vbad')
           /\ \A v, w \in VBlks : Physical(v)' = Physical(w)' => v = w
<1> DEFINE all == Remapping(isBad)[Total]
<1>1. remap' = all.remap /\ lost' = all.lost
  BY DEF RemapBadBlock, Total
<1>2. Progress(Total, all, isBad)
  BY Sizes, RemappingProgress
<1> HIDE DEF all
<1>3. \A v : Physical(v)' = remap'[Block(v)]
  BY DEF Physical, Block, Vblock2PblockOfTbs, LunOf
<1>4. vbad' = Unmapped(Total, all.remap, isBad)
  <2>1. \A v \in VBlks : v < Total
    BY Sizes
  <2>2. \A v \in VBlks : remap'[Block(v)] \in isBad <=> Block(v) \in isBad /\ all.remap[Block(v)] = Block(v)
    BY <1>1, <1>2 DEF Progress
  <2>. QED
    BY <1>3, <2>1, <2>2 DEF Unmapped
<1>. QED
  BY <1>1, <1>2, <1>3, <1>4 DEF Progress

(***************************************************************************)
(* The mapping over power cycles.                                          *)
(***************************************************************************)

\* The factory's marks are in every table, in the flags once those are read, and in
\* every image of a table.
FactoryInv ==
    /\ factory \subseteq PBlks \ {TableBlock}
    /\ table # NoTable => factory \subseteq table
    /\ pc \in Running \cup {"scanErase", "scanProgram", "remap"} => factory \subseteq bad
    /\ pc \in {"scanErase", "scanProgram", "saveErase", "saveProgram"} =>
          image \subseteq PBlks /\ factory \subseteq image

\* Nothing is mapped before the remapping, and from then on what RemapBadBlockIs says.
Mapped == pc \in Running \cup {"assertion"}
MapInv ==
    /\ ~Mapped => remap = [p \in PBlks |-> p] /\ vbad = {} /\ lost = 0
    /\ Mapped => /\ lost = Cardinality(vbad)
                 /\ \A v, w \in VBlks : Physical(v) = Physical(w) => v = w
                 /\ \A v \in VBlks \ vbad :
                       Physical(v) \notin {TableBlock} \cup NMC_MAPPING_DIR_PBLKS \cup factory

\* The inductive invariant of the mapping.
MappingInv == TypeOK /\ FactoryInv /\ MapInv

\* The blocks marked bad are counted within the virtual blocks.
LEMMA LostBounds ==
    ASSUME NEW V \in SUBSET VBlks
    PROVE  /\ Cardinality(V) \in 0 .. Cardinality(VBlks)
           /\ Cardinality(VBlks \ V) = Cardinality(VBlks) - Cardinality(V)
           /\ Cardinality(VBlks) \in Nat /\ Cardinality({}) = 0
<1>1. IsFiniteSet(VBlks)
  BY Sizes, FS_Interval
<1>2. IsFiniteSet(V) /\ Cardinality(V) <= Cardinality(VBlks) /\ Cardinality({}) = 0
  BY <1>1, FS_Subset, FS_EmptySet
<1>3. Cardinality(V) \in Nat /\ Cardinality(VBlks) \in Nat
  BY <1>1, <1>2, FS_CardinalityType
<1>4. Cardinality(VBlks \ V) = Cardinality(VBlks) - Cardinality(VBlks \cap V)
  BY <1>1, FS_Difference
<1>5. VBlks \cap V = V
  OBVIOUS
<1>. QED
  BY <1>2, <1>3, <1>4, <1>5

\* Steps that map nothing anew.
LEMMA MapStays ==
    ASSUME MapInv, UNCHANGED <<factory, remap, vbad, lost>>, Mapped' <=> Mapped
    PROVE  MapInv'
<1>1. \A v : Physical(v)' = Physical(v)
  BY DEF Physical
<1>. QED
  BY <1>1 DEF MapInv

\* On a drive that was never started nothing is mapped.
LEMMA InitMapping == Init => MappingInv
<1>. SUFFICES ASSUME Init PROVE MappingInv
  OBVIOUS
<1>1. factory \subseteq PBlks \ {TableBlock} /\ worn = {} /\ written = {} /\ table = NoTable /\ pc = "off"
  BY DEF Init
<1>2. bad = {} /\ booked = FALSE /\ remap = [p \in PBlks |-> p] /\ vbad = {} /\ lost = 0 /\ image = NoTable
  BY DEF Init, Fresh
<1>3. reported = {} /\ kept = {}
  BY DEF Init
<1>4. lost \in 0 .. Cardinality(VBlks)
  BY <1>2, LostBounds
<1>5. TypeOK
  BY <1>1, <1>2, <1>3, <1>4 DEF TypeOK
<1>. QED
  BY <1>1, <1>2, <1>5, BlockAssumption DEF MappingInv, FactoryInv, MapInv, Mapped, Running

\* Every step keeps it; only the remapping of a start establishes anything new.
LEMMA NextMapping == MappingInv /\ [Next]_vars => MappingInv'
<1>. SUFFICES ASSUME MappingInv, [Next]_vars PROVE MappingInv'
  OBVIOUS
<1>0. TypeOK /\ FactoryInv /\ MapInv
  BY DEF MappingInv
<1>1. TypeOK'
  <2>1. CASE PowerOn
    BY <1>0, <2>1 DEF PowerOn, EraseTotalBlockSpace, ram, TypeOK
  <2>2. CASE RecoverBadBlockTable
    BY <1>0, <2>2 DEF RecoverBadBlockTable, Marked, flash, TypeOK
  <2>3. CASE EraseTable
    BY <1>0, <2>3 DEF EraseTable, ram, TypeOK
  <2>4. CASE ProgramTable
    <3>1. PICK fails \in BOOLEAN :
            /\ table' = IF fails THEN NoTable ELSE image
            /\ bad' = bad \cup Failed(fails)
            /\ booked' = (pc = "saveProgram")
            /\ reported' = reported \cup Failed(fails)
            /\ kept' = IF fails THEN {} ELSE IF pc = "saveProgram" THEN kept \cup reported ELSE kept
      BY <2>4 DEF ProgramTable
    <3>2. Failed(fails) \subseteq PBlks
      BY BlockAssumption DEF Failed
    <3>3. booked' \in BOOLEAN /\ pc' \in {"remap", "saved"} /\ image' = NoTable
      BY <2>4, <3>1 DEF ProgramTable
    <3> HIDE DEF Failed
    <3>. QED
      BY <1>0, <2>4, <3>1, <3>2, <3>3 DEF ProgramTable, TypeOK
  <2>5. CASE Remap
    <3>1. remap = [p \in PBlks |-> p] /\ bad' \subseteq PBlks /\ vbad' \subseteq VBlks
      BY <1>0, <2>5, BlockAssumption DEF Remap, TypeOK, MapInv, Mapped, Running
    <3>2. RemapBadBlock(bad') /\ vbad' = {v \in VBlks : Physical(v)' \in bad'}
      BY <2>5 DEF Remap
    <3>3. remap' \in [PBlks -> PBlks] /\ lost' = Cardinality(vbad')
      BY <3>1, <3>2, RemapBadBlockIs
    <3>4. lost' \in 0 .. Cardinality(VBlks)
      BY <3>1, <3>3, LostBounds
    <3>5. UNCHANGED <<factory, worn, written, table, booked, image, reported, kept>> /\ pc' \in {"up", "assertion"}
      BY <2>5 DEF Remap, flash
    <3>. QED
      BY <1>0, <3>1, <3>3, <3>4, <3>5 DEF TypeOK
  <2>6. ASSUME NEW b \in PBlks, Program(b) \/ Erase(b) PROVE TypeOK'
    BY <1>0, <2>6 DEF Program, Erase, ram, TypeOK
  <2>7. ASSUME NEW b \in PBlks, Fails(b) PROVE TypeOK'
    <3>1. worn' \subseteq PBlks /\ bad' = bad \cup {b} /\ booked' = TRUE /\ reported' = reported \cup {b}
      BY <1>0, <2>7 DEF Fails, UpdatePhyBlockMapForGrownBadBlock, TypeOK
    <3>. QED
      BY <1>0, <2>7, <3>1 DEF Fails, TypeOK
  <2>8. CASE Shutdown
    BY <1>0, <2>8 DEF Shutdown, flash, TypeOK
  <2>9. CASE Resume
    BY <1>0, <2>9 DEF Resume, flash, ram, TypeOK
  <2>10. CASE PowerOff
    <3>1. lost' \in 0 .. Cardinality(VBlks)
      BY <2>10, LostBounds DEF PowerOff, Fresh
    <3>. QED
      BY <1>0, <2>10, <3>1 DEF PowerOff, Fresh, flash, TypeOK
  <2>11. CASE UNCHANGED vars
    BY <1>0, <2>11 DEF vars, flash, ram, TypeOK
  <2>. QED
    BY <2>1, <2>2, <2>3, <2>4, <2>5, <2>6, <2>7, <2>8, <2>9, <2>10, <2>11 DEF Next
<1>2. FactoryInv'
  <2>. USE BlockAssumption DEF FactoryInv, Running
  <2>1. CASE PowerOn
    BY <1>0, <2>1 DEF PowerOn, EraseTotalBlockSpace, ram
  <2>2. CASE RecoverBadBlockTable
    BY <1>0, <2>2 DEF RecoverBadBlockTable, Marked, flash, TypeOK
  <2>3. CASE EraseTable
    BY <1>0, <2>3 DEF EraseTable, ram
  <2>4. CASE ProgramTable
    <3>1. table' \in {NoTable, image} /\ bad \subseteq bad' /\ UNCHANGED factory
      BY <2>4 DEF ProgramTable
    <3>2. pc \in {"scanProgram", "saveProgram"} /\ pc' \in {"remap", "saved"}
      BY <2>4 DEF ProgramTable
    <3>. QED
      BY <1>0, <3>1, <3>2
  <2>5. CASE Remap
    BY <1>0, <2>5 DEF Remap, flash
  <2>6. ASSUME NEW b \in PBlks, Program(b) \/ Erase(b) PROVE FactoryInv'
    BY <1>0, <2>6 DEF Program, Erase, ram
  <2>7. ASSUME NEW b \in PBlks, Fails(b) PROVE FactoryInv'
    BY <1>0, <2>7 DEF Fails, UpdatePhyBlockMapForGrownBadBlock
  <2>8. CASE Shutdown
    BY <1>0, <2>8 DEF Shutdown, flash, TypeOK
  <2>9. CASE Resume
    BY <1>0, <2>9 DEF Resume, flash, ram
  <2>10. CASE PowerOff
    BY <1>0, <2>10 DEF PowerOff, Fresh, flash
  <2>11. CASE UNCHANGED vars
    BY <1>0, <2>11 DEF vars, flash, ram
  <2>. QED
    BY <2>1, <2>2, <2>3, <2>4, <2>5, <2>6, <2>7, <2>8, <2>9, <2>10, <2>11 DEF Next
<1>3. MapInv'
  <2>1. CASE PowerOn
    BY <1>0, <2>1, MapStays DEF PowerOn, ram, Mapped, Running
  <2>2. CASE RecoverBadBlockTable
    BY <1>0, <2>2, MapStays DEF RecoverBadBlockTable, flash, Mapped, Running
  <2>3. CASE EraseTable
    BY <1>0, <2>3, MapStays DEF EraseTable, ram, Mapped, Running
  <2>4. CASE ProgramTable
    BY <1>0, <2>4, MapStays DEF ProgramTable, Mapped, Running
  <2>5. CASE Remap
    <3>1. remap = [p \in PBlks |-> p] /\ factory \subseteq bad' /\ UNCHANGED factory
      BY <1>0, <2>5 DEF Remap, flash, MapInv, FactoryInv, Mapped, Running
    <3>2. RemapBadBlock(bad') /\ vbad' = {v \in VBlks : Physical(v)' \in bad'}
      BY <2>5 DEF Remap
    <3>3. lost' = Cardinality(vbad') /\ \A v, w \in VBlks : Physical(v)' = Physical(w)' => v = w
      BY <3>1, <3>2, RemapBadBlockIs
    <3>4. {TableBlock} \cup NMC_MAPPING_DIR_PBLKS \subseteq bad' /\ pc' \in {"up", "assertion"}
      BY <2>5 DEF Remap
    <3>. QED
      BY <3>1, <3>2, <3>3, <3>4 DEF MapInv, Mapped, Running
  <2>6. ASSUME NEW b \in PBlks, Program(b) \/ Erase(b) PROVE MapInv'
    BY <1>0, <2>6, MapStays DEF Program, Erase, ram, Mapped
  <2>7. ASSUME NEW b \in PBlks, Fails(b) PROVE MapInv'
    BY <1>0, <2>7, MapStays DEF Fails, Mapped
  <2>8. CASE Shutdown
    BY <1>0, <2>8, MapStays DEF Shutdown, flash, Mapped, Running
  <2>9. CASE Resume
    BY <1>0, <2>9, MapStays DEF Resume, flash, ram, Mapped, Running
  <2>10. CASE PowerOff
    BY <2>10 DEF PowerOff, Fresh, MapInv, Mapped, Running
  <2>11. CASE UNCHANGED vars
    BY <1>0, <2>11, MapStays DEF vars, flash, ram, Mapped
  <2>. QED
    BY <2>1, <2>2, <2>3, <2>4, <2>5, <2>6, <2>7, <2>8, <2>9, <2>10, <2>11 DEF Next
<1>. QED
  BY <1>1, <1>2, <1>3 DEF MappingInv

\* The invariant holds in every state.
THEOREM MappingInvariance == Spec => []MappingInv
  BY InitMapping, NextMapping, PTL DEF Spec

\* Every variable keeps its type: no block is remapped outside of its die, and no
\* more blocks are lost than there are (RemapBadBlock).
THEOREM TypeCorrect == Spec => []TypeOK
<1>1. MappingInv => TypeOK
  BY DEF MappingInv
<1>. QED
  BY MappingInvariance, <1>1, PTL

\* The blocks in use are different, and none of them is the bad block table, a
\* directory block or marked by the factory (RemapBadBlock, InitBlockMap).
THEOREM BlocksMappedApart == Spec => []MappedApart
<1>1. MappingInv => MappedApart
  BY DEF MappingInv, MapInv, Mapped, Running, MappedApart
<1>. QED
  BY MappingInvariance, <1>1, PTL

\* The capacity reported to the host counts exactly the virtual blocks in use, less
\* the reserve and the over-provision, whichever spare blocks were bad (InitFTL).
THEOREM CapacityIsBacked == Spec => []CapacityBacked
<1>1. MappingInv => CapacityBacked
  <2> SUFFICES ASSUME MappingInv, pc = "up" PROVE StorageCapacity + 1 + OVER_PROVISION = Cardinality(VBlks \ vbad)
    BY DEF CapacityBacked
  <2>1. lost = Cardinality(vbad) /\ vbad \in SUBSET VBlks
    BY DEF MappingInv, MapInv, Mapped, Running, TypeOK
  <2>2. OVER_PROVISION \in Nat
    BY SizeAssumption
  <2>. QED
    BY <2>1, <2>2, LostBounds DEF StorageCapacity
<1>. QED
  BY MappingInvariance, <1>1, PTL

(***************************************************************************)
(* The blocks that failed.                                                 *)
(***************************************************************************)

\* The sets are sets of blocks, so that none of them is taken for NoTable.
BlockSets ==
    /\ factory \subseteq PBlks /\ written \subseteq PBlks /\ bad \subseteq PBlks
    /\ table = NoTable \/ table \subseteq PBlks

\* Nothing has failed yet, and the scan has nothing to lose.
NothingYet ==
    /\ pc \in {"off", "recover", "scanErase", "scanProgram"} => reported = {}
    /\ pc \in {"scanErase", "scanProgram"} => kept \subseteq {TableBlock}

TableKeeps ==
    pc # "saveProgram" =>
        IF table = NoTable THEN kept \subseteq {TableBlock} ELSE kept \subseteq table \cup {TableBlock}

MemoryKeeps ==
    pc \in Running \cup {"remap"} => kept \cup reported \subseteq bad \cup {TableBlock}

\* A failure that is not booked is one of the table block while the scan is saved.
BookedFailures ==
    pc \in {"remap", "up", "saved"} /\ ~booked => reported \subseteq {TableBlock}

ImageKeeps ==
    /\ pc \in {"scanErase", "scanProgram", "saveErase", "saveProgram"} => image \subseteq PBlks
    /\ pc \in {"saveErase", "saveProgram"} => kept \cup reported \subseteq image \cup {TableBlock}

KeptUnused == pc \in Running => Used \cap (kept \ reported) = {}

\* The inductive invariant.
IInv ==
    /\ BlockSets /\ NothingYet /\ TableKeeps /\ MemoryKeeps /\ BookedFailures /\ ImageKeeps
    /\ KeptUnused

\* The blocks behind the virtual ones change with the remapping only.
LEMMA UsedStays == UNCHANGED <<remap, vbad>> => Used' = Used
<1>1. SUFFICES ASSUME UNCHANGED <<remap, vbad>> PROVE Used' = Used
  OBVIOUS
<1>2. \A v : Physical(v)' = Physical(v)
  BY <1>1 DEF Physical
<1>. QED
  BY <1>1, <1>2 DEF Used

\* A drive that was never started has nothing to remember.
LEMMA InitKeeps == Init => IInv
  BY BlockAssumption
  DEF Init, Fresh, IInv, BlockSets, NothingYet, TableKeeps, MemoryKeeps, BookedFailures,
      ImageKeeps, KeptUnused, Running

\* Every step hands on what is remembered.
LEMMA NextKeeps == IInv /\ [Next]_vars => IInv'
<1>. SUFFICES ASSUME IInv, [Next]_vars PROVE IInv'
  OBVIOUS
<1>. USE BlockAssumption
     DEF IInv, BlockSets, NothingYet, TableKeeps, MemoryKeeps, BookedFailures, ImageKeeps,
         KeptUnused, Running
<1>1. CASE PowerOn
  BY <1>1 DEF PowerOn, EraseTotalBlockSpace, ram
<1>2. CASE RecoverBadBlockTable
  BY <1>2 DEF RecoverBadBlockTable, Marked, flash
<1>3. CASE EraseTable
  <2>1. Used' = Used
    BY <1>3, UsedStays DEF EraseTable, ram
  <2>. QED
    BY <1>3, <2>1 DEF EraseTable, ram
<1>4. CASE ProgramTable
  <2>1. Used' = Used
    BY <1>4, UsedStays DEF ProgramTable
  <2>2. PICK fails \in BOOLEAN :
          /\ table' = IF fails THEN NoTable ELSE image
          /\ bad' = bad \cup Failed(fails)
          /\ booked' = (pc = "saveProgram")
          /\ reported' = reported \cup Failed(fails)
          /\ kept' = IF fails THEN {} ELSE IF pc = "saveProgram" THEN kept \cup reported ELSE kept
    BY <1>4 DEF ProgramTable
  <2>3. Failed(fails) \subseteq {TableBlock}
    BY DEF Failed
  <2>. HIDE DEF Failed
  <2>4. CASE pc = "scanProgram"
    <3>1. kept' \subseteq {TableBlock} /\ reported' \subseteq {TableBlock} /\ pc' = "remap"
      BY <1>4, <2>2, <2>3, <2>4 DEF ProgramTable
    <3>. QED
      BY <1>4, <2>2, <2>3, <2>4, <3>1 DEF ProgramTable
  <2>5. CASE pc = "saveProgram"
    <3>1. booked' /\ pc' = "saved" /\ image \subseteq PBlks
      BY <1>4, <2>2, <2>5 DEF ProgramTable
    <3>2. IF table' = NoTable THEN kept' = {} ELSE kept' \subseteq table' \cup {TableBlock}
      BY <2>2, <2>5, <3>1
    <3>3. kept' \ reported' \subseteq kept \ reported
      BY <2>2, <2>5
    <3>. QED
      BY <1>4, <2>1, <2>2, <2>3, <2>5, <3>1, <3>2, <3>3 DEF ProgramTable
  <2>. QED
    BY <1>4, <2>4, <2>5 DEF ProgramTable
<1>5. CASE Remap
  <2>1. Used' \cap bad' = {}
    BY <1>5 DEF Remap, Used
  <2>2. kept \subseteq bad'
    BY <1>5 DEF Remap
  <2>. QED
    BY <1>5, <2>1, <2>2 DEF Remap, flash
<1>6. ASSUME NEW b \in PBlks, Program(b) \/ Erase(b) PROVE IInv'
  <2>1. Used' = Used
    BY <1>6, UsedStays DEF Program, Erase, ram
  <2>. QED
    BY <1>6, <2>1 DEF Program, Erase, ram
<1>7. ASSUME NEW b \in PBlks, Fails(b) PROVE IInv'
  <2>1. Used' = Used
    BY <1>7, UsedStays DEF Fails
  <2>2. bad' = bad \cup {b} /\ booked' = TRUE /\ reported' = reported \cup {b} /\ pc' = "up"
    BY <1>7 DEF Fails, UpdatePhyBlockMapForGrownBadBlock
  <2>. QED
    BY <1>7, <2>1, <2>2 DEF Fails
<1>8. CASE Shutdown
  <2>1. Used' = Used
    BY <1>8, UsedStays DEF Shutdown
  <2>2. CASE booked
    BY <1>8, <2>1, <2>2 DEF Shutdown, flash
  <2>3. CASE ~booked
    BY <1>8, <2>1, <2>3 DEF Shutdown, flash
  <2>. QED
    BY <2>2, <2>3
<1>9. CASE Resume
  <2>1. Used' = Used
    BY <1>9, UsedStays DEF Resume, ram
  <2>. QED
    BY <1>9, <2>1 DEF Resume, flash, ram
<1>10. CASE PowerOff
  BY <1>10 DEF PowerOff, Fresh, flash
<1>11. CASE UNCHANGED vars
  <2>1. Used' = Used
    BY <1>11, UsedStays DEF vars, ram
  <2>. QED
    BY <1>11, <2>1 DEF vars, flash, ram
<1>. QED
  BY <1>1, <1>2, <1>3, <1>4, <1>5, <1>6, <1>7, <1>8, <1>9, <1>10, <1>11 DEF Next

\* What the firmware knows of its bad blocks is handed on from the flags to the
\* table and back in every run (SaveBadBlockTable, RecoverBadBlockTable,
\* UpdateBadBlockTableForGrownBadBlock).
THEOREM BadBlocksRemembered == Spec => []IInv
  BY InitKeeps, NextKeeps, PTL DEF Spec

\* No virtual block in use is ever mapped to a block that failed before a
\* finished shutdown, unless the table itself was lost (InitBlockMap).
THEOREM GrownBadBlocksKept == Spec => []GrownBadKept
<1>1. IInv => GrownBadKept
  BY DEF IInv, KeptUnused, Running, GrownBadKept
<1>. QED
  BY BadBlocksRemembered, <1>1, PTL

(***************************************************************************)
(* The files: NmcMapping.                                                  *)
(***************************************************************************)

\* One directory block on each die, and blocks of more than one page.
Board == DIRS = 1 /\ PAGES > 1

\* A table with the name of a file, and the files answered.
Written == [title : Names, list : Seq(Ways \X Blks)]
Answers == [blks : SUBSET (Dies \X Blks), table : [Chs -> Tables], old : BOOLEAN]

TypeInv ==
    /\ NmcTypeOK
    /\ dirs \in [Chs -> [Locs -> Written \cup {Erased, Torn}]]
    /\ \A n \in DOMAIN answered : answered[n] \in Answers

\* The request and the open file have names; a flush has a file.
NameInv ==
    /\ received => pending.title \in Names
    /\ open => \A c \in Chs : nmcTable[c].title \in Names /\ nmcTable[c].title = nmcTable[0].title
    /\ phase = "flushing" => open

\* The way passes the last one only with the last page of a block.
WayInv ==
    /\ phase = "off" => targetWay = 0
    /\ targetWay = USER_WAYS => target[2] = USER_WAYS \/ (targetCh = 0 /\ pagesUsed = 0)

\* Pages with a table, which of them is the last of a file, and what is on it.
WrittenPages(c) == {l \in Scanned(c) : dirs[c][l] \notin {Erased, Torn}}
IsLast(c, n, l) ==
    /\ l \in WrittenPages(c) /\ dirs[c][l].title = n
    /\ \A m \in WrittenPages(c) : dirs[c][m].title = n => ScanIndex(m) <= ScanIndex(l)
Leads(c, n, t) == \E l \in Locs : IsLast(c, n, l) /\ dirs[c][l] = t

\* What is not programmed comes after everything that is.
PrefixInv ==
    \A c \in Chs : \A l, m \in Scanned(c) :
        dirs[c][l] = Erased /\ ScanIndex(l) <= ScanIndex(m) => dirs[c][m] = Erased

\* The place for the next table and the file table are what the scan finds.
IsFirstEmpty(c, l) == l \in EmptyPages(c) /\ \A m \in EmptyPages(c) : ScanIndex(l) <= ScanIndex(m)
PlaceInv ==
    phase \in {"idle", "flushing"} =>
        /\ files = RecoveredFiles
        /\ \A c \in Chs : IsFirstEmpty(c, newLoc[c])

\* The last table of an answered file, on every channel, is the one it was
\* answered with; of the file being flushed, on the channels that are done.
AnsweredInv ==
    /\ \A n \in DOMAIN answered, c \in Chs : Leads(c, n, answered[n].table[c])
    /\ phase = "flushing" =>
        /\ nmcTable[0].title \notin DOMAIN answered
        /\ \A c \in Chs : c < flushCh => Leads(c, nmcTable[0].title, nmcTable[c])

\* No recorded block of a file answered before the start is to be handed out.
BlocksInv ==
    phase \in {"idle", "flushing"} => \A n \in DOMAIN answered : answered[n].old =>
        \A c \in Chs, w \in Ways, b \in Blks :
            <<w, b>> \in ToSet(answered[n].table[c].list) =>
                b \notin free[<<c, w>>] /\ b # current[<<c, w>>]

FileInv ==
    /\ TypeInv
    /\ NameInv
    /\ WayInv
    /\ PrefixInv
    /\ PlaceInv
    /\ AnsweredInv
    /\ BlocksInv

-----------------------------------------------------------------------------
(* The scan of a channel: way by way, page by page.                        *)

\* The sizes of the drive, and its channels, ways and blocks.
LEMMA NmcSizes ==
    /\ USER_CHANNELS \in Nat /\ USER_CHANNELS > 0
    /\ USER_WAYS \in Nat /\ USER_WAYS > 0
    /\ PAGES \in Nat /\ PAGES > 0
    /\ BLOCKS \in Nat /\ BLOCKS > 0
    /\ \A c : c \in Chs <=> c \in Nat /\ c < USER_CHANNELS
    /\ \A w : w \in Ways <=> w \in Nat /\ w < USER_WAYS
    /\ \A b : b \in Blks <=> b \in Nat /\ b < BLOCKS
    BY NmcAssumption DEF Chs, Ways, Blks

\* A page of a directory: way, directory block 0, page.
LEMMA LocParts ==
    ASSUME Board, NEW l \in Locs
    PROVE  /\ l[1] \in Nat /\ l[1] < USER_WAYS /\ l[2] = 0
           /\ l[3] \in Nat /\ l[3] < PAGES
           /\ l = <<l[1], 0, l[3]>>
           /\ l[1] * PAGES \in Nat
           /\ ScanIndex(l) = l[1] * PAGES + l[3]
<1>1. l \in Ways \X (0 .. 0) \X (0 .. PAGES - 1)
    BY DEF Locs, Board
<1>2. /\ l[1] \in Ways /\ l[2] \in 0 .. 0 /\ l[3] \in 0 .. PAGES - 1
      /\ l = <<l[1], l[2], l[3]>>
    BY <1>1
<1>3. l[1] \in Nat /\ l[1] < USER_WAYS /\ l[2] = 0 /\ l[3] \in Nat /\ l[3] < PAGES
    BY <1>2, NmcSizes
<1>4. l[1] * PAGES \in Nat
    BY <1>3, NmcSizes, Product
<1>5. (l[1] * 1 + 0) * PAGES + l[3] = l[1] * PAGES + l[3]
    BY <1>3, <1>4
<1>6. ScanIndex(l) = (l[1] * 1 + 0) * PAGES + l[3]
    BY <1>3 DEF ScanIndex, Board
<1> QED
    BY <1>2, <1>3, <1>4, <1>5, <1>6

\* Every way and page name a page of the directory.
LEMMA LocIs ==
    ASSUME Board, NEW w \in Nat, NEW p \in Nat, w < USER_WAYS, p < PAGES
    PROVE  <<w, 0, p>> \in Locs
<1>1. w \in Ways /\ p \in 0 .. PAGES - 1 /\ 0 \in 0 .. 0
    BY NmcSizes
<1>2. <<w, 0, p>> \in Ways \X (0 .. 0) \X (0 .. PAGES - 1)
    BY <1>1
<1> QED
    BY <1>2 DEF Locs, Board

\* The scan passes the ways in order, and the pages of each in order.
LEMMA ScanOrder ==
    ASSUME Board, NEW l \in Locs, NEW m \in Locs
    PROVE  /\ ScanIndex(l) \in Nat
           /\ ScanIndex(l) <= ScanIndex(m) <=> l[1] < m[1] \/ (l[1] = m[1] /\ l[3] <= m[3])
           /\ ScanIndex(l) = ScanIndex(m) => l = m
           /\ ScanIndex(l) <= USER_WAYS * PAGES
<1> DEFINE a == l[1]
           b == m[1]
<1>1. /\ a \in Nat /\ l[3] \in Nat /\ l[3] < PAGES /\ ScanIndex(l) = a * PAGES + l[3]
      /\ l = <<a, 0, l[3]>> /\ a < USER_WAYS /\ a * PAGES \in Nat
    BY LocParts
<1>2. /\ b \in Nat /\ m[3] \in Nat /\ m[3] < PAGES /\ ScanIndex(m) = b * PAGES + m[3]
      /\ m = <<b, 0, m[3]>> /\ b * PAGES \in Nat
    BY LocParts
<1>3. PAGES \in Nat /\ USER_WAYS \in Nat
    BY NmcSizes
<1> HIDE DEF a, b
<1>4. a < b => a * PAGES + PAGES <= b * PAGES
    <2>1. a + 1 \in Nat /\ (a + 1) * PAGES = a * PAGES + PAGES
        BY <1>1, <1>3
    <2>2. a + 1 <= b => (a + 1) * PAGES <= b * PAGES
        BY <1>2, <1>3, <2>1, Product
    <2> QED
        BY <1>1, <1>2, <2>1, <2>2
<1>5. b < a => b * PAGES + PAGES <= a * PAGES
    <2>1. b + 1 \in Nat /\ (b + 1) * PAGES = b * PAGES + PAGES
        BY <1>2, <1>3
    <2>2. b + 1 <= a => (b + 1) * PAGES <= a * PAGES
        BY <1>1, <1>3, <2>1, Product
    <2> QED
        BY <1>1, <1>2, <2>1, <2>2
<1>6. a * PAGES + PAGES <= USER_WAYS * PAGES
    <2>1. a + 1 \in Nat /\ (a + 1) * PAGES = a * PAGES + PAGES
        BY <1>1, <1>3
    <2>2. a + 1 <= USER_WAYS => (a + 1) * PAGES <= USER_WAYS * PAGES
        BY <1>3, <2>1, Product
    <2> QED
        BY <1>1, <1>3, <2>1, <2>2
<1>7. USER_WAYS * PAGES \in Nat
    BY <1>3, Product
<1>8. ScanIndex(l) \in Nat /\ ScanIndex(l) <= USER_WAYS * PAGES
    BY <1>1, <1>3, <1>6, <1>7
<1>9. ScanIndex(l) <= ScanIndex(m) <=> a < b \/ (a = b /\ l[3] <= m[3])
    <2>1. CASE a < b
        BY <1>1, <1>2, <1>3, <1>4, <2>1
    <2>2. CASE b < a
        BY <1>1, <1>2, <1>3, <1>5, <2>2
    <2>3. CASE a = b
        BY <1>1, <1>2, <1>3, <2>3
    <2> QED
        BY <1>1, <1>2, <2>1, <2>2, <2>3
<1>10. ScanIndex(l) = ScanIndex(m) => a = b /\ l[3] = m[3]
    <2>1. CASE a < b
        BY <1>1, <1>2, <1>3, <1>4, <2>1
    <2>2. CASE b < a
        BY <1>1, <1>2, <1>3, <1>5, <2>2
    <2>3. CASE a = b
        BY <1>1, <1>2, <1>3, <2>3
    <2> QED
        BY <1>1, <1>2, <2>1, <2>2, <2>3
<1>11. ScanIndex(l) = ScanIndex(m) => l = m
    BY <1>1, <1>2, <1>10
<1> QED
    BY <1>8, <1>9, <1>11 DEF a, b

\* There is a first and a last page in every set of pages.
LEMMA FirstOf ==
    ASSUME Board, NEW S \in SUBSET Locs, S # {}
    PROVE  \E l \in S : \A m \in S : ScanIndex(l) <= ScanIndex(m)
<1> DEFINE T == {ScanIndex(l) : l \in S}
<1>1. T \in SUBSET Nat /\ T # {}
    BY ScanOrder
<1>2. PICK x \in T : \A y \in T : x <= y
    <2> HIDE DEF T
    <2> QED
        BY <1>1, SmallestOf
<1>3. PICK l \in S : x = ScanIndex(l)
    BY <1>2
<1> QED
    BY <1>2, <1>3

\* And a last one.
LEMMA LastOf ==
    ASSUME Board, NEW S \in SUBSET Locs, S # {}
    PROVE  \E l \in S : \A m \in S : ScanIndex(m) <= ScanIndex(l)
<1> DEFINE T == {k \in Nat : \A m \in S : ScanIndex(m) <= k}
<1>1. T \in SUBSET Nat /\ T # {}
    <2>1. USER_WAYS * PAGES \in Nat
        BY NmcSizes, Product
    <2>2. \A m \in S : ScanIndex(m) <= USER_WAYS * PAGES
        BY ScanOrder
    <2> QED
        BY <2>1, <2>2
<1>2. PICK x \in T : \A y \in T : x <= y
    <2> HIDE DEF T
    <2> QED
        BY <1>1, SmallestOf
<1>3. x \in Nat /\ \A m \in S : ScanIndex(m) \in Nat /\ ScanIndex(m) <= x
    BY <1>2, ScanOrder
<1>4. \E l \in S : ScanIndex(l) = x
    <2> SUFFICES ASSUME \A l \in S : ScanIndex(l) # x PROVE FALSE
        OBVIOUS
    <2>1. \A m \in S : ScanIndex(m) < x
        BY <1>3
    <2>2. x - 1 \in Nat
        BY <1>3, <2>1
    <2>3. x - 1 \in T
        BY <1>3, <2>1, <2>2
    <2> QED
        BY <1>2, <1>3, <2>3
<1> QED
    BY <1>3, <1>4

\* The first empty page is the one CHOOSE finds.
LEMMA FirstEmptyIs ==
    ASSUME Board, NEW c
    PROVE  /\ EmptyPages(c) # {} => IsFirstEmpty(c, FirstEmpty(c)) /\ FirstEmpty(c) \in Locs
           /\ \A l : IsFirstEmpty(c, l) => FirstEmpty(c) = l /\ EmptyPages(c) # {}
<1>1. EmptyPages(c) \in SUBSET Locs
    BY DEF EmptyPages, Scanned
<1>2. EmptyPages(c) # {} => IsFirstEmpty(c, FirstEmpty(c)) /\ FirstEmpty(c) \in Locs
    <2>1. ASSUME EmptyPages(c) # {}
          PROVE  \E l \in EmptyPages(c) : \A m \in EmptyPages(c) : ScanIndex(l) <= ScanIndex(m)
        BY <1>1, <2>1, FirstOf
    <2> QED
        BY <1>1, <2>1 DEF IsFirstEmpty, FirstEmpty
<1>3. ASSUME NEW l, IsFirstEmpty(c, l)
      PROVE  FirstEmpty(c) = l /\ EmptyPages(c) # {}
    <2>1. l \in Locs /\ l \in EmptyPages(c)
        BY <1>1, <1>3 DEF IsFirstEmpty
    <2>2. FirstEmpty(c) \in Locs /\ IsFirstEmpty(c, FirstEmpty(c))
        BY <1>2, <2>1
    <2>3. ScanIndex(l) <= ScanIndex(FirstEmpty(c)) /\ ScanIndex(FirstEmpty(c)) <= ScanIndex(l)
        BY <1>3, <2>1, <2>2 DEF IsFirstEmpty
    <2>4. ScanIndex(l) \in Nat /\ ScanIndex(FirstEmpty(c)) \in Nat
        BY <2>1, <2>2, ScanOrder
    <2>5. ScanIndex(l) = ScanIndex(FirstEmpty(c))
        BY <2>3, <2>4
    <2> QED
        BY <2>1, <2>2, <2>5, ScanOrder
<1> QED
    BY <1>2, <1>3

\* The scan sees every page that holds a table.
LEMMA UsedAreWritten ==
    ASSUME Board, PrefixInv, NEW c \in Chs
    PROVE  UsedPages(c) = WrittenPages(c)
<1>1. ASSUME NEW l \in WrittenPages(c), NEW m \in EmptyPages(c)
      PROVE  ScanIndex(l) < ScanIndex(m)
    <2>1. l \in Scanned(c) /\ m \in Scanned(c) /\ dirs[c][m] = Erased /\ dirs[c][l] # Erased
        BY DEF WrittenPages, EmptyPages
    <2>2. ~(ScanIndex(m) <= ScanIndex(l))
        BY <2>1 DEF PrefixInv
    <2>3. ScanIndex(l) \in Nat /\ ScanIndex(m) \in Nat
        BY <2>1, ScanOrder DEF Scanned
    <2> QED
        BY <2>2, <2>3
<1> QED
    BY <1>1 DEF UsedPages, WrittenPages

\* The file table leads to the last page with the name.
LEMMA NewestIs ==
    ASSUME Board, PrefixInv, NEW c \in Chs, NEW n
    PROVE  /\ Newest(c, n) \in Locs
           /\ \A l : IsLast(c, n, l) => Newest(c, n) = l
           /\ (\A l \in WrittenPages(c) : dirs[c][l].title # n) => Newest(c, n) = ZeroLoc
<1> DEFINE mine == {l \in WrittenPages(c) : dirs[c][l].title = n}
<1>1. Newest(c, n) = IF mine = {} THEN ZeroLoc
                     ELSE CHOOSE l \in mine : \A m \in mine : ScanIndex(m) <= ScanIndex(l)
    <2> DEFINE used == {l \in UsedPages(c) : dirs[c][l].title = n}
    <2>1. used = mine
        BY UsedAreWritten
    <2>2. Newest(c, n) = IF used = {} THEN ZeroLoc
                         ELSE CHOOSE l \in used : \A m \in used : ScanIndex(m) <= ScanIndex(l)
        BY DEF Newest
    <2> HIDE DEF used, mine
    <2> QED
        BY <2>1, <2>2
<1>2. mine \in SUBSET Locs
    BY DEF WrittenPages, Scanned
<1>3. ZeroLoc \in Locs
    BY LocIs, NmcSizes DEF ZeroLoc
<1>4. ASSUME mine # {}
      PROVE  \E l \in mine : \A m \in mine : ScanIndex(m) <= ScanIndex(l)
    <2> HIDE DEF mine
    <2> QED
        BY <1>2, <1>4, LastOf
<1>5. Newest(c, n) \in Locs
    <2> HIDE DEF mine
    <2> QED
        BY <1>1, <1>2, <1>3, <1>4
<1>6. ASSUME NEW l, IsLast(c, n, l)
      PROVE  Newest(c, n) = l
    <2>1. l \in mine /\ \A m \in mine : ScanIndex(m) <= ScanIndex(l)
        BY <1>6 DEF IsLast
    <2> HIDE DEF mine
    <2> DEFINE k == Newest(c, n)
    <2>2. k \in mine /\ \A m \in mine : ScanIndex(m) <= ScanIndex(k)
        BY <1>1, <1>4, <2>1
    <2>3. ScanIndex(k) <= ScanIndex(l) /\ ScanIndex(l) <= ScanIndex(k)
        BY <2>1, <2>2
    <2> HIDE DEF k
    <2>4. k \in Locs /\ l \in Locs
        BY <1>2, <2>1, <2>2
    <2>5. ScanIndex(k) \in Nat /\ ScanIndex(l) \in Nat
        BY <2>4, ScanOrder
    <2>6. ScanIndex(k) = ScanIndex(l)
        BY <2>3, <2>5
    <2>7. k = l
        BY <2>4, <2>6, ScanOrder
    <2> QED
        BY <2>7 DEF k
<1>7. (\A l \in WrittenPages(c) : dirs[c][l].title # n) => Newest(c, n) = ZeroLoc
    BY <1>1
<1> QED
    BY <1>5, <1>6, <1>7

-----------------------------------------------------------------------------
(* The place after a page: the next page that is scanned.                  *)

\* The walk over the directory blocks ends at the first one not to be skipped, or
\* behind the last: m is where it ends when it starts at the directory block of way w.
EndsAt(c, w, m) ==
    \/ /\ m = <<0, 1, 0>>
       /\ \A u \in Ways : w <= u => nmcSkippedDirBlk(c, <<u, 0, 0>>)
    \/ \E v \in Ways :
        /\ m = <<v, 0, 0>> /\ w <= v /\ ~nmcSkippedDirBlk(c, m)
        /\ \A u \in Ways : w <= u /\ u < v => nmcSkippedDirBlk(c, <<u, 0, 0>>)

\* Directory blocks, and where their walk may end.
DirBlks == Ways \X (0 .. DIRS) \X {0}
Walks(f, c) ==
    f = [m \in DirBlks |-> IF nmcSkippedDirBlk(c, m) /\ m[2] < DIRS THEN f[NextBlk(m)] ELSE m]

\* There is one directory block on a way, and one position behind the last.
LEMMA DirBlkParts ==
    ASSUME Board
    PROVE  /\ \A w \in Ways : <<w, 0, 0>> \in DirBlks
           /\ <<0, 1, 0>> \in DirBlks
           /\ \A m \in DirBlks : \/ m[2] = 0 /\ m[1] \in Ways /\ m = <<m[1], 0, 0>>
                                 \/ m[2] = 1 /\ m[1] \in Ways /\ m = <<m[1], 1, 0>>
<1>1. DirBlks = Ways \X (0 .. 1) \X {0}
    BY DEF Board, DirBlks
<1>2. 0 \in Ways /\ 0 .. 1 = {0, 1}
    BY NmcSizes
<1> QED
    BY <1>1, <1>2

\* From a way the walk ends somewhere.
LEMMA EndExists ==
    ASSUME Board, NEW c, NEW w \in Ways
    PROVE  \E m \in DirBlks : EndsAt(c, w, m)
<1> DEFINE T == {u \in Ways : w <= u /\ ~nmcSkippedDirBlk(c, <<u, 0, 0>>)}
<1>1. CASE T = {}
    <2>1. EndsAt(c, w, <<0, 1, 0>>)
        BY <1>1 DEF EndsAt
    <2> QED
        BY <2>1, DirBlkParts
<1>2. CASE T # {}
    <2>1. T \in SUBSET Nat
        BY NmcSizes
    <2>2. PICK v \in T : \A u \in T : v <= u
        <3> HIDE DEF T
        <3> QED
            BY <1>2, <2>1, SmallestOf
    <2>3. \A u \in Ways : w <= u /\ u < v => nmcSkippedDirBlk(c, <<u, 0, 0>>)
        BY <2>2, NmcSizes
    <2>4. EndsAt(c, w, <<v, 0, 0>>)
        BY <2>2, <2>3 DEF EndsAt
    <2> QED
        BY <2>2, <2>4, DirBlkParts
<1> QED
    BY <1>1, <1>2

\* One step of the walk.
LEMMA EndStep ==
    ASSUME Board, NEW c, NEW w \in Ways, NEW m
    PROVE  EndsAt(c, w, m) <=>
               IF nmcSkippedDirBlk(c, <<w, 0, 0>>)
               THEN IF w + 1 < USER_WAYS THEN EndsAt(c, w + 1, m) ELSE m = <<0, 1, 0>>
               ELSE m = <<w, 0, 0>>
<1>1. w \in Nat /\ w < USER_WAYS /\ USER_WAYS \in Nat
    BY NmcSizes
<1>2. \A u \in Ways : u \in Nat /\ u < USER_WAYS
    BY NmcSizes
<1>3. CASE ~nmcSkippedDirBlk(c, <<w, 0, 0>>)
    <2>1. EndsAt(c, w, <<w, 0, 0>>)
        BY <1>1, <1>2, <1>3 DEF EndsAt
    <2>2. ASSUME EndsAt(c, w, m) PROVE m = <<w, 0, 0>>
        BY <1>1, <1>2, <1>3, <2>2 DEF EndsAt
    <2> QED
        BY <1>3, <2>1, <2>2
<1>4. CASE nmcSkippedDirBlk(c, <<w, 0, 0>>) /\ w + 1 < USER_WAYS
    <2>1. \A u \in Ways : w <= u <=> u = w \/ w + 1 <= u
        BY <1>1, <1>2
    <2>2. EndsAt(c, w, m) => EndsAt(c, w + 1, m)
        BY <1>4, <2>1 DEF EndsAt
    <2>3. EndsAt(c, w + 1, m) => EndsAt(c, w, m)
        BY <1>4, <2>1 DEF EndsAt
    <2> QED
        BY <1>4, <2>2, <2>3
<1>5. CASE nmcSkippedDirBlk(c, <<w, 0, 0>>) /\ ~(w + 1 < USER_WAYS)
    <2>1. \A u \in Ways : w <= u => u = w
        BY <1>1, <1>2, <1>5
    <2> QED
        BY <1>5, <2>1 DEF EndsAt
<1> QED
    BY <1>3, <1>4, <1>5

\* The definition of the walk has a solution.
LEMMA WalkExists ==
    ASSUME Board, NEW c
    PROVE  \E f : Walks(f, c)
<1> DEFINE End(w) == CHOOSE m \in DirBlks : EndsAt(c, w, m)
           f == [m \in DirBlks |-> IF m[2] = 0 THEN End(m[1]) ELSE m]
<1>1. \A w \in Ways : EndsAt(c, w, End(w))
    BY EndExists
<1>2. \A m \in DirBlks : f[m] = IF m[2] = 0 THEN End(m[1]) ELSE m
    OBVIOUS
<1>3. DOMAIN f = DirBlks /\ f = [m \in DirBlks |-> f[m]]
    OBVIOUS
<1> HIDE DEF End, f
<1>4. ASSUME NEW m \in DirBlks
      PROVE  f[m] = IF nmcSkippedDirBlk(c, m) /\ m[2] < DIRS THEN f[NextBlk(m)] ELSE m
    <2>1. CASE m[2] = 1
        BY <1>2, <2>1 DEF Board
    <2>2. CASE m[2] = 0
        <3>1. m[1] \in Ways /\ m = <<m[1], 0, 0>> /\ m[2] < DIRS
            BY <2>2, DirBlkParts DEF Board
        <3>2. EndsAt(c, m[1], f[m])
            BY <1>1, <1>2, <2>2, <3>1
        <3>3. CASE ~nmcSkippedDirBlk(c, m)
            BY <3>1, <3>2, <3>3, EndStep
        <3>4. CASE nmcSkippedDirBlk(c, m) /\ m[1] + 1 < USER_WAYS
            <4>1. NextBlk(m) = <<m[1] + 1, 0, 0>> /\ m[1] + 1 \in Ways
                BY <2>2, <3>1, <3>4, NmcSizes DEF NextBlk
            <4>2. NextBlk(m) \in DirBlks /\ NextBlk(m)[2] = 0 /\ NextBlk(m)[1] = m[1] + 1
                BY <4>1, DirBlkParts
            <4>3. f[NextBlk(m)] = End(m[1] + 1) /\ f[m] = End(m[1])
                BY <1>2, <2>2, <4>2
            <4>4. \A k : EndsAt(c, m[1], k) <=> EndsAt(c, m[1] + 1, k)
                BY <3>1, <3>4, EndStep
            <4>5. End(m[1]) = End(m[1] + 1)
                BY <4>4 DEF End
            <4> QED
                BY <3>1, <3>4, <4>3, <4>5
        <3>5. CASE nmcSkippedDirBlk(c, m) /\ ~(m[1] + 1 < USER_WAYS)
            <4>1. f[m] = <<0, 1, 0>>
                BY <3>1, <3>2, <3>5, EndStep
            <4>2. NextBlk(m) = <<0, 1, 0>>
                BY <2>2, <3>5 DEF NextBlk
            <4>3. f[NextBlk(m)] = <<0, 1, 0>>
                BY <1>2, <4>2, DirBlkParts
            <4> QED
                BY <3>1, <3>5, <4>1, <4>3
        <3> QED
            BY <3>3, <3>4, <3>5
    <2> QED
        BY <2>1, <2>2, DirBlkParts
<1>5. Walks(f, c)
    BY <1>3, <1>4 DEF Walks
<1> QED
    BY <1>5

\* And its solutions end where the walk ends: a way whose walk ends elsewhere
\* is skipped, and so the next way would be another one.
LEMMA WalkEnds ==
    ASSUME Board, NEW c, NEW f, Walks(f, c), NEW w \in Ways
    PROVE  EndsAt(c, w, f[<<w, 0, 0>>])
<1> DEFINE T == {k \in Nat : k < USER_WAYS /\ ~EndsAt(c, USER_WAYS - 1 - k, f[<<USER_WAYS - 1 - k, 0, 0>>])}
<1>1. SUFFICES ASSUME T # {} PROVE FALSE
    <2>1. /\ USER_WAYS - 1 - w \in Nat /\ USER_WAYS - 1 - w < USER_WAYS
          /\ USER_WAYS - 1 - (USER_WAYS - 1 - w) = w
        BY NmcSizes
    <2> QED
        BY <2>1
<1>2. PICK k \in T : \A j \in T : k <= j
    <2>1. T \in SUBSET Nat
        OBVIOUS
    <2> HIDE DEF T
    <2> QED
        BY <1>1, <2>1, SmallestOf
<1>3. PICK v \in Ways : v = USER_WAYS - 1 - k
    BY <1>2, NmcSizes
<1>4. ~EndsAt(c, v, f[<<v, 0, 0>>])
    BY <1>2, <1>3
<1>5. f[<<v, 0, 0>>] = IF nmcSkippedDirBlk(c, <<v, 0, 0>>) THEN f[NextBlk(<<v, 0, 0>>)] ELSE <<v, 0, 0>>
    BY DirBlkParts DEF Walks, Board
<1>6. nmcSkippedDirBlk(c, <<v, 0, 0>>)
    BY <1>4, <1>5, EndStep
<1>7. CASE v + 1 < USER_WAYS
    <2>1. NextBlk(<<v, 0, 0>>) = <<v + 1, 0, 0>>
        BY <1>7 DEF NextBlk
    <2>2. k - 1 \in Nat /\ k - 1 < k /\ k - 1 < USER_WAYS /\ USER_WAYS - 1 - (k - 1) = v + 1
        BY <1>2, <1>3, <1>7, NmcSizes
    <2>3. k - 1 \notin T
        BY <1>2, <2>2
    <2>4. EndsAt(c, v + 1, f[<<v + 1, 0, 0>>])
        BY <2>2, <2>3
    <2> QED
        BY <1>4, <1>5, <1>6, <1>7, <2>1, <2>4, EndStep
<1>8. CASE ~(v + 1 < USER_WAYS)
    <2>1. NextBlk(<<v, 0, 0>>) = <<0, 1, 0>>
        BY <1>8 DEF NextBlk
    <2>2. f[<<0, 1, 0>>] = <<0, 1, 0>>
        BY DirBlkParts DEF Walks, Board
    <2> QED
        BY <1>4, <1>5, <1>6, <1>8, <2>1, <2>2, EndStep
<1> QED
    BY <1>7, <1>8

\* What nmcUpdateNewMappingLoc returns: the next page of the scan, unless the
\* directory is full.
LEMMA NextLocIs ==
    ASSUME Board, NEW c, NEW l \in Scanned(c), NEW m, m = NextLoc(c, l), m \in Locs
    PROVE  /\ m \in Scanned(c) /\ ScanIndex(l) < ScanIndex(m)
           /\ \A k \in Scanned(c) : ScanIndex(k) <= ScanIndex(l) \/ ScanIndex(m) <= ScanIndex(k)
<1>1. l \in Locs /\ ~nmcSkippedDirBlk(c, l)
    BY DEF Scanned
<1>2. /\ l[1] \in Ways /\ l[1] \in Nat /\ l[1] < USER_WAYS /\ l[2] = 0
      /\ l[3] \in Nat /\ l[3] < PAGES /\ l = <<l[1], 0, l[3]>>
    BY <1>1, LocParts, NmcSizes
<1>3. SUFFICES /\ ~nmcSkippedDirBlk(c, m) /\ ~(ScanIndex(m) <= ScanIndex(l))
               /\ \A k \in Scanned(c) : ScanIndex(k) <= ScanIndex(l) \/ ScanIndex(m) <= ScanIndex(k)
    <2>1. ScanIndex(l) \in Nat /\ ScanIndex(m) \in Nat
        BY <1>1, ScanOrder
    <2> QED
        BY <2>1 DEF Scanned
<1>4. \A k \in Scanned(c) :
          /\ k \in Locs /\ k[1] \in Ways /\ k[1] \in Nat /\ k[3] \in Nat /\ k[3] < PAGES
          /\ ~nmcSkippedDirBlk(c, <<k[1], 0, 0>>)
    <2> SUFFICES ASSUME NEW k \in Scanned(c)
                 PROVE  /\ k \in Locs /\ k[1] \in Ways /\ k[1] \in Nat /\ k[3] \in Nat /\ k[3] < PAGES
                        /\ ~nmcSkippedDirBlk(c, <<k[1], 0, 0>>)
        OBVIOUS
    <2>1. k \in Locs /\ ~nmcSkippedDirBlk(c, k)
        BY DEF Scanned
    <2>2. k[1] \in Ways /\ k[1] \in Nat /\ k[2] = 0 /\ k[3] \in Nat /\ k[3] < PAGES
        BY <2>1, LocParts, NmcSizes
    <2> QED
        BY <2>1, <2>2 DEF nmcSkippedDirBlk
<1>5. CASE l[3] + 1 < PAGES
    <2>1. m = <<l[1], 0, l[3] + 1>>
        BY <1>2, <1>5 DEF NextLoc
    <2>2. m[1] = l[1] /\ m[2] = 0 /\ m[3] = l[3] + 1
        BY <2>1
    <2>3. ~nmcSkippedDirBlk(c, m)
        BY <1>1, <1>2, <2>2 DEF nmcSkippedDirBlk
    <2>4. ~(ScanIndex(m) <= ScanIndex(l))
        BY <1>1, <1>2, <2>2, ScanOrder
    <2>5. ASSUME NEW k \in Scanned(c)
          PROVE  ScanIndex(k) <= ScanIndex(l) \/ ScanIndex(m) <= ScanIndex(k)
        <3>1. k[1] < l[1] \/ (k[1] = l[1] /\ k[3] <= l[3]) \/ m[1] < k[1] \/ (m[1] = k[1] /\ m[3] <= k[3])
            <4>1. \A a, b, p, q \in Nat : a < b \/ (a = b /\ p <= q) \/ b < a \/ (b = a /\ q + 1 <= p)
                OBVIOUS
            <4>2. k[1] \in Nat /\ k[3] \in Nat /\ l[1] \in Nat /\ l[3] \in Nat
                BY <1>2, <1>4
            <4>3. k[1] < l[1] \/ (k[1] = l[1] /\ k[3] <= l[3]) \/ l[1] < k[1] \/ (l[1] = k[1] /\ l[3] + 1 <= k[3])
                BY <4>1, <4>2
            <4> QED
                BY <2>2, <4>3
        <3> QED
            BY <1>1, <1>4, <3>1, ScanOrder
    <2> QED
        BY <2>3, <2>4, <2>5
<1>6. CASE ~(l[3] + 1 < PAGES)
    <2> DEFINE f == CHOOSE g : Walks(g, c)
    <2>1. m = f[NextBlk(l)]
        BY <1>6 DEF NextLoc, NextUsableBlk, Walks, DirBlks
    <2>2. Walks(f, c)
        BY WalkExists
    <2> HIDE DEF f
    <2>3. m[2] = 0
        BY LocParts
    <2>4. CASE ~(l[1] + 1 < USER_WAYS)
        <3>1. NextBlk(l) = <<0, 1, 0>>
            BY <1>2, <2>4 DEF NextBlk
        <3>2. m = <<0, 1, 0>>
            BY <2>1, <2>2, <3>1, DirBlkParts DEF Walks, Board
        <3> QED
            BY <2>3, <3>2
    <2>5. CASE l[1] + 1 < USER_WAYS
        <3>1. NextBlk(l) = <<l[1] + 1, 0, 0>> /\ l[1] + 1 \in Ways
            BY <1>2, <2>5, NmcSizes DEF NextBlk
        <3>2. EndsAt(c, l[1] + 1, m)
            BY <2>1, <2>2, <3>1, WalkEnds
        <3>3. PICK v \in Ways :
                  /\ m = <<v, 0, 0>> /\ l[1] + 1 <= v /\ ~nmcSkippedDirBlk(c, m)
                  /\ \A u \in Ways : l[1] + 1 <= u /\ u < v => nmcSkippedDirBlk(c, <<u, 0, 0>>)
            BY <2>3, <3>2 DEF EndsAt
        <3>4. m[1] = v /\ m[3] = 0 /\ v \in Nat
            BY <3>3, NmcSizes
        <3>5. ~(ScanIndex(m) <= ScanIndex(l))
            BY <1>1, <1>2, <3>3, <3>4, ScanOrder
        <3>6. ASSUME NEW k \in Scanned(c)
              PROVE  ScanIndex(k) <= ScanIndex(l) \/ ScanIndex(m) <= ScanIndex(k)
            <4>1. ~(l[1] + 1 <= k[1] /\ k[1] < v)
                BY <1>4, <3>3
            <4>2. k[1] < l[1] \/ (k[1] = l[1] /\ k[3] <= l[3]) \/ m[1] < k[1] \/ (m[1] = k[1] /\ m[3] <= k[3])
                <5>1. k[1] \in Nat /\ k[3] \in Nat /\ k[3] < PAGES /\ l[1] \in Nat /\ l[3] \in Nat /\ ~(l[3] + 1 < PAGES)
                    BY <1>2, <1>4, <1>6
                <5>2. k[1] <= l[1] \/ v <= k[1]
                    BY <3>4, <4>1, <5>1
                <5>3. k[3] <= l[3] /\ 0 <= k[3]
                    BY <5>1, NmcSizes
                <5>4. k[1] <= l[1] => k[1] < l[1] \/ k[1] = l[1]
                    BY <5>1
                <5>5. v <= k[1] => v < k[1] \/ v = k[1]
                    BY <3>4, <5>1
                <5> QED
                    BY <3>4, <5>2, <5>3, <5>4, <5>5
            <4> QED
                BY <1>1, <1>4, <4>2, ScanOrder
        <3> QED
            BY <3>3, <3>5, <3>6
    <2> QED
        BY <2>4, <2>5
<1> QED
    BY <1>5, <1>6

-----------------------------------------------------------------------------
(* What the steps do to types, names and the way.                          *)

Plain == TypeInv /\ NameInv /\ WayInv

\* InitCurrentBlockOfDieMap takes a block of those that are free.
LEMMA LeastBlk ==
    ASSUME NEW S \in SUBSET Blks, Cardinality(S) > 1
    PROVE  Min(S) \in S
<1>1. S # {}
    BY FS_EmptySet
<1>2. S \in SUBSET Nat
    BY NmcSizes
<1>3. \E x \in S : \A y \in S : x <= y
    BY <1>1, <1>2, SmallestOf
<1> QED
    BY <1>3 DEF Min

\* The memory before a start, whether of a new drive or after a power failure.
BlankState ==
    /\ Blank(pending, received, open, limit, nmcTable, newLoc, files, target, targetCh,
             targetWay, interleaving, pagesUsed, current, page, free, handedOut, fileBlks)
    /\ Board
    /\ phase = "off" /\ flushCh = 0 /\ starts \in 0 .. MaxStarts
    /\ dirs \in [Chs -> [Locs -> Written \cup {Erased, Torn}]]
    /\ \A n \in DOMAIN answered : answered[n] \in Answers

\* The memory before a start has the right types and nothing open.
LEMMA BlankMemory == BlankState => Plain
<1> SUFFICES ASSUME BlankState PROVE Plain
    OBVIOUS
<1> USE DEF BlankState
<1>1. ZeroLoc \in Locs /\ 0 \in Chs /\ 0 \in Blks /\ 0 \in 0 .. USER_WAYS
      /\ 0 \in 0 .. PAGES - 1 /\ 0 \in 0 .. PAGES /\ 0 \in 0 .. USER_CHANNELS
      /\ 0 \in 0 .. MaxPages
    BY LocIs, NmcSizes, NmcAssumption DEF ZeroLoc
<1>2. NoFile \in Tables
    BY DEF NoFile, Tables
<1>3. NmcTypeOK
    <2>1. \A c \in Chs, l \in Locs : dirs[c][l] \in {Erased, Torn} \/ dirs[c][l] \in Tables
        BY DEF Written, Tables
    <2>2. pending \in [title : Names, nblks : Limits] \cup {NoRequest}
        BY DEF Blank
    <2>3. DOMAIN files = {}
        BY DEF Blank
    <2>4. target \in Chs \X (0 .. USER_WAYS)
        BY <1>1 DEF Blank
    <2>5. nmcTable \in [Chs -> Tables] /\ newLoc \in [Chs -> Locs]
        BY <1>1, <1>2 DEF Blank
    <2>6. current \in [Dies -> Blks] /\ page \in [Dies -> 0 .. PAGES] /\ free \in [Dies -> SUBSET Blks]
        BY <1>1 DEF Blank
    <2>7. /\ {received, open, interleaving} \subseteq BOOLEAN /\ limit \in Limits \cup {0}
          /\ targetCh \in Chs /\ targetWay \in 0 .. USER_WAYS /\ pagesUsed \in 0 .. PAGES - 1
          /\ handedOut \in 0 .. MaxPages /\ fileBlks \subseteq Dies \X Blks
        BY <1>1 DEF Blank
    <2> QED
        BY <1>1, <2>1, <2>2, <2>3, <2>4, <2>5, <2>6, <2>7 DEF NmcTypeOK
<1>4. TypeInv
    BY <1>3 DEF TypeInv
<1>5. NameInv /\ WayInv
    <2>1. received = FALSE /\ open = FALSE /\ targetWay = 0
        BY DEF Blank
    <2> QED
        BY <2>1, NmcSizes DEF NameInv, WayInv
<1> QED
    BY <1>4, <1>5 DEF Plain

\* The same after a step.
LEMMA BlankMemoryNext == BlankState' => Plain'
    BY BlankMemory, PTL

\* A drive from the factory.
LEMMA PlainInit ==
    ASSUME Board, NmcInit
    PROVE  Plain
<1>1. 0 \in 0 .. MaxStarts
    BY NmcAssumption
<1> QED
    BY <1>1, BlankMemory DEF NmcInit, BlankState

\* A power failure clears the memory; the directories keep tables or torn pages.
LEMMA PlainPowerOff ==
    ASSUME Board, Plain, PrefixInv, NmcPowerOff
    PROVE  Plain'
<1>1. dirs' \in [Chs -> [Locs -> Written \cup {Erased, Torn}]]
    BY DEF Plain, TypeInv, NmcPowerOff
<1>2. ASSUME NEW n \in DOMAIN answered' PROVE answered'[n] \in Answers
    <2>1. n \in DOMAIN answered /\ answered'[n] = [answered[n] EXCEPT !.old = TRUE]
        BY DEF NmcPowerOff
    <2>2. answered[n] \in Answers
        BY <2>1 DEF Plain, TypeInv
    <2> QED
        BY <2>1, <2>2 DEF Answers
<1>3. starts' \in 0 .. MaxStarts
    BY DEF Plain, TypeInv, NmcTypeOK, NmcPowerOff
<1> QED
    BY <1>1, <1>2, <1>3, BlankMemoryNext DEF NmcPowerOff, BlankState

\* The start takes the file table and the next places from the scan.
LEMMA PlainPowerOn ==
    ASSUME Board, Plain, PrefixInv, NmcPowerOn
    PROVE  Plain'
<1> USE DEF Plain, TypeInv, NmcTypeOK
<1> DEFINE unused == [d \in Dies |-> Blks \ UsedBlocks(d[1], d[2])]
           recovers == /\ \A c \in Chs : EmptyPages(c) # {}
                       /\ \A d \in Dies : Cardinality(unused[d]) > 1
<1>1. /\ phase = "off" /\ phase' \in {"idle", "stopped"} /\ starts' = starts + 1 /\ starts < MaxStarts
      /\ targetCh' = 1 % USER_CHANNELS
      /\ UNCHANGED <<dirs, flushCh, pending, received, open, limit, nmcTable, target, targetWay,
                     interleaving, pagesUsed, page, handedOut, fileBlks, answered>>
    BY DEF NmcPowerOn, hostVars, fileVars
<1>2. \/ /\ recovers
         /\ newLoc' = [c \in Chs |-> FirstEmpty(c)]
         /\ files' = RecoveredFiles
         /\ current' = [d \in Dies |-> Min(unused[d])]
         /\ free' = [d \in Dies |-> unused[d] \ {Min(unused[d])}]
      \/ UNCHANGED <<newLoc, files, current, free>>
    BY DEF NmcPowerOn
<1>3. newLoc' \in [Chs -> Locs]
    <2>1. recovers => \A c \in Chs : FirstEmpty(c) \in Locs
        BY FirstEmptyIs
    <2>2. newLoc \in [Chs -> Locs]
        OBVIOUS
    <2>3. \/ recovers /\ newLoc' = [c \in Chs |-> FirstEmpty(c)]
          \/ newLoc' = newLoc
        BY <1>2
    <2> HIDE DEF unused, recovers
    <2> QED
        BY ONLY <2>1, <2>2, <2>3
<1>4. DOMAIN files' \subseteq Names /\ \A n \in DOMAIN files' : files'[n] \in [Chs -> Locs]
    <2>1. RecoveredNames \subseteq Names
        <3>1. \A c \in Chs : \A l \in UsedPages(c) : dirs[c][l].title \in Names
            BY DEF UsedPages, Scanned, Written
        <3> QED
            BY <3>1 DEF RecoveredNames
    <2>2. DOMAIN RecoveredFiles = RecoveredNames
        BY DEF RecoveredFiles
    <2>3. \A n \in DOMAIN RecoveredFiles : RecoveredFiles[n] \in [Chs -> Locs]
        BY NewestIs DEF RecoveredFiles
    <2> QED
        BY <1>2, <2>1, <2>2, <2>3
<1>5. current' \in [Dies -> Blks] /\ free' \in [Dies -> SUBSET Blks]
    <2>1. ASSUME recovers, NEW d \in Dies
          PROVE  Min(unused[d]) \in Blks /\ unused[d] \in SUBSET Blks
        <3>1. unused[d] \in SUBSET Blks /\ Cardinality(unused[d]) > 1
            BY <2>1
        <3> HIDE DEF unused
        <3> QED
            BY <3>1, LeastBlk
    <2> HIDE DEF unused
    <2> QED
        BY <1>2, <2>1
<1>6. targetCh' \in Chs
    BY <1>1, NmcSizes
<1>7. starts' \in 0 .. MaxStarts
    <2>1. starts \in 0 .. MaxStarts
        OBVIOUS
    <2> QED
        BY <1>1, <2>1, NmcAssumption
<1>8. TypeInv'
    BY <1>1, <1>3, <1>4, <1>5, <1>6, <1>7
<1>9. NameInv' /\ WayInv'
    BY <1>1, NmcSizes DEF NameInv, WayInv
<1> QED
    BY <1>8, <1>9

\* Where the next page goes.
LEMMA PlainTarget ==
    ASSUME Board, Plain, target \in Dies, FindDieForFreeSliceAllocation
    PROVE  /\ target' \in Chs \X (0 .. USER_WAYS) /\ targetCh' \in Chs
           /\ targetWay' \in 0 .. USER_WAYS /\ pagesUsed' \in 0 .. PAGES - 1
           /\ targetWay' = USER_WAYS => target'[2] = USER_WAYS \/ (targetCh' = 0 /\ pagesUsed' = 0)
<1>1. /\ targetCh \in Nat /\ targetCh < USER_CHANNELS
      /\ targetWay \in Nat /\ targetWay <= USER_WAYS
      /\ pagesUsed \in Nat /\ pagesUsed < PAGES
      /\ target[2] \in Nat /\ target[2] < USER_WAYS
    BY NmcSizes DEF Plain, TypeInv, NmcTypeOK, Dies
<1>2. /\ target' = <<targetCh, targetWay>>
      /\ targetCh' = (targetCh + 1) % USER_CHANNELS
    BY DEF FindDieForFreeSliceAllocation
<1>3. targetWay = USER_WAYS => targetCh = 0 /\ pagesUsed = 0
    BY <1>1 DEF Plain, WayInv
<1>4. target' \in Chs \X (0 .. USER_WAYS) /\ target'[2] = targetWay
    BY <1>1, <1>2, NmcSizes
<1>5. targetCh' \in Chs
    BY <1>1, <1>2, NmcSizes
<1>6. CASE targetCh # USER_CHANNELS - 1
    <2>1. UNCHANGED <<targetWay, pagesUsed>>
        BY <1>6 DEF FindDieForFreeSliceAllocation
    <2> QED
        BY <1>1, <1>4, <1>5, <2>1, NmcSizes
<1>7. CASE targetCh = USER_CHANNELS - 1 /\ ~interleaving
    <2>1. targetWay' = (targetWay + 1) % USER_WAYS /\ UNCHANGED pagesUsed
        BY <1>7 DEF FindDieForFreeSliceAllocation
    <2>2. targetWay' \in Nat /\ targetWay' < USER_WAYS
        BY <1>1, <2>1, NmcSizes
    <2> QED
        BY <1>1, <1>4, <1>5, <2>1, <2>2, NmcSizes
<1>8. CASE targetCh = USER_CHANNELS - 1 /\ interleaving
    <2>1. /\ pagesUsed' = (pagesUsed + 1) % PAGES
          /\ targetWay' = IF pagesUsed + 1 = PAGES THEN targetWay + 1 ELSE targetWay
        BY <1>8 DEF FindDieForFreeSliceAllocation
    <2>2. targetCh' = 0
        <3>1. USER_CHANNELS % USER_CHANNELS = 0
            BY NmcSizes
        <3> QED
            BY <1>1, <1>2, <1>8, <3>1, NmcSizes
    <2>3. CASE pagesUsed + 1 = PAGES
        <3>1. PAGES % PAGES = 0
            BY NmcSizes
        <3>2. pagesUsed' = 0
            BY <2>1, <2>3, <3>1
        <3>3. targetWay # USER_WAYS
            BY <1>3, <2>3 DEF Board
        <3>4. targetWay' \in Nat /\ targetWay' <= USER_WAYS
            BY <1>1, <2>1, <2>3, <3>3, NmcSizes
        <3> QED
            BY <1>4, <1>5, <2>2, <3>2, <3>4, NmcSizes
    <2>4. CASE pagesUsed + 1 # PAGES
        <3>1. pagesUsed' \in 0 .. PAGES - 1 /\ targetWay' = targetWay
            BY <1>1, <2>1, <2>4, NmcSizes
        <3> QED
            BY <1>1, <1>4, <1>5, <3>1, NmcSizes
    <2> QED
        BY <2>3, <2>4
<1> QED
    BY <1>6, <1>7, <1>8

\* A page is handed out; a new block is recorded in the table of its channel.
LEMMA PlainFind ==
    ASSUME Board, Plain, NEW ofFile \in BOOLEAN, FindFreeVirtualSlice(ofFile)
    PROVE  /\ Plain'
           /\ phase = "idle" /\ phase' \in {"idle", "stopped"}
           /\ UNCHANGED <<dirs, files, newLoc, answered>>
           /\ \A d \in Dies : /\ free'[d] \subseteq free[d]
                              /\ current'[d] \in {current[d]} \cup free[d]
<1> USE DEF Plain
<1>1. PICK d \in Dies : d = target
    BY DEF FindFreeVirtualSlice
<1> DEFINE full == page[d] = PAGES
           b == IF full THEN Min(free[d]) ELSE current[d]
<1>2. /\ phase = "idle" /\ handedOut < MaxPages /\ handedOut' = handedOut + 1
      /\ full => Cardinality(free[d]) > 1
      /\ phase' = IF full /\ BeyondLimit(d) THEN "stopped" ELSE phase
      /\ current' = [current EXCEPT ![d] = b]
      /\ free' = [free EXCEPT ![d] = free[d] \ {b}]
      /\ page' = [page EXCEPT ![d] = IF full THEN 1 ELSE page[d] + 1]
      /\ nmcTable' = IF full /\ open THEN nmcRecordBlock(d, b) ELSE nmcTable
      /\ fileBlks' = IF ofFile THEN fileBlks \cup {<<d, b>>} ELSE fileBlks
      /\ FindDieForFreeSliceAllocation
      /\ UNCHANGED <<dirs, starts, flushCh, pending, received, open, limit, newLoc, files,
                     interleaving, answered>>
    BY <1>1 DEF FindFreeVirtualSlice, Idle, hostVars
<1>3. free \in [Dies -> SUBSET Blks] /\ current \in [Dies -> Blks] /\ page \in [Dies -> 0 .. PAGES]
    BY DEF TypeInv, NmcTypeOK
<1>4. b \in Blks /\ b \in {current[d]} \cup free[d]
    <2>1. full => Min(free[d]) \in free[d]
        BY <1>2, <1>3, LeastBlk
    <2> QED
        BY <1>3, <2>1
<1>5. /\ current' \in [Dies -> Blks] /\ free' \in [Dies -> SUBSET Blks]
      /\ \A e \in Dies : free'[e] \subseteq free[e] /\ current'[e] \in {current[e]} \cup free[e]
    <2> HIDE DEF b, full
    <2> QED
        BY <1>2, <1>3, <1>4
<1>6. page' \in [Dies -> 0 .. PAGES]
    <2>1. (IF full THEN 1 ELSE page[d] + 1) \in 0 .. PAGES
        BY <1>3, NmcSizes
    <2> HIDE DEF full
    <2> QED
        BY <1>2, <1>3, <2>1
<1>7. /\ nmcTable' \in [Chs -> Tables]
      /\ \A c \in Chs : nmcTable'[c].title = nmcTable[c].title
    <2>1. nmcTable \in [Chs -> Tables] /\ d[1] \in Chs /\ <<d[2], b>> \in Ways \X Blks
        BY <1>4 DEF Dies, TypeInv, NmcTypeOK
    <2> HIDE DEF b, full
    <2>2. nmcTable[d[1]] \in Tables
        BY <2>1
    <2>3. PICK c0 \in Chs, x \in Ways \X Blks : c0 = d[1] /\ x = <<d[2], b>>
        BY <2>1
    <2> DEFINE q == Append(nmcTable[c0].list, x)
               r == [nmcTable[c0] EXCEPT !.list = q]
    <2>4. q \in Seq(Ways \X Blks)
        <3>1. nmcTable[c0].list \in Seq(Ways \X Blks)
            BY <2>2, <2>3 DEF Tables
        <3> QED
            BY <2>3, <3>1, AppendProperties
    <2>5. r \in Tables /\ r.title = nmcTable[c0].title
        <3> HIDE DEF q
        <3> QED
            BY <2>2, <2>3, <2>4 DEF Tables
    <2>6. nmcRecordBlock(d, b) = [nmcTable EXCEPT ![c0] = r]
        BY <2>3 DEF nmcRecordBlock
    <2> HIDE DEF q, r
    <2>7. /\ nmcRecordBlock(d, b) \in [Chs -> Tables]
          /\ \A c \in Chs : nmcRecordBlock(d, b)[c].title = nmcTable[c].title
        BY <2>1, <2>5, <2>6
    <2> QED
        BY <1>2, <2>1, <2>7
<1>8. fileBlks' \subseteq Dies \X Blks
    BY <1>2, <1>4 DEF TypeInv, NmcTypeOK
<1>9. handedOut' \in 0 .. MaxPages
    <2>1. handedOut \in 0 .. MaxPages
        BY DEF TypeInv, NmcTypeOK
    <2> QED
        BY <1>2, <2>1, NmcAssumption
<1>10. phase' \in {"idle", "stopped"}
    BY <1>2
<1>11. /\ target' \in Chs \X (0 .. USER_WAYS) /\ targetCh' \in Chs
       /\ targetWay' \in 0 .. USER_WAYS /\ pagesUsed' \in 0 .. PAGES - 1
       /\ targetWay' = USER_WAYS => target'[2] = USER_WAYS \/ (targetCh' = 0 /\ pagesUsed' = 0)
    BY <1>1, <1>2, PlainTarget
<1> HIDE DEF b, full
<1>12. TypeInv'
    BY <1>2, <1>5, <1>6, <1>7, <1>8, <1>9, <1>10, <1>11 DEF TypeInv, NmcTypeOK
<1>13. NameInv' /\ WayInv'
    BY <1>2, <1>7, <1>10, <1>11, NmcSizes DEF NameInv, WayInv
<1> QED
    BY <1>2, <1>5, <1>10, <1>12, <1>13

\* NMC_ALLOC registers a request of a known name.
LEMMA PlainAlloc ==
    ASSUME Plain, NEW n \in Names, NEW k \in Limits, Alloc(n, k)
    PROVE  /\ Plain'
           /\ phase = "idle" /\ UNCHANGED <<phase, dirs, files, newLoc, answered, free, current>>
<1>1. /\ phase = "idle" /\ pending' = [title |-> n, nblks |-> k]
      /\ UNCHANGED <<dirs, starts, phase, flushCh, received, open, limit, nmcTable, newLoc, files,
                     target, targetCh, targetWay, interleaving, pagesUsed, current, page, free,
                     handedOut, fileBlks, answered>>
    BY DEF Alloc, Idle, flushVars, fileVars, allocVars
<1>2. TypeInv'
    BY <1>1 DEF Plain, TypeInv, NmcTypeOK
<1>3. NameInv' /\ WayInv'
    BY <1>1 DEF Plain, NameInv, WayInv
<1> QED
    BY <1>1, <1>2, <1>3 DEF Plain

\* The name has come.
LEMMA PlainDma ==
    ASSUME Plain, DmaDone
    PROVE  /\ Plain'
           /\ phase = "idle" /\ UNCHANGED <<phase, dirs, files, newLoc, answered, free, current>>
<1>1. /\ phase = "idle" /\ pending # NoRequest /\ received' = TRUE
      /\ UNCHANGED <<dirs, starts, phase, flushCh, pending, open, limit, nmcTable, newLoc, files,
                     target, targetCh, targetWay, interleaving, pagesUsed, current, page, free,
                     handedOut, fileBlks, answered>>
    BY DEF DmaDone, Idle, flushVars, fileVars, allocVars
<1>2. TypeInv'
    BY <1>1 DEF Plain, TypeInv, NmcTypeOK
<1>3. pending \in [title : Names, nblks : Limits]
    BY <1>1 DEF Plain, TypeInv, NmcTypeOK
<1>4. NameInv' /\ WayInv'
    BY <1>1, <1>3 DEF Plain, NameInv, WayInv
<1> QED
    BY <1>1, <1>2, <1>4 DEF Plain

\* The request opens a file, whose tables take its name on every channel.
LEMMA PlainScheduling ==
    ASSUME Plain, nmcReqScheduling
    PROVE  /\ Plain'
           /\ phase = "idle" /\ phase' \in {"idle", "stopped"}
           /\ UNCHANGED <<dirs, files, newLoc, answered, free, current>>
<1>1. /\ phase = "idle" /\ received
      /\ pending' = NoRequest /\ received' = FALSE
      /\ UNCHANGED <<dirs, starts, flushCh, newLoc, files, target, targetCh, targetWay, current,
                     page, free, handedOut, fileBlks, answered>>
    BY DEF nmcReqScheduling, Idle
<1>2. pending.title \in Names /\ pending.nblks \in Limits \cup {0}
    <2>1. pending \in [title : Names, nblks : Limits] \/ pending = [title |-> "", nblks |-> 0]
        BY DEF Plain, TypeInv, NmcTypeOK, NoRequest
    <2>2. pending.title \in Names
        BY <1>1 DEF Plain, NameInv
    <2>3. CASE pending \in [title : Names, nblks : Limits]
        BY <2>3
    <2>4. CASE pending = [title |-> "", nblks |-> 0]
        BY <2>2, <2>4
    <2> QED
        BY <2>1, <2>3, <2>4
<1>3. CASE open
    <2>1. UNCHANGED <<phase, open, limit, nmcTable, interleaving, pagesUsed>>
        BY <1>3 DEF nmcReqScheduling
    <2>2. TypeInv'
        BY <1>1, <2>1 DEF Plain, TypeInv, NmcTypeOK
    <2>3. NameInv' /\ WayInv'
        BY <1>1, <2>1 DEF Plain, NameInv, WayInv
    <2> QED
        BY <1>1, <2>1, <2>2, <2>3 DEF Plain
<1>4. CASE ~open
    <2> DEFINE empty == \A d \in Dies : page[d] = 0
               T(c) == [title |-> pending.title,
                        list |-> IF empty THEN <<<<0, current[<<c, 0>>]>>>> ELSE <<>>]
    <2>1. /\ open' = TRUE /\ limit' = pending.nblks
          /\ interleaving' = TRUE /\ pagesUsed' = 0
          /\ phase' = IF empty THEN phase ELSE "stopped"
          /\ nmcTable' = [c \in Chs |-> T(c)]
        BY <1>4 DEF nmcReqScheduling, nmcNewMapping
    <2>2. ASSUME NEW c \in Chs
          PROVE  T(c) \in Tables /\ T(c).title = pending.title
        <3>1. 0 \in Ways /\ <<c, 0>> \in Dies
            BY NmcSizes DEF Dies
        <3>2. current[<<c, 0>>] \in Blks
            BY <3>1 DEF Plain, TypeInv, NmcTypeOK
        <3>3. PICK x \in Ways \X Blks : x = <<0, current[<<c, 0>>]>>
            BY <3>1, <3>2
        <3>4. <<x>> \in Seq(Ways \X Blks) /\ <<>> \in Seq(Ways \X Blks)
            OBVIOUS
        <3> HIDE DEF empty
        <3>5. (IF empty THEN <<<<0, current[<<c, 0>>]>>>> ELSE <<>>) \in Seq(Ways \X Blks)
            BY <3>3, <3>4
        <3> QED
            BY <1>2, <3>5 DEF Tables
    <2> HIDE DEF T
    <2>3. nmcTable' \in [Chs -> Tables] /\ \A c \in Chs : nmcTable'[c].title = pending.title
        BY <2>1, <2>2
    <2>4. 0 \in 0 .. PAGES - 1 /\ 0 \in Chs
        BY NmcSizes
    <2> HIDE DEF empty
    <2>5. phase' \in {"idle", "stopped"}
        BY <1>1, <2>1
    <2>6. TypeInv'
        BY <1>1, <1>2, <2>1, <2>3, <2>4, <2>5 DEF Plain, TypeInv, NmcTypeOK
    <2>7. NameInv' /\ WayInv'
        BY <1>1, <1>2, <2>1, <2>3, <2>4, <2>5 DEF Plain, NameInv, WayInv
    <2> QED
        BY <1>1, <2>5, <2>6, <2>7 DEF Plain
<1> QED
    BY <1>3, <1>4

\* NMC_FLUSH begins with an open file.
LEMMA PlainFlush ==
    ASSUME Plain, Flush
    PROVE  Plain'
<1>1. /\ phase = "idle" /\ open /\ phase' = "flushing" /\ flushCh' = 0
      /\ answered' = [n \in DOMAIN answered \ {nmcTable[0].title} |-> answered[n]]
      /\ UNCHANGED <<dirs, starts, pending, received, open, limit, nmcTable, newLoc, files, target,
                     targetCh, targetWay, interleaving, pagesUsed, current, page, free, handedOut,
                     fileBlks>>
    BY DEF Flush, Idle, hostVars, fileVars, allocVars
<1>2. 0 \in 0 .. USER_CHANNELS
    BY NmcSizes
<1>3. \A n \in DOMAIN answered' : answered'[n] \in Answers
    BY <1>1 DEF Plain, TypeInv
<1>4. TypeInv'
    BY <1>1, <1>2, <1>3 DEF Plain, TypeInv, NmcTypeOK
<1>5. NameInv' /\ WayInv'
    BY <1>1 DEF Plain, NameInv, WayInv
<1> QED
    BY <1>4, <1>5 DEF Plain

\* What a flush step writes.
LEMMA FlushStep ==
    ASSUME Plain, nmcFlushMapping
    PROVE  LET c == flushCh
               l == newLoc[c]
               next == NextLoc(c, l)
           IN  /\ phase = "flushing" /\ c \in Chs /\ l \in Locs
               /\ nmcTable[c] \in Written /\ nmcTable[c].title = nmcTable[0].title
               /\ dirs' = [dirs EXCEPT ![c][l] = nmcTable[c]]
               /\ files' = nmcFileTableUpdate(nmcTable[0].title, c, l)
               /\ \/ next \in Locs /\ newLoc' = [newLoc EXCEPT ![c] = next] /\ phase' = phase
                  \/ phase' = "stopped" /\ newLoc' = newLoc
               /\ flushCh' = flushCh + 1
               /\ UNCHANGED <<starts, pending, received, open, limit, nmcTable, target, targetCh,
                              targetWay, interleaving, pagesUsed, current, page, free, handedOut,
                              fileBlks, answered>>
<1> DEFINE c == flushCh
           l == newLoc[c]
           next == NextLoc(c, l)
<1>1. phase = "flushing" /\ c \in Chs
    BY NmcSizes DEF nmcFlushMapping, Plain, TypeInv, NmcTypeOK
<1>2. l \in Locs
    BY <1>1 DEF Plain, TypeInv, NmcTypeOK
<1>3. nmcTable[c] \in Written /\ nmcTable[c].title = nmcTable[0].title
    BY <1>1 DEF Plain, TypeInv, NmcTypeOK, NameInv, Tables, Written
<1>4. /\ dirs' = [dirs EXCEPT ![c][l] = nmcTable[c]]
      /\ files' = nmcFileTableUpdate(nmcTable[0].title, c, l)
      /\ \/ next \in Locs /\ newLoc' = [newLoc EXCEPT ![c] = next] /\ phase' = phase
         \/ phase' = "stopped" /\ newLoc' = newLoc
      /\ flushCh' = flushCh + 1
    BY <1>3 DEF nmcFlushMapping
<1>5. UNCHANGED <<starts, pending, received, open, limit, nmcTable, target, targetCh, targetWay,
                  interleaving, pagesUsed, current, page, free, handedOut, fileBlks, answered>>
    BY DEF nmcFlushMapping, hostVars, fileVars, allocVars
<1> QED
    BY <1>1, <1>2, <1>3, <1>4, <1>5

\* It programs a table, which leads a name of the file table to a page.
LEMMA PlainFlushStep ==
    ASSUME Board, Plain, nmcFlushMapping
    PROVE  Plain'
<1>1. PICK c \in Chs : c = flushCh
    BY FlushStep
<1>2. PICK l \in Locs : l = newLoc[c]
    BY <1>1, FlushStep
<1>3. PICK n \in Names : n = nmcTable[0].title
    BY FlushStep DEF Written
<1>4. /\ nmcTable[c] \in Written
      /\ dirs' = [dirs EXCEPT ![c][l] = nmcTable[c]]
      /\ files' = nmcFileTableUpdate(n, c, l)
      /\ \/ NextLoc(c, l) \in Locs /\ newLoc' = [newLoc EXCEPT ![c] = NextLoc(c, l)] /\ phase' = phase
         \/ phase' = "stopped" /\ newLoc' = newLoc
      /\ flushCh' = c + 1
      /\ UNCHANGED <<starts, pending, received, open, limit, nmcTable, target, targetCh, targetWay,
                     interleaving, pagesUsed, current, page, free, handedOut, fileBlks, answered>>
    BY <1>1, <1>2, <1>3, FlushStep
<1>5. dirs' \in [Chs -> [Locs -> Written \cup {Erased, Torn}]]
    BY <1>4 DEF Plain, TypeInv
<1>6. \A d \in Chs, m \in Locs : dirs'[d][m] \in {Erased, Torn} \/ dirs'[d][m] \in Tables
    BY <1>5 DEF Written, Tables
<1>7. DOMAIN files' \subseteq Names /\ \A k \in DOMAIN files' : files'[k] \in [Chs -> Locs]
    <2>1. DOMAIN files \subseteq Names /\ \A k \in DOMAIN files : files[k] \in [Chs -> Locs]
        BY DEF Plain, TypeInv, NmcTypeOK
    <2>2. ZeroLoc \in Locs
        BY LocIs, NmcSizes DEF ZeroLoc
    <2>3. DOMAIN files' = DOMAIN files \cup {n}
        BY <1>4 DEF nmcFileTableUpdate
    <2>4. ASSUME NEW k \in DOMAIN files \cup {n} PROVE files'[k] \in [Chs -> Locs]
        <3> DEFINE old == IF k \in DOMAIN files THEN files[k] ELSE [d \in Chs |-> ZeroLoc]
        <3>1. old \in [Chs -> Locs]
            BY <2>1, <2>2
        <3>2. files'[k] = [old EXCEPT ![c] = IF k = n THEN l ELSE old[c]]
            BY <1>4 DEF nmcFileTableUpdate
        <3> HIDE DEF old
        <3> QED
            BY <3>1, <3>2
    <2> QED
        BY <2>1, <2>3, <2>4
<1>8. newLoc' \in [Chs -> Locs] /\ phase' \in {"flushing", "stopped"}
    <2>1. newLoc \in [Chs -> Locs]
        BY DEF Plain, TypeInv, NmcTypeOK
    <2>2. phase = "flushing"
        BY FlushStep
    <2> QED
        BY <1>4, <2>1, <2>2
<1>9. flushCh' \in 0 .. USER_CHANNELS
    BY <1>4, NmcSizes
<1>10. TypeInv'
    BY <1>4, <1>5, <1>6, <1>7, <1>8, <1>9 DEF Plain, TypeInv, NmcTypeOK
<1>11. NameInv' /\ WayInv'
    BY <1>4, <1>8, FlushStep DEF Plain, NameInv, WayInv
<1> QED
    BY <1>10, <1>11 DEF Plain

\* It ends with no file open.
LEMMA PlainClose ==
    ASSUME Plain, Close
    PROVE  Plain'
<1>1. /\ phase = "flushing" /\ phase' = "idle" /\ flushCh' = 0
      /\ open' = FALSE /\ limit' = 0 /\ nmcTable' = [c \in Chs |-> NoFile]
      /\ interleaving' = FALSE /\ pagesUsed' = 0 /\ fileBlks' = {}
      /\ answered' = [n \in DOMAIN answered \cup {nmcTable[0].title} |->
                          IF n = nmcTable[0].title
                          THEN [blks |-> fileBlks, table |-> nmcTable, old |-> FALSE]
                          ELSE answered[n]]
      /\ UNCHANGED <<dirs, starts, pending, received, newLoc, files, target, targetCh, targetWay,
                     current, page, free, handedOut>>
    BY DEF Close, hostVars
<1>2. 0 \in 0 .. USER_CHANNELS /\ 0 \in 0 .. PAGES - 1
    BY NmcSizes
<1>3. \A n \in DOMAIN answered' : answered'[n] \in Answers
    <2>1. [blks |-> fileBlks, table |-> nmcTable, old |-> FALSE] \in Answers
        BY DEF Plain, TypeInv, NmcTypeOK, Answers
    <2>2. ASSUME NEW n \in DOMAIN answered' PROVE answered'[n] \in Answers
        BY <1>1, <2>1 DEF Plain, TypeInv
    <2> QED
        BY <2>2
<1>4. nmcTable' \in [Chs -> Tables]
    <2>1. NoFile \in Tables
        BY DEF NoFile, Tables
    <2> QED
        BY <1>1, <2>1
<1>5. TypeInv'
    BY <1>1, <1>2, <1>3, <1>4 DEF Plain, TypeInv, NmcTypeOK
<1>6. NameInv' /\ WayInv'
    BY <1>1 DEF Plain, NameInv, WayInv
<1> QED
    BY <1>5, <1>6 DEF Plain

-----------------------------------------------------------------------------
(* What the steps leave on the flash.                                      *)

OnFlash == PrefixInv /\ PlaceInv /\ AnsweredInv

\* An empty directory.
LEMMA OnFlashInit ==
    ASSUME NmcInit
    PROVE  OnFlash
<1>1. \A c \in Chs, l \in Locs : dirs[c][l] = Erased
    BY DEF NmcInit
<1>2. PrefixInv
    BY <1>1 DEF PrefixInv, Scanned
<1> QED
    BY <1>2 DEF NmcInit, OnFlash, PlaceInv, AnsweredInv

\* What does not write, and does not begin or end a flush.
LEMMA FlashUntouched ==
    ASSUME OnFlash, UNCHANGED <<dirs, files, newLoc, answered>>,
           phase' \in {"idle", "stopped"}, phase = "idle"
    PROVE  OnFlash'
<1>1. PrefixInv'
    BY DEF OnFlash, PrefixInv, Scanned
<1>2. RecoveredFiles' = RecoveredFiles /\ \A c \in Chs : EmptyPages(c)' = EmptyPages(c)
    BY DEF RecoveredFiles, RecoveredNames, Newest, UsedPages, EmptyPages
<1>3. PlaceInv'
    BY <1>2 DEF OnFlash, PlaceInv, IsFirstEmpty
<1>4. AnsweredInv'
    BY DEF OnFlash, AnsweredInv, Leads, IsLast, WrittenPages
<1> QED
    BY <1>1, <1>3, <1>4 DEF OnFlash

\* A start takes the file table and the next places from the scan.
LEMMA OnFlashPowerOn ==
    ASSUME Board, OnFlash, NmcPowerOn
    PROVE  OnFlash'
<1>1. /\ phase' \in {"idle", "stopped"} /\ UNCHANGED <<dirs, answered>>
      /\ phase' = "idle" =>
            /\ \A c \in Chs : EmptyPages(c) # {}
            /\ newLoc' = [c \in Chs |-> FirstEmpty(c)]
            /\ files' = RecoveredFiles
    BY DEF NmcPowerOn
<1>2. PrefixInv'
    BY <1>1 DEF OnFlash, PrefixInv, Scanned
<1>3. RecoveredFiles' = RecoveredFiles /\ \A c \in Chs : EmptyPages(c)' = EmptyPages(c)
    BY <1>1 DEF RecoveredFiles, RecoveredNames, Newest, UsedPages, EmptyPages
<1>4. PlaceInv'
    <2>1. \A c \in Chs : EmptyPages(c) # {} => IsFirstEmpty(c, FirstEmpty(c))
        BY FirstEmptyIs
    <2> QED
        BY <1>1, <1>3, <2>1 DEF PlaceInv, IsFirstEmpty
<1>5. AnsweredInv'
    BY <1>1 DEF OnFlash, AnsweredInv, Leads, IsLast, WrittenPages
<1> QED
    BY <1>2, <1>4, <1>5 DEF OnFlash

Programs(c, l, x) == dirs' = [dirs EXCEPT ![c][l] = x]

\* A page not yet programmed becomes x: nothing before it on the channel is empty,
\* and nothing behind it is written.
LEMMA PrefixGrows ==
    ASSUME Board, TypeInv, PrefixInv, NEW c \in Chs, NEW l, IsFirstEmpty(c, l),
           NEW x, x # Erased, Programs(c, l, x)
    PROVE  /\ PrefixInv'
           /\ l \in Scanned(c) /\ dirs[c][l] = Erased /\ dirs'[c][l] = x
           /\ \A m \in Locs : m # l => dirs'[c][m] = dirs[c][m]
           /\ \A d \in Chs : d # c => dirs'[d] = dirs[d]
           /\ \A m \in WrittenPages(c) : ScanIndex(m) <= ScanIndex(l)
<1>1. l \in Scanned(c) /\ dirs[c][l] = Erased /\ l \in Locs
    BY DEF IsFirstEmpty, EmptyPages, Scanned
<1>2. /\ dirs'[c][l] = x /\ \A m \in Locs : m # l => dirs'[c][m] = dirs[c][m]
      /\ \A d \in Chs : d # c => dirs'[d] = dirs[d]
    BY <1>1 DEF TypeInv, Programs
<1>3. \A d \in Chs : Scanned(d) \subseteq Locs
    BY DEF Scanned
<1>4. ASSUME NEW d \in Chs, NEW k \in Scanned(d), NEW m \in Scanned(d),
             dirs'[d][k] = Erased, ScanIndex(k) <= ScanIndex(m)
      PROVE  dirs'[d][m] = Erased
    <2>1. dirs[d][k] = Erased
        BY <1>2, <1>3, <1>4
    <2>2. dirs[d][m] = Erased
        BY <1>4, <2>1 DEF PrefixInv
    <2>3. CASE d = c /\ m = l
        <3>1. k \in EmptyPages(c) /\ k \in Locs
            BY <1>3, <2>1, <2>3 DEF EmptyPages
        <3>2. ScanIndex(l) <= ScanIndex(k)
            BY <3>1 DEF IsFirstEmpty
        <3>3. ScanIndex(l) \in Nat /\ ScanIndex(k) \in Nat
            BY <1>1, <3>1, ScanOrder
        <3>4. k = l
            BY <1>1, <1>4, <2>3, <3>1, <3>2, <3>3, ScanOrder
        <3> QED
            BY <1>2, <1>4, <2>3, <3>4
    <2>4. CASE ~(d = c /\ m = l)
        BY <1>2, <1>3, <2>2, <2>4
    <2> QED
        BY <2>3, <2>4
<1>5. PrefixInv'
    BY <1>4 DEF PrefixInv, Scanned
<1>6. ASSUME NEW m \in WrittenPages(c)
      PROVE  ScanIndex(m) <= ScanIndex(l)
    <2>1. m \in Scanned(c) /\ m \in Locs /\ dirs[c][m] # Erased
        BY DEF WrittenPages, Scanned
    <2>2. ~(ScanIndex(l) <= ScanIndex(m))
        BY <1>1, <2>1 DEF PrefixInv
    <2>3. ScanIndex(l) \in Nat /\ ScanIndex(m) \in Nat
        BY <1>1, <2>1, ScanOrder
    <2> QED
        BY <2>2, <2>3
<1> QED
    BY <1>1, <1>2, <1>5, <1>6

\* The power fails: at worst one page more is torn, which the scan passes over.
LEMMA OnFlashPowerOff ==
    ASSUME Board, Plain, OnFlash, NmcPowerOff
    PROVE  OnFlash'
<1>1. /\ phase' = "off"
      /\ answered' = [n \in DOMAIN answered |-> [answered[n] EXCEPT !.old = TRUE]]
      /\ \/ dirs' = dirs
         \/ /\ phase = "flushing" /\ flushCh < USER_CHANNELS
            /\ dirs' = [dirs EXCEPT ![flushCh][newLoc[flushCh]] = Torn]
    BY DEF NmcPowerOff
<1>2. \A n \in DOMAIN answered : answered'[n].table = answered[n].table
    BY <1>1 DEF Plain, TypeInv, Answers
<1>3. PrefixInv' /\ \A c \in Chs : WrittenPages(c)' = WrittenPages(c)
    <2>1. CASE dirs' = dirs
        BY <2>1 DEF OnFlash, PrefixInv, Scanned, WrittenPages
    <2>2. CASE /\ phase = "flushing" /\ flushCh < USER_CHANNELS
               /\ dirs' = [dirs EXCEPT ![flushCh][newLoc[flushCh]] = Torn]
        <3>1. PICK c \in Chs : c = flushCh
            BY <2>2, NmcSizes DEF Plain, TypeInv, NmcTypeOK
        <3>2. IsFirstEmpty(c, newLoc[c])
            BY <2>2 DEF OnFlash, PlaceInv
        <3> DEFINE l == newLoc[c]
        <3>3. Programs(c, l, Torn) /\ Torn # Erased
            BY <2>2, <3>1, ReadAssumption DEF Programs
        <3>4. IsFirstEmpty(c, l) /\ TypeInv /\ PrefixInv
            BY <3>2 DEF OnFlash, Plain
        <3> HIDE DEF l
        <3>5. /\ PrefixInv' /\ dirs[c][l] = Erased /\ dirs'[c][l] = Torn
              /\ \A m \in Locs : m # l => dirs'[c][m] = dirs[c][m]
              /\ \A d \in Chs : d # c => dirs'[d] = dirs[d]
            BY <3>3, <3>4, PrefixGrows
        <3>6. ASSUME NEW d \in Chs
              PROVE  WrittenPages(d)' = WrittenPages(d)
            BY <3>5 DEF WrittenPages, Scanned
        <3> QED
            BY <3>5, <3>6
    <2> QED
        BY <1>1, <2>1, <2>2
<1>4. \A c \in Chs : \A l \in WrittenPages(c) : dirs'[c][l] = dirs[c][l]
    <2>1. CASE dirs' = dirs
        BY <2>1
    <2>2. CASE dirs' = [dirs EXCEPT ![flushCh][newLoc[flushCh]] = Torn]
        <3>1. \A c \in Chs : \A l \in WrittenPages(c) : l \in Locs /\ dirs'[c][l] # Torn
            BY <1>3 DEF WrittenPages, Scanned
        <3> QED
            BY <2>2, <3>1 DEF Plain, TypeInv
    <2> QED
        BY <1>1, <2>1, <2>2
<1>5. ASSUME NEW n, NEW c \in Chs, NEW t, Leads(c, n, t)
      PROVE  Leads(c, n, t)'
    <2>1. PICK l \in Locs : IsLast(c, n, l) /\ dirs[c][l] = t
        BY <1>5 DEF Leads
    <2>2. l \in WrittenPages(c)
        BY <2>1 DEF IsLast
    <2>3. IsLast(c, n, l)'
        BY <1>3, <1>4, <2>1 DEF IsLast
    <2> QED
        BY <1>4, <2>1, <2>2, <2>3 DEF Leads
<1>6. PlaceInv' /\ AnsweredInv'
    <2>1. ASSUME NEW n \in DOMAIN answered, NEW c \in Chs
          PROVE  Leads(c, n, answered[n].table[c])'
        <3>1. Leads(c, n, answered[n].table[c])
            BY DEF OnFlash, AnsweredInv
        <3>2. PICK t : t = answered[n].table[c]
            OBVIOUS
        <3>3. Leads(c, n, t)'
            BY <1>5, <3>1, <3>2
        <3> QED
            BY <1>2, <3>2, <3>3 DEF Leads
    <2> QED
        BY <1>1, <2>1 DEF PlaceInv, AnsweredInv
<1> QED
    BY <1>3, <1>6 DEF OnFlash

\* What the scan finds in the state after a step.
NewestRight ==
    \A c \in Chs : \A n :
        /\ \A l : IsLast(c, n, l) => Newest(c, n) = l
        /\ (\A l \in WrittenPages(c) : dirs[c][l].title # n) => Newest(c, n) = ZeroLoc

\* While the written pages are a prefix, the scan finds all of them.
LEMMA ScanRight == Board /\ PrefixInv => NewestRight /\ \A c \in Chs : UsedPages(c) = WrittenPages(c)
    BY NewestIs, UsedAreWritten DEF NewestRight

\* The same after a step.
LEMMA ScanRightNext ==
    (Board /\ PrefixInv)' => (NewestRight /\ \A c \in Chs : UsedPages(c) = WrittenPages(c))'
    BY ScanRight, PTL

\* A flush forgets the answer of the file it is about to write again.
LEMMA OnFlashFlush ==
    ASSUME OnFlash, Flush
    PROVE  OnFlash'
<1>1. /\ phase = "idle" /\ phase' = "flushing" /\ flushCh' = 0
      /\ answered' = [n \in DOMAIN answered \ {nmcTable[0].title} |-> answered[n]]
      /\ UNCHANGED <<dirs, files, newLoc, nmcTable>>
    BY DEF Flush, Idle, fileVars
<1>2. PrefixInv'
    BY <1>1 DEF OnFlash, PrefixInv, Scanned
<1>3. RecoveredFiles' = RecoveredFiles /\ \A c \in Chs : EmptyPages(c)' = EmptyPages(c)
    BY <1>1 DEF RecoveredFiles, RecoveredNames, Newest, UsedPages, EmptyPages
<1>4. PlaceInv'
    BY <1>1, <1>3 DEF OnFlash, PlaceInv, IsFirstEmpty
<1>5. \A n, t : \A c \in Chs : Leads(c, n, t)' <=> Leads(c, n, t)
    BY <1>1 DEF Leads, IsLast, WrittenPages
<1>6. AnsweredInv'
    <2>1. \A c \in Chs : ~(c < flushCh')
        BY <1>1, NmcSizes
    <2> QED
        BY <1>1, <1>5, <2>1 DEF OnFlash, AnsweredInv
<1> QED
    BY <1>2, <1>4, <1>6 DEF OnFlash

\* With the last channel done the file is answered.
LEMMA OnFlashClose ==
    ASSUME OnFlash, Close
    PROVE  OnFlash'
<1>1. /\ phase = "flushing" /\ flushCh = USER_CHANNELS /\ phase' = "idle"
      /\ answered' = [n \in DOMAIN answered \cup {nmcTable[0].title} |->
                          IF n = nmcTable[0].title
                          THEN [blks |-> fileBlks, table |-> nmcTable, old |-> FALSE]
                          ELSE answered[n]]
      /\ UNCHANGED <<dirs, files, newLoc>>
    BY DEF Close
<1>2. PrefixInv'
    BY <1>1 DEF OnFlash, PrefixInv, Scanned
<1>3. RecoveredFiles' = RecoveredFiles /\ \A c \in Chs : EmptyPages(c)' = EmptyPages(c)
    BY <1>1 DEF RecoveredFiles, RecoveredNames, Newest, UsedPages, EmptyPages
<1>4. PlaceInv'
    BY <1>1, <1>3 DEF OnFlash, PlaceInv, IsFirstEmpty
<1>5. \A n, t : \A c \in Chs : Leads(c, n, t)' <=> Leads(c, n, t)
    BY <1>1 DEF Leads, IsLast, WrittenPages
<1>6. AnsweredInv'
    <2>1. \A c \in Chs : c < flushCh
        BY <1>1, NmcSizes
    <2>2. \A n \in DOMAIN answered', c \in Chs : Leads(c, n, answered'[n].table[c])
        BY <1>1, <2>1 DEF OnFlash, AnsweredInv
    <2> QED
        BY <1>1, <1>5, <2>2 DEF AnsweredInv
<1> QED
    BY <1>2, <1>4, <1>6 DEF OnFlash

\* NMC_FLUSH programs the table of a channel: it becomes the last one of the file,
\* and the next place is the next page that is scanned.
LEMMA OnFlashFlushStep ==
    ASSUME Board, Plain, OnFlash, nmcFlushMapping
    PROVE  OnFlash'
<1>1. PICK c \in Chs : c = flushCh
    BY FlushStep
<1>2. PICK l \in Locs : l = newLoc[c]
    BY <1>1, FlushStep
<1>3. PICK n \in Names : n = nmcTable[0].title
    BY FlushStep DEF Written
<1>4. PICK x \in Written : x = nmcTable[c] /\ x.title = n /\ x # Erased /\ x # Torn
    BY <1>1, <1>3, FlushStep, ReadAssumption DEF Written, Tables
<1>5. /\ phase = "flushing"
      /\ dirs' = [dirs EXCEPT ![c][l] = x]
      /\ files' = nmcFileTableUpdate(n, c, l)
      /\ \/ NextLoc(c, l) \in Locs /\ newLoc' = [newLoc EXCEPT ![c] = NextLoc(c, l)] /\ phase' = phase
         \/ phase' = "stopped" /\ newLoc' = newLoc
      /\ flushCh' = c + 1
      /\ nmcTable' = nmcTable /\ answered' = answered
    BY <1>1, <1>2, <1>3, <1>4, FlushStep
<1>6. files = RecoveredFiles /\ \A d \in Chs : IsFirstEmpty(d, newLoc[d])
    BY <1>5 DEF OnFlash, PlaceInv
<1>7. IsFirstEmpty(c, l) /\ TypeInv /\ PrefixInv /\ Programs(c, l, x)
    BY <1>2, <1>5, <1>6 DEF OnFlash, Plain, Programs
<1>8. /\ PrefixInv'
      /\ l \in Scanned(c) /\ dirs[c][l] = Erased /\ dirs'[c][l] = x
      /\ \A m \in Locs : m # l => dirs'[c][m] = dirs[c][m]
      /\ \A d \in Chs : d # c => dirs'[d] = dirs[d]
      /\ \A m \in WrittenPages(c) : ScanIndex(m) <= ScanIndex(l)
    BY <1>4, <1>7, PrefixGrows
<1>9. /\ WrittenPages(c)' = WrittenPages(c) \cup {l}
      /\ \A d \in Chs : d # c => WrittenPages(d)' = WrittenPages(d)
      /\ \A d \in Chs : \A m \in WrittenPages(d) : m \in Locs /\ dirs'[d][m] = dirs[d][m]
    <2>1. \A d \in Chs : Scanned(d) \subseteq Locs
        BY DEF Scanned
    <2>2. WrittenPages(c)' = WrittenPages(c) \cup {l}
        BY <1>4, <1>8, <2>1 DEF WrittenPages, Scanned
    <2>3. ASSUME NEW d \in Chs, d # c
          PROVE  WrittenPages(d)' = WrittenPages(d)
        BY <1>8, <2>3 DEF WrittenPages, Scanned
    <2>4. ASSUME NEW d \in Chs, NEW m \in WrittenPages(d)
          PROVE  m \in Locs /\ dirs'[d][m] = dirs[d][m]
        BY <1>8, <2>1 DEF WrittenPages
    <2> QED
        BY <2>2, <2>3, <2>4
<1>10. IsLast(c, n, l)'
    <2>1. ScanIndex(l) \in Nat /\ ScanIndex(l) <= ScanIndex(l)
        BY ScanOrder
    <2> QED
        BY <1>4, <1>8, <1>9, <2>1 DEF IsLast
<1>11. ASSUME NEW d \in Chs, NEW k, d # c \/ k # n
       PROVE  /\ \A m : IsLast(d, k, m) => IsLast(d, k, m)' /\ dirs'[d][m] = dirs[d][m]
              /\ (\A m \in WrittenPages(d) : dirs[d][m].title # k) =>
                    (\A m \in WrittenPages(d) : dirs[d][m].title # k)'
    <2>1. \A m \in WrittenPages(d)' : dirs'[d][m].title = k => m \in WrittenPages(d)
        BY <1>4, <1>8, <1>9, <1>11
    <2>2. WrittenPages(d) \subseteq WrittenPages(d)'
        BY <1>9
    <2> QED
        BY <1>9, <2>1, <2>2 DEF IsLast
<1>12. ASSUME NEW d \in Chs, NEW k, NEW t, d # c \/ k # n, Leads(d, k, t)
       PROVE  Leads(d, k, t)'
    BY <1>11, <1>12 DEF Leads
<1>13. ASSUME NEW d \in Chs, NEW k, d # c \/ k # n
       PROVE  Newest(d, k)' = Newest(d, k)
    <2>1. NewestRight /\ NewestRight'
        BY <1>7, <1>8, ScanRight, ScanRightNext DEF Board
    <2>2. CASE \A m \in WrittenPages(d) : dirs[d][m].title # k
        <3>1. Newest(d, k) = ZeroLoc
            BY <2>1, <2>2 DEF NewestRight
        <3>2. Newest(d, k)' = ZeroLoc
            BY <1>11, <1>13, <2>1, <2>2 DEF NewestRight
        <3> QED
            BY <3>1, <3>2
    <2>3. CASE \E m \in WrittenPages(d) : dirs[d][m].title = k
        <3> DEFINE mine == {m \in WrittenPages(d) : dirs[d][m].title = k}
        <3>1. mine \in SUBSET Locs /\ mine # {}
            BY <2>3 DEF WrittenPages, Scanned
        <3>2. \E m \in mine : \A j \in mine : ScanIndex(j) <= ScanIndex(m)
            <4> HIDE DEF mine
            <4> QED
                BY <3>1, LastOf
        <3>3. PICK m : IsLast(d, k, m)
            BY <3>2 DEF IsLast
        <3>4. IsLast(d, k, m)'
            BY <1>11, <1>13, <3>3
        <3>5. Newest(d, k) = m
            BY <2>1, <3>3 DEF NewestRight
        <3>6. Newest(d, k)' = m
            BY <2>1, <3>4 DEF NewestRight
        <3> QED
            BY <3>5, <3>6
    <2> QED
        BY <2>2, <2>3
<1>14. files' = RecoveredFiles'
    <2>1. /\ \A d \in Chs : UsedPages(d) = WrittenPages(d)
          /\ \A d \in Chs : UsedPages(d)' = WrittenPages(d)'
          /\ NewestRight /\ NewestRight'
        BY <1>7, <1>8, ScanRight, ScanRightNext DEF Board
    <2>2. RecoveredNames' = RecoveredNames \cup {n}
        <3>1. \A k : k \in RecoveredNames <=> \E d \in Chs : \E m \in WrittenPages(d) : dirs[d][m].title = k
            BY <2>1 DEF RecoveredNames
        <3>2. \A k : k \in RecoveredNames' <=> \E d \in Chs : \E m \in WrittenPages(d)' : dirs'[d][m].title = k
            BY <2>1 DEF RecoveredNames
        <3>3. n \in RecoveredNames'
            BY <1>4, <1>8, <1>9, <3>2
        <3>4. ASSUME NEW k \in RecoveredNames PROVE k \in RecoveredNames'
            BY <1>9, <3>1, <3>2
        <3>5. ASSUME NEW k \in RecoveredNames', k # n PROVE k \in RecoveredNames
            BY <1>4, <1>8, <1>9, <3>1, <3>2, <3>5
        <3> QED
            BY <3>3, <3>4, <3>5
    <2> DEFINE old(k) == IF k \in RecoveredNames THEN RecoveredFiles[k] ELSE [d \in Chs |-> ZeroLoc]
    <2>3. files' = [k \in RecoveredNames \cup {n} |-> [old(k) EXCEPT ![c] = IF k = n THEN l ELSE old(k)[c]]]
        BY <1>5, <1>6 DEF nmcFileTableUpdate, RecoveredFiles
    <2>4. ASSUME NEW k \in RecoveredNames \cup {n}
          PROVE  old(k) = [d \in Chs |-> Newest(d, k)]
        <3>1. CASE k \in RecoveredNames
            BY <3>1 DEF RecoveredFiles
        <3>2. CASE k \notin RecoveredNames
            <4>1. ASSUME NEW d \in Chs PROVE Newest(d, k) = ZeroLoc
                BY <2>1, <3>2 DEF NewestRight, RecoveredNames
            <4> QED
                BY <3>2, <4>1
        <3> QED
            BY <3>1, <3>2
    <2> HIDE DEF old
    <2>5. ASSUME NEW k \in RecoveredNames \cup {n}
          PROVE  files'[k] = [d \in Chs |-> Newest(d, k)']
        <3>1. files'[k] = [old(k) EXCEPT ![c] = IF k = n THEN l ELSE old(k)[c]]
            BY <2>3
        <3>2. \A d \in Chs : files'[k][d] = IF d = c /\ k = n THEN l ELSE Newest(d, k)
            BY <2>4, <3>1
        <3>3. Newest(c, n)' = l
            BY <1>10, <2>1 DEF NewestRight
        <3>4. \A d \in Chs : files'[k][d] = Newest(d, k)'
            BY <1>13, <3>2, <3>3
        <3>5. files'[k] = [d \in Chs |-> files'[k][d]]
            BY <2>4, <3>1
        <3> QED
            BY <3>4, <3>5
    <2>6. files' = [k \in RecoveredNames \cup {n} |-> files'[k]]
        BY <2>3
    <2> QED
        BY <2>2, <2>5, <2>6 DEF RecoveredFiles
<1>15. PlaceInv'
    <2>1. CASE phase' = "stopped"
        BY <2>1 DEF PlaceInv
    <2>2. CASE NextLoc(c, l) \in Locs /\ newLoc' = [newLoc EXCEPT ![c] = NextLoc(c, l)]
        <3>1. PICK m \in Locs : m = NextLoc(c, l)
            BY <2>2
        <3>2. /\ m \in Scanned(c) /\ ScanIndex(l) < ScanIndex(m)
              /\ \A k \in Scanned(c) : ScanIndex(k) <= ScanIndex(l) \/ ScanIndex(m) <= ScanIndex(k)
            BY <1>8, <3>1, NextLocIs
        <3>3. ScanIndex(l) \in Nat /\ ScanIndex(m) \in Nat /\ ScanIndex(l) <= ScanIndex(m) /\ m # l
            BY <3>2, ScanOrder
        <3>4. dirs'[c][m] = Erased
            BY <1>7, <1>8, <3>2, <3>3 DEF PrefixInv
        <3>5. ASSUME NEW k \in EmptyPages(c)'
              PROVE  ScanIndex(m) <= ScanIndex(k)
            <4>1. k \in Scanned(c) /\ k \in Locs /\ dirs'[c][k] = Erased /\ k # l
                BY <1>4, <1>8 DEF EmptyPages, Scanned
            <4>2. k \in EmptyPages(c)
                BY <1>8, <4>1 DEF EmptyPages
            <4>3. ScanIndex(l) <= ScanIndex(k)
                BY <1>7, <4>2 DEF IsFirstEmpty
            <4>4. ScanIndex(l) \in Nat /\ ScanIndex(k) \in Nat /\ ScanIndex(l) # ScanIndex(k)
                BY <4>1, ScanOrder
            <4> QED
                BY <3>2, <4>1, <4>3, <4>4
        <3>6. IsFirstEmpty(c, m)'
            <4>1. m \in EmptyPages(c)'
                BY <3>2, <3>4 DEF EmptyPages, Scanned
            <4> QED
                BY <3>5, <4>1 DEF IsFirstEmpty
        <3>7. \A d \in Chs : newLoc'[d] = IF d = c THEN m ELSE newLoc[d]
            BY <1>7, <2>2, <3>1 DEF TypeInv, NmcTypeOK
        <3>8. ASSUME NEW d \in Chs, d # c
              PROVE  IsFirstEmpty(d, newLoc[d])'
            <4>1. EmptyPages(d)' = EmptyPages(d)
                BY <1>8, <3>8 DEF EmptyPages, Scanned
            <4> QED
                BY <1>6, <3>7, <3>8, <4>1 DEF IsFirstEmpty
        <3>9. IsFirstEmpty(c, newLoc[c])'
            BY <3>6, <3>7 DEF IsFirstEmpty
        <3> QED
            BY <1>14, <3>8, <3>9 DEF PlaceInv
    <2> QED
        BY <1>5, <2>1, <2>2
<1>16. AnsweredInv'
    <2>1. ASSUME NEW k \in DOMAIN answered, NEW d \in Chs
          PROVE  Leads(d, k, answered[k].table[d])'
        <3>1. k # n
            BY <1>3, <1>5 DEF OnFlash, AnsweredInv
        <3>2. PICK t : t = answered[k].table[d]
            OBVIOUS
        <3>3. Leads(d, k, t)
            BY <3>2 DEF OnFlash, AnsweredInv
        <3>4. Leads(d, k, t)'
            BY <1>12, <3>1, <3>3
        <3> QED
            BY <1>5, <3>2, <3>4 DEF Leads
    <2>2. ASSUME NEW d \in Chs, d < c + 1
          PROVE  Leads(d, nmcTable[0].title, nmcTable[d])'
        <3>1. CASE d = c
            BY <1>3, <1>4, <1>5, <1>8, <1>10, <3>1 DEF Leads
        <3>2. CASE d # c
            <4>1. d < c
                BY <2>2, <3>2, NmcSizes
            <4>2. PICK t : t = nmcTable[d]
                OBVIOUS
            <4>3. Leads(d, n, t)
                BY <1>1, <1>3, <1>5, <4>1, <4>2 DEF OnFlash, AnsweredInv
            <4>4. Leads(d, n, t)'
                BY <1>12, <3>2, <4>3
            <4> QED
                BY <1>3, <1>5, <4>2, <4>4 DEF Leads
        <3> QED
            BY <3>1, <3>2
    <2>3. nmcTable[0].title \notin DOMAIN answered
        BY <1>5 DEF OnFlash, AnsweredInv
    <2> QED
        BY <1>5, <2>1, <2>2, <2>3 DEF AnsweredInv
<1> QED
    BY <1>8, <1>15, <1>16 DEF OnFlash

-----------------------------------------------------------------------------
(* The blocks of the files answered before the last start.                 *)

\* Blocks leave the free lists, and no file becomes one of before the start.
LEMMA BlocksUntouched ==
    ASSUME BlocksInv, phase \in {"idle", "flushing"},
           \A d \in Dies : free'[d] \subseteq free[d] /\ current'[d] \in {current[d]} \cup free[d],
           \A n \in DOMAIN answered' :
               answered'[n].old => n \in DOMAIN answered /\ answered'[n] = answered[n]
    PROVE  BlocksInv'
<1> SUFFICES ASSUME NEW n \in DOMAIN answered', answered'[n].old,
                    NEW c \in Chs, NEW w \in Ways, NEW b \in Blks,
                    <<w, b>> \in ToSet(answered'[n].table[c].list)
             PROVE  b \notin free'[<<c, w>>] /\ b # current'[<<c, w>>]
    BY DEF BlocksInv
<1>1. n \in DOMAIN answered /\ answered'[n] = answered[n]
    OBVIOUS
<1>2. b \notin free[<<c, w>>] /\ b # current[<<c, w>>]
    BY <1>1 DEF BlocksInv
<1>3. <<c, w>> \in Dies
    BY DEF Dies
<1> QED
    BY <1>2, <1>3

\* A start keeps the blocks of every table it reads off the free lists.
LEMMA BlocksPowerOn ==
    ASSUME Board, OnFlash, NmcPowerOn
    PROVE  BlocksInv'
<1> DEFINE unused == [d \in Dies |-> Blks \ UsedBlocks(d[1], d[2])]
<1>1. /\ answered' = answered /\ phase' \in {"idle", "stopped"}
      /\ phase' = "idle" =>
            /\ \A d \in Dies : Cardinality(unused[d]) > 1
            /\ current' = [d \in Dies |-> Min(unused[d])]
            /\ free' = [d \in Dies |-> unused[d] \ {Min(unused[d])}]
    BY DEF NmcPowerOn
<1> SUFFICES ASSUME phase' = "idle", NEW n \in DOMAIN answered,
                    NEW c \in Chs, NEW w \in Ways, NEW b \in Blks,
                    <<w, b>> \in ToSet(answered[n].table[c].list)
             PROVE  b \notin free'[<<c, w>>] /\ b # current'[<<c, w>>]
    BY <1>1 DEF BlocksInv
<1>2. PICK l \in WrittenPages(c) : dirs[c][l] = answered[n].table[c]
    BY DEF OnFlash, AnsweredInv, Leads, IsLast
<1>3. b \in UsedBlocks(c, w)
    BY <1>2, UsedAreWritten DEF UsedBlocks, OnFlash
<1>4. PICK d \in Dies : d = <<c, w>>
    BY DEF Dies
<1>5. b \notin unused[d] /\ unused[d] \in SUBSET Blks /\ Cardinality(unused[d]) > 1
    BY <1>1, <1>3, <1>4
<1>6. current'[d] = Min(unused[d]) /\ free'[d] = unused[d] \ {Min(unused[d])}
    <2> HIDE DEF unused
    <2> QED
        BY <1>1
<1> HIDE DEF unused
<1>7. Min(unused[d]) \in unused[d]
    BY <1>5, LeastBlk
<1> QED
    BY <1>4, <1>5, <1>6, <1>7

-----------------------------------------------------------------------------
(* The inductive invariant and what follows from it.                       *)

\* The invariant holds of a drive from the factory.
LEMMA FileInitial ==
    ASSUME Board, NmcInit
    PROVE  FileInv
<1>1. BlocksInv
    BY DEF NmcInit, BlocksInv
<1> QED
    BY <1>1, PlainInit, OnFlashInit DEF FileInv, Plain, OnFlash

\* And every step keeps it, one case for each action.
LEMMA FileStep ==
    ASSUME Board, FileInv, [NmcNext]_nmcVars
    PROVE  FileInv'
<1>1. Plain /\ OnFlash /\ BlocksInv /\ PrefixInv
    BY DEF FileInv, Plain, OnFlash
<1>2. SUFFICES Plain' /\ OnFlash' /\ BlocksInv'
    BY DEF FileInv, Plain, OnFlash
<1>3. CASE NmcPowerOn
    BY <1>1, <1>3, PlainPowerOn, OnFlashPowerOn, BlocksPowerOn
<1>4. CASE NmcPowerOff
    <2>1. BlocksInv'
        BY <1>4 DEF NmcPowerOff, BlocksInv
    <2> QED
        BY <1>1, <1>4, <2>1, PlainPowerOff, OnFlashPowerOff
<1>5. ASSUME NEW ofFile \in BOOLEAN, FindFreeVirtualSlice(ofFile)
      PROVE  Plain' /\ OnFlash' /\ BlocksInv'
    <2>1. /\ Plain'
          /\ phase = "idle" /\ phase' \in {"idle", "stopped"}
          /\ UNCHANGED <<dirs, files, newLoc, answered>>
          /\ \A d \in Dies : free'[d] \subseteq free[d] /\ current'[d] \in {current[d]} \cup free[d]
        BY <1>1, <1>5, PlainFind
    <2>2. OnFlash'
        BY <1>1, <2>1, FlashUntouched
    <2>3. BlocksInv'
        BY <1>1, <2>1, BlocksUntouched
    <2> QED
        BY <2>1, <2>2, <2>3
<1>6. ASSUME Plain', phase = "idle", phase' \in {"idle", "stopped"},
             UNCHANGED <<dirs, files, newLoc, answered, free, current>>
      PROVE  Plain' /\ OnFlash' /\ BlocksInv'
    <2>1. OnFlash'
        BY <1>1, <1>6, FlashUntouched
    <2>2. BlocksInv'
        BY <1>1, <1>6, BlocksUntouched
    <2> QED
        BY <1>6, <2>1, <2>2
<1>7. ASSUME NEW n \in Names, NEW nblks \in Limits, Alloc(n, nblks)
      PROVE  Plain' /\ OnFlash' /\ BlocksInv'
    BY <1>1, <1>6, <1>7, PlainAlloc
<1>8. CASE DmaDone
    BY <1>1, <1>6, <1>8, PlainDma
<1>9. CASE nmcReqScheduling
    BY <1>1, <1>6, <1>9, PlainScheduling
<1>10. CASE Flush
    <2>1. /\ phase = "idle" /\ UNCHANGED <<free, current>>
          /\ answered' = [n \in DOMAIN answered \ {nmcTable[0].title} |-> answered[n]]
        BY <1>10 DEF Flush, Idle, allocVars
    <2>2. BlocksInv'
        BY <1>1, <2>1, BlocksUntouched
    <2> QED
        BY <1>1, <1>10, <2>2, PlainFlush, OnFlashFlush
<1>11. CASE nmcFlushMapping
    <2>1. phase = "flushing" /\ UNCHANGED <<free, current, answered>>
        BY <1>11 DEF nmcFlushMapping, allocVars
    <2>2. BlocksInv'
        BY <1>1, <2>1, BlocksUntouched
    <2> QED
        BY <1>1, <1>11, <2>2, PlainFlushStep, OnFlashFlushStep
<1>12. CASE Close
    <2>1. /\ phase = "flushing" /\ UNCHANGED <<free, current>>
          /\ answered' = [n \in DOMAIN answered \cup {nmcTable[0].title} |->
                              IF n = nmcTable[0].title
                              THEN [blks |-> fileBlks, table |-> nmcTable, old |-> FALSE]
                              ELSE answered[n]]
        BY <1>12 DEF Close
    <2>2. BlocksInv'
        BY <1>1, <2>1, BlocksUntouched
    <2> QED
        BY <1>1, <1>12, <2>2, PlainClose, OnFlashClose
<1>13. CASE UNCHANGED nmcVars
    <2>1. Plain'
        BY <1>1, <1>13 DEF nmcVars, flushVars, hostVars, fileVars, allocVars, Plain, TypeInv, NmcTypeOK,
                           NameInv, WayInv
    <2>2. OnFlash'
        <3>1. UNCHANGED <<dirs, phase, flushCh, nmcTable, newLoc, files, answered>>
            BY <1>13 DEF nmcVars, flushVars, fileVars
        <3>2. PrefixInv'
            BY <1>1, <3>1 DEF PrefixInv, Scanned
        <3>3. RecoveredFiles' = RecoveredFiles /\ \A c \in Chs : EmptyPages(c)' = EmptyPages(c)
            BY <3>1 DEF RecoveredFiles, RecoveredNames, Newest, UsedPages, EmptyPages
        <3>4. PlaceInv'
            BY <1>1, <3>1, <3>3 DEF OnFlash, PlaceInv, IsFirstEmpty
        <3>5. AnsweredInv'
            BY <1>1, <3>1 DEF OnFlash, AnsweredInv, Leads, IsLast, WrittenPages
        <3> QED
            BY <3>2, <3>4, <3>5 DEF OnFlash
    <2>3. BlocksInv'
        BY <1>1, <1>13 DEF nmcVars, flushVars, allocVars, BlocksInv
    <2> QED
        BY <2>1, <2>2, <2>3
<1> QED
    BY <1>3, <1>4, <1>5, <1>7, <1>8, <1>9, <1>10, <1>11, <1>12, <1>13 DEF NmcNext

\* The inductive invariant of the files: the directories of every channel are a
\* prefix of the scan, and what the answers promised is on them.
THEOREM FileInvariance ==
    ASSUME Board
    PROVE  NmcSpec => []FileInv
<1>1. NmcInit => FileInv
    BY FileInitial
<1>2. FileInv /\ [NmcNext]_nmcVars => FileInv'
    BY FileStep
<1> QED
    BY <1>1, <1>2, PTL DEF NmcSpec

\* Type correctness of the files, their tables and the places of their pages.
THEOREM FilesTypeCorrect ==
    ASSUME Board
    PROVE  NmcSpec => []NmcTypeOK
<1>1. FileInv => NmcTypeOK
    BY DEF FileInv, TypeInv
<1> QED
    BY <1>1, FileInvariance, PTL

\* At every moment the file table and the next places are what a start would find
\* on the flash (nmcFlushMapping, nmcRecoverMappingDir).
THEOREM RestartFindsFiles ==
    ASSUME Board
    PROVE  NmcSpec => []RecoverMatches
<1>1. FileInv => RecoverMatches
    BY FirstEmptyIs DEF FileInv, PlaceInv, RecoverMatches
<1> QED
    BY <1>1, FileInvariance, PTL

\* An answered NMC_FLUSH stays findable: through torn tables, restarts and flushes
\* of other files that were cut short.
THEOREM AnsweredFilesStay ==
    ASSUME Board
    PROVE  NmcSpec => []FlushedFilesKept
<1>1. ASSUME FileInv, phase = "idle", NEW n \in DOMAIN answered
      PROVE  n \in DOMAIN files /\ \A c \in Chs : dirs[c][files[n][c]] = answered[n].table[c]
    <2>1. /\ files = RecoveredFiles /\ PrefixInv
          /\ \A c \in Chs : Leads(c, n, answered[n].table[c])
        BY <1>1 DEF FileInv, PlaceInv, AnsweredInv
    <2>2. n \in RecoveredNames
        <3>1. PICK c \in Chs : c = 0
            BY NmcSizes
        <3>2. PICK l \in WrittenPages(c) : dirs[c][l].title = n
            BY <2>1 DEF Leads, IsLast
        <3> QED
            BY <2>1, <3>2, UsedAreWritten DEF RecoveredNames
    <2>3. ASSUME NEW c \in Chs
          PROVE  dirs[c][files[n][c]] = answered[n].table[c]
        <3>1. PICK l \in Locs : IsLast(c, n, l) /\ dirs[c][l] = answered[n].table[c]
            BY <2>1 DEF Leads
        <3>2. Newest(c, n) = l
            BY <2>1, <3>1, NewestIs
        <3> QED
            BY <2>1, <2>2, <3>1, <3>2 DEF RecoveredFiles
    <2> QED
        BY <2>1, <2>2, <2>3 DEF RecoveredFiles
<1>2. FileInv => FlushedFilesKept
    BY <1>1 DEF FlushedFilesKept
<1> QED
    BY <1>2, FileInvariance, PTL

\* The blocks of the answered files are in the tables they were answered with.
AnsweredRecorded ==
    \A n \in DOMAIN answered : \A x \in answered[n].blks :
        <<x[1][2], x[2]>> \in ToSet(answered[n].table[x[1][1]].list)

\* After a restart a flushed file loses no block to the free lists as long as
\* nmcRecordBlock has recorded its blocks, whatever else is flushed or torn since.
THEOREM RecordedBlocksStay ==
    ASSUME Board
    PROVE  NmcSpec => [](AnsweredRecorded => FilesKeepBlocks)
<1>1. ASSUME FileInv, AnsweredRecorded, phase = "idle",
             NEW n \in DOMAIN answered, answered[n].old, NEW x \in answered[n].blks
      PROVE  x[2] \notin free[x[1]] \cup {current[x[1]]}
    <2>1. answered[n].blks \subseteq Dies \X Blks
        BY <1>1 DEF FileInv, TypeInv, Answers
    <2>2. PICK c \in Chs, w \in Ways, b \in Blks : x = <<<<c, w>>, b>>
        BY <2>1 DEF Dies
    <2>3. <<w, b>> \in ToSet(answered[n].table[c].list)
        BY <1>1, <2>2 DEF AnsweredRecorded
    <2>4. b \notin free[<<c, w>>] /\ b # current[<<c, w>>]
        BY <1>1, <2>3 DEF FileInv, BlocksInv
    <2> QED
        BY <2>2, <2>4
<1>2. FileInv => (AnsweredRecorded => FilesKeepBlocks)
    BY <1>1 DEF FilesKeepBlocks
<1> QED
    BY <1>2, FileInvariance, PTL
=============================================================================
