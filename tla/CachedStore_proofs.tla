------------------------- MODULE CachedStore_proofs -------------------------
(***************************************************************************)
(* Splitting a command into slice requests, for every capacity, slice size *)
(* and alignment; the invariants of the cache above the flash; and that    *)
(* commands served this way implement BlockStore.                          *)
(***************************************************************************)
EXTENDS CachedStore, SequenceTheorems, FiniteSetTheorems, TLAPS

N == NVME_BLOCKS_PER_SLICE

LEMMA SizeIsPositive == N \in Nat \ {0} /\ SLICES \in Nat \ {0}
BY StoreAssumption DEF StoreAssumption, N

(***************************************************************************)
(* Arithmetic of division, which the prover does not know for a divisor    *)
(* that is not a number.                                                   *)
(***************************************************************************)

LEMMA DivMod ==
    ASSUME NEW a \in Nat, NEW n \in Nat \ {0}
    PROVE  /\ a \div n \in Nat
           /\ a % n \in 0 .. n - 1
           /\ a = (a \div n) * n + (a % n)
OBVIOUS

LEMMA LessFactor ==
    ASSUME NEW a \in Int, NEW b \in Int, NEW n \in Nat \ {0}, a * n < b * n
    PROVE  a < b
<1>1. SUFFICES ASSUME b <= a PROVE FALSE
  OBVIOUS
<1>2. PICK d \in Nat : a = b + d
  BY <1>1
<1>3. a * n = b * n + d * n /\ d * n \in Nat
  BY <1>2
<1> QED BY <1>3

LEMMA DivModUnique ==
    ASSUME NEW a \in Nat, NEW n \in Nat \ {0}, NEW q \in Nat, NEW r \in 0 .. n - 1,
           a = q * n + r
    PROVE  a \div n = q /\ a % n = r
<1> DEFINE p == a \div n
           s == a % n
<1>1. p \in Nat /\ s \in 0 .. n - 1 /\ a = p * n + s
  BY DivMod
<1> HIDE DEF p, s
<1>2. p * n < (q + 1) * n /\ q * n < (p + 1) * n
  BY <1>1
<1>3. p < q + 1 /\ q < p + 1
  BY <1>1, <1>2, LessFactor
<1>4. p = q
  BY <1>1, <1>3
<1>5. s = r
  BY <1>1, <1>4
<1> QED BY <1>4, <1>5 DEF p, s

-----------------------------------------------------------------------------
(* ReqTransNvmeToSlice.  A command for n blocks from block start becomes    *)
(* Count(start, n) requests, of which RequestAt(start, n, i) is the i-th.   *)

First(start, n) == FirstBlocks(start, n)
Last(start, n)  == LastBlocks(start, n)

RequestAt(start, n, i) ==
    SliceRequest((start \div N) + i - 1,
                 IF i = 1 THEN 0 ELSE First(start, n) + (i - 2) * N,
                 IF i = 1 THEN Offset(start) ELSE 0,
                 IF i = 1 THEN First(start, n) ELSE IF i <= Loop(start, n) THEN N ELSE Last(start, n))

Count(start, n) ==
    IF Loop(start, n) = 0 THEN 1
    ELSE IF Last(start, n) = 0 THEN Loop(start, n) ELSE Loop(start, n) + 1

LEMMA SplitNumbers ==
    ASSUME NEW start \in Nat, NEW n \in Nat \ {0}
    PROVE  /\ start \div N \in Nat /\ Offset(start) \in 0 .. N - 1
           /\ start = (start \div N) * N + Offset(start)
           /\ Loop(start, n) \in Nat
           /\ Loop(start, n) = 0 => /\ First(start, n) = n /\ Last(start, n) = 0
                                    /\ Offset(start) + n < N
           /\ Loop(start, n) > 0 =>
                 /\ First(start, n) = N - Offset(start)
                 /\ Last(start, n) \in 0 .. N - 1
                 /\ n = First(start, n) + (Loop(start, n) - 1) * N + Last(start, n)
<1> DEFINE lsa == start \div N
           off == Offset(start)
           loop == Loop(start, n)
           rest == (off + n) % N
<1>1. N \in Nat \ {0}
  BY SizeIsPositive
<1>2. lsa \in Nat /\ off \in 0 .. N - 1 /\ start = lsa * N + off
  BY <1>1, DivMod DEF Offset, N
<1>3. loop \in Nat /\ rest \in 0 .. N - 1 /\ off + n = loop * N + rest
  <2>1. Loop(start, n) = (Offset(start) + n) \div N
    BY DEF Loop, N
  <2>2. Offset(start) + n \in Nat
    BY <1>1, <1>2
  <2> QED BY <1>1, <2>1, <2>2, DivMod
<1>4. (start + n) % N = rest
  <2> HIDE DEF lsa, off, loop, rest
  <2>1. start + n = (lsa + loop) * N + rest
    BY <1>1, <1>2, <1>3
  <2>2. start + n \in Nat /\ lsa + loop \in Nat
    BY <1>2, <1>3
  <2> QED BY <1>1, <1>3, <2>1, <2>2, DivModUnique, Zenon
<1>5. loop = 0 => First(start, n) = n /\ Last(start, n) = 0
  BY DEF First, Last, FirstBlocks, LastBlocks
<1>6. loop > 0 => First(start, n) = N - off /\ Last(start, n) = rest
  BY <1>4 DEF First, Last, FirstBlocks, LastBlocks, N
<1>7. loop > 0 => n = (N - off) + (loop - 1) * N + rest
  <2> HIDE DEF lsa, off, loop, rest
  <2> QED BY <1>1, <1>2, <1>3
<1>8. loop = 0 => off + n < N
  <2> HIDE DEF lsa, off, loop, rest
  <2> QED BY <1>1, <1>2, <1>3
<1> HIDE DEF rest
<1> QED BY <1>1, <1>2, <1>3, <1>5, <1>6, <1>7, <1>8

LEMMA SplitShape ==
    ASSUME NEW start \in Nat, NEW n \in Nat \ {0}
    PROVE  /\ Count(start, n) \in Nat \ {0}
           /\ SliceRequests(start, n) = [i \in 1 .. Count(start, n) |-> RequestAt(start, n, i)]
<1> DEFINE lsa == start \div N
           loop == Loop(start, n)
           first == First(start, n)
           last == Last(start, n)
           head == SliceRequest(lsa, 0, Offset(start), first)
           final == SliceRequest(lsa + loop, first + (loop - 1) * N, 0, last)
           middle == [i \in 1 .. loop - 1 |->
                        SliceRequest(lsa + i, first + (i - 1) * N, 0, N)]
           end == IF last = 0 THEN <<>> ELSE <<final>>
<1>1. SliceRequests(start, n) = (<<head>> \o middle) \o end
  BY DEF SliceRequests, First, Last, N
<1>2. loop \in Nat /\ lsa \in Nat /\ (loop = 0 => last = 0)
  BY SplitNumbers
<1>3. Count(start, n) = IF loop = 0 THEN 1 ELSE IF last = 0 THEN loop ELSE loop + 1
  BY DEF Count
<1>4. RequestAt(start, n, 1) = head
  BY <1>2 DEF RequestAt
<1>5. CASE loop = 0
  <2>1. middle = <<>> /\ end = <<>> /\ Count(start, n) = 1
    BY <1>2, <1>3, <1>5
  <2>2. SliceRequests(start, n) = <<head>>
    <3> HIDE DEF middle, end, head
    <3> QED BY <1>1, <2>1
  <2> HIDE DEF head
  <2> QED BY <1>4, <2>1, <2>2
<1>6. CASE loop # 0
  <2>1. \A i \in 2 .. loop :
           RequestAt(start, n, i) = SliceRequest(lsa + (i - 1), first + ((i - 1) - 1) * N, 0, N)
    <3> SUFFICES ASSUME NEW i \in 2 .. loop
                 PROVE  RequestAt(start, n, i) =
                           SliceRequest(lsa + (i - 1), first + ((i - 1) - 1) * N, 0, N)
      OBVIOUS
    <3>1. RequestAt(start, n, i) = SliceRequest(lsa + i - 1, first + (i - 2) * N, 0, N)
      BY <1>2 DEF RequestAt
    <3> HIDE DEF loop, lsa, first
    <3>2. lsa + i - 1 = lsa + (i - 1) /\ i - 2 = (i - 1) - 1
      BY <1>2
    <3> QED BY <3>1, <3>2
  <2>2. RequestAt(start, n, loop + 1) = final
    <3>1. RequestAt(start, n, loop + 1) =
             SliceRequest(lsa + (loop + 1) - 1, first + ((loop + 1) - 2) * N, 0, last)
      <4>1. loop + 1 # 1 /\ ~(loop + 1 <= loop)
        <5> HIDE DEF loop
        <5> QED BY <1>2, <1>6
      <4> QED BY <4>1 DEF RequestAt
    <3>2. lsa + (loop + 1) - 1 = lsa + loop /\ (loop + 1) - 2 = loop - 1
      <4> HIDE DEF loop, lsa
      <4> QED BY <1>2
    <3> HIDE DEF loop, lsa, first, last
    <3> QED BY <3>1, <3>2
  <2>3. \A i \in 1 .. loop - 1 : middle[i] = SliceRequest(lsa + i, first + (i - 1) * N, 0, N)
    OBVIOUS
  <2>4. \A i \in 2 .. loop : middle[i - 1] = RequestAt(start, n, i)
    <3> HIDE DEF loop, lsa, first, middle
    <3> QED BY <1>2, <2>1, <2>3
  <2> DEFINE S == {head, final} \cup
                  {SliceRequest(lsa + i, first + (i - 1) * N, 0, N) : i \in 1 .. loop - 1}
  <2>5. head \in S /\ final \in S /\ loop - 1 \in Nat /\ middle \in [1 .. loop - 1 -> S]
    <3> HIDE DEF loop, lsa, first, head, final
    <3> QED BY <1>2, <1>6
  <2>6. Count(start, n) = IF last = 0 THEN loop ELSE loop + 1
    BY <1>3, <1>6
  <2>7. loop \in Nat \ {0} /\ 1 \in 1 .. Count(start, n) /\ Count(start, n) \in Nat \ {0}
        /\ (last # 0 => loop + 1 \in 1 .. Count(start, n))
        /\ \A i \in 2 .. loop : i \in 1 .. Count(start, n)
    <3> HIDE DEF loop, last
    <3> QED BY <1>2, <1>6, <2>6
  <2> DEFINE R == [i \in 1 .. Count(start, n) |-> RequestAt(start, n, i)]
  <2>8. /\ R = [i \in 1 .. Count(start, n) |-> R[i]]
        /\ R[1] = head
        /\ \A i \in 2 .. loop : R[i] = middle[i - 1]
        /\ last # 0 => R[loop + 1] = final
    <3> HIDE DEF loop, lsa, first, last, head, final, middle
    <3> QED BY <1>4, <2>2, <2>4, <2>7
  <2>9. end = IF last = 0 THEN <<>> ELSE <<final>>
    OBVIOUS
  <2> DEFINE g   == <<head>> \o middle
             all == g \o end
             n1  == Count(start, n)
  <2> HIDE DEF loop, lsa, first, last, head, final, middle, end, S, R, g, all, n1
  <2>10. <<head>> \in Seq(S) /\ Len(<<head>>) = 1 /\ <<head>>[1] = head
    BY <2>5
  <2>11. middle \in Seq(S) /\ Len(middle) = loop - 1
    <3>1. middle \in Seq(S)
      BY <2>5, SeqDef
    <3>2. DOMAIN middle = 1 .. loop - 1
      BY <2>5
    <3> QED BY <2>5, <3>1, <3>2, LenProperties
  <2>12. end \in Seq(S) /\ (last = 0 => Len(end) = 0) /\ (last # 0 => Len(end) = 1 /\ end[1] = final)
    <3>1. CASE last = 0
      <4>1. end = <<>>
        BY <2>9, <3>1
      <4> QED BY <3>1, <4>1, EmptySeq
    <3>2. CASE last # 0
      <4>1. end = <<final>>
        BY <2>9, <3>2
      <4> QED BY <2>5, <3>2, <4>1
    <3> QED BY <3>1, <3>2
  <2>13. /\ g \in Seq(S) /\ Len(g) = loop /\ g[1] = head
         /\ \A i \in 2 .. loop : g[i] = middle[i - 1]
    BY <2>5, <2>7, <2>10, <2>11 DEF g
  <2>14. /\ all \in Seq(S) /\ Len(all) = n1
         /\ \A i \in 1 .. loop : all[i] = g[i]
         /\ last # 0 => all[loop + 1] = final
    <3>1. all \in Seq(S) /\ Len(all) = loop + Len(end)
          /\ \A i \in 1 .. loop + Len(end) :
                all[i] = IF i <= loop THEN g[i] ELSE end[i - loop]
      BY <2>12, <2>13, ConcatProperties DEF all
    <3>2. CASE last = 0
      BY <2>6, <2>7, <2>12, <3>1, <3>2 DEF n1
    <3>3. CASE last # 0
      <4>1. Len(end) = 1 /\ end[1] = final /\ n1 = loop + 1
        BY <2>6, <2>12, <3>3 DEF n1
      <4>2. all[loop + 1] = end[(loop + 1) - loop]
        BY <2>7, <3>1, <4>1
      <4> QED BY <2>7, <3>1, <4>1, <4>2
    <3> QED BY <3>2, <3>3
  <2>15. \A i \in 1 .. n1 : i = 1 \/ i \in 2 .. loop \/ (last # 0 /\ i = loop + 1)
    BY <2>6, <2>7 DEF n1
  <2>16. \A i \in 1 .. n1 : all[i] = R[i]
    <3> SUFFICES ASSUME NEW i \in 1 .. n1 PROVE all[i] = R[i]
      OBVIOUS
    <3>1. CASE i = 1
      BY <2>7, <2>8, <2>13, <2>14, <3>1
    <3>2. CASE i \in 2 .. loop
      <4>1. i \in 1 .. loop
        BY <2>7, <3>2
      <4>2. all[i] = g[i]
        BY <2>14, <4>1
      <4>3. g[i] = middle[i - 1]
        BY <2>13, <3>2
      <4>4. R[i] = middle[i - 1]
        BY <2>8, <3>2
      <4> QED BY <4>2, <4>3, <4>4
    <3>3. CASE last # 0 /\ i = loop + 1
      BY <2>8, <2>14, <3>3
    <3> QED BY <2>15, <3>1, <3>2, <3>3
  <2>17. all = [i \in 1 .. n1 |-> all[i]]
    BY <2>14, LenProperties
  <2>18. all = R
    BY <2>8, <2>16, <2>17 DEF n1
  <2> QED BY <1>1, <2>7, <2>18 DEF all, g, R
<1> QED BY <1>5, <1>6

-----------------------------------------------------------------------------
(* The requests of a command stay inside it and inside their slices, follow *)
(* one another, and leave no block out.                                     *)

Requests == [lsa : Keys, startIndex : Nat, nvmeBlockOffset : Offsets,
             numOfNvmeBlock : 1 .. NVME_BLOCKS_PER_SLICE]

Fits(start, n, r) ==
    /\ r \in Requests
    /\ r.nvmeBlockOffset + r.numOfNvmeBlock <= N
    /\ start + r.startIndex = r.lsa * N + r.nvmeBlockOffset
    /\ r.startIndex + r.numOfNvmeBlock <= n

LEMMA RequestFields ==
    ASSUME NEW start \in Nat, NEW n \in Nat \ {0}, NEW i
    PROVE  /\ RequestAt(start, n, i).lsa = (start \div N) + i - 1
           /\ RequestAt(start, n, i).startIndex =
                 IF i = 1 THEN 0 ELSE First(start, n) + (i - 2) * N
           /\ RequestAt(start, n, i).nvmeBlockOffset = IF i = 1 THEN Offset(start) ELSE 0
           /\ RequestAt(start, n, i).numOfNvmeBlock =
                 IF i = 1 THEN First(start, n)
                 ELSE IF i <= Loop(start, n) THEN N ELSE Last(start, n)
BY Zenon DEF RequestAt, SliceRequest

LEMMA SplitFits ==
    ASSUME NEW start \in Nat, NEW n \in Nat \ {0}, start + n <= SLICES * N,
           NEW i \in 1 .. Count(start, n)
    PROVE  Fits(start, n, RequestAt(start, n, i))
<1> DEFINE lsa == start \div N
           off == Offset(start)
           loop == Loop(start, n)
           first == First(start, n)
           last == Last(start, n)
           r == RequestAt(start, n, i)
<1>1. /\ N \in Nat \ {0} /\ SLICES \in Nat \ {0}
      /\ lsa \in Nat /\ off \in 0 .. N - 1 /\ start = lsa * N + off
      /\ loop \in Nat
      /\ loop = 0 => first = n /\ last = 0 /\ off + n < N
      /\ loop > 0 => /\ first = N - off /\ last \in 0 .. N - 1
                     /\ n = first + (loop - 1) * N + last
  BY SizeIsPositive, SplitNumbers
<1>2. /\ r.lsa = lsa + i - 1
      /\ r.startIndex = IF i = 1 THEN 0 ELSE first + (i - 2) * N
      /\ r.nvmeBlockOffset = IF i = 1 THEN off ELSE 0
      /\ r.numOfNvmeBlock = IF i = 1 THEN first ELSE IF i <= loop THEN N ELSE last
  BY RequestFields
<1>3. i \in Nat \ {0} /\ (i = 1 \/ loop > 0) /\ (i <= loop \/ (i = loop + 1 /\ (loop > 0 => last # 0)))
  <2>1. Count(start, n) = IF loop = 0 THEN 1 ELSE IF last = 0 THEN loop ELSE loop + 1
    BY DEF Count
  <2> HIDE DEF lsa, off, loop, first, last, r
  <2> QED BY <1>1, <2>1
<1>4. r = [lsa |-> r.lsa, startIndex |-> r.startIndex,
           nvmeBlockOffset |-> r.nvmeBlockOffset, numOfNvmeBlock |-> r.numOfNvmeBlock]
  BY DEF RequestAt, SliceRequest
<1> HIDE DEF lsa, off, loop, first, last, r
<1>5. CASE i = 1 /\ loop = 0
  <2>1. r.lsa = lsa /\ r.startIndex = 0 /\ r.nvmeBlockOffset = off /\ r.numOfNvmeBlock = n
    BY <1>1, <1>2, <1>5
  <2>2. lsa * N < SLICES * N
    BY <1>1
  <2>3. lsa < SLICES
    BY <1>1, <2>2, LessFactor
  <2>4. lsa \in Keys /\ off \in Offsets /\ n \in 1 .. N
    BY <1>1, <1>5, <2>3, StoreAssumption DEF StoreAssumption, Offsets, N
  <2>5. start + 0 = lsa * N + off /\ off + n <= N
    BY <1>1, <1>5
  <2> QED BY <1>4, <2>1, <2>4, <2>5 DEF Fits, Requests, N, r
<1>6. CASE i = 1 /\ loop > 0
  <2>1. r.lsa = lsa /\ r.startIndex = 0 /\ r.nvmeBlockOffset = off /\ r.numOfNvmeBlock = N - off
    BY <1>1, <1>2, <1>6
  <2>2. (loop - 1) * N \in Nat
    BY <1>1, <1>6
  <2>3. lsa * N < SLICES * N /\ N - off <= n
    BY <1>1, <1>6, <2>2
  <2>4. lsa < SLICES
    BY <1>1, <2>3, LessFactor
  <2>5. lsa \in Keys /\ off \in Offsets /\ N - off \in 1 .. N
    BY <1>1, <2>4, StoreAssumption DEF StoreAssumption, Offsets, N
  <2>6. start + 0 = lsa * N + off /\ off + (N - off) <= N
    BY <1>1
  <2> QED BY <1>4, <2>1, <2>3, <2>5, <2>6 DEF Fits, Requests, N, r
<1>7. CASE i # 1
  <2> DEFINE num == IF i <= loop THEN N ELSE last
  <2>1. r.lsa = lsa + i - 1 /\ r.startIndex = first + (i - 2) * N /\ r.nvmeBlockOffset = 0
        /\ r.numOfNvmeBlock = num
    BY <1>2, <1>7
  <2>2. loop > 0 /\ first = N - off /\ last \in 0 .. N - 1 /\ n = first + (loop - 1) * N + last
    BY <1>1, <1>3, <1>7
  <2>3. num \in 1 .. N
    BY <1>1, <1>3, <2>2
  <2>4. first + (i - 2) * N + num <= n
    <3>1. CASE i <= loop
      <4>1. PICK d \in Nat : loop = i + d
        BY <1>1, <1>3, <3>1
      <4>2. (loop - 1) * N = (i - 2) * N + N + d * N /\ d * N \in Nat
        BY <1>1, <1>3, <4>1
      <4>3. (i - 2) * N \in Int
        BY <1>1, <1>3
      <4> QED BY <1>1, <2>2, <3>1, <4>2, <4>3
    <3>2. CASE i = loop + 1
      <4>1. i - 2 = loop - 1 /\ num = last
        BY <1>1, <3>2
      <4> QED BY <1>1, <2>2, <4>1
    <3> QED BY <1>3, <3>1, <3>2
  <2> HIDE DEF num
  <2>5. start + (first + (i - 2) * N) = (lsa + i - 1) * N + 0
    BY <1>1, <1>3, <2>2
  <2>6. (i - 2) * N \in Nat
    BY <1>1, <1>3, <1>7
  <2>7. (lsa + i - 1) * N < SLICES * N
    BY <1>1, <1>3, <2>2, <2>3, <2>4, <2>5, <2>6
  <2>8. lsa + i - 1 < SLICES /\ lsa + i - 1 \in Nat
    BY <1>1, <1>3, <2>7, LessFactor
  <2>9. lsa + i - 1 \in Keys /\ 0 \in Offsets /\ num \in 1 .. N
    BY <1>1, <2>3, <2>8, StoreAssumption DEF StoreAssumption, Offsets, N
  <2>10. first + (i - 2) * N \in Nat /\ 0 + num <= N
    BY <1>1, <2>2, <2>3, <2>6
  <2> QED BY <1>4, <2>1, <2>4, <2>5, <2>9, <2>10 DEF Fits, Requests, N, r
<1> QED BY <1>1, <1>3, <1>5, <1>6, <1>7

LEMMA SplitOrdered ==
    ASSUME NEW start \in Nat, NEW n \in Nat \ {0},
           NEW i \in 1 .. Count(start, n), NEW j \in 1 .. Count(start, n), i < j
    PROVE  RequestAt(start, n, i).startIndex + RequestAt(start, n, i).numOfNvmeBlock
              <= RequestAt(start, n, j).startIndex
<1> DEFINE loop == Loop(start, n)
           first == First(start, n)
           last == Last(start, n)
           off == Offset(start)
<1>1. Count(start, n) = IF loop = 0 THEN 1 ELSE IF last = 0 THEN loop ELSE loop + 1
  BY DEF Count
<1>2. /\ N \in Nat \ {0} /\ loop \in Nat /\ off \in 0 .. N - 1
      /\ loop > 0 => first = N - off
  BY SizeIsPositive, SplitNumbers
<1>3. i < j /\ i \in Nat \ {0} /\ j \in Nat \ {0} /\ j # 1 /\ i <= loop /\ loop > 0
  <2> HIDE DEF loop, first, last, off
  <2> QED BY <1>1, <1>2
<1>4. RequestAt(start, n, j).startIndex = first + (j - 2) * N
  BY <1>3, RequestFields
<1>5. RequestAt(start, n, i).startIndex = (IF i = 1 THEN 0 ELSE first + (i - 2) * N)
      /\ RequestAt(start, n, i).numOfNvmeBlock = (IF i = 1 THEN first ELSE N)
  BY <1>3, RequestFields
<1> HIDE DEF loop, first, last, off
<1>6. PICK d \in Nat : j = i + 1 + d
  BY <1>3
<1>7. (j - 2) * N = (i - 1) * N + d * N /\ d * N \in Nat /\ (i - 1) * N = (i - 2) * N + N
      /\ (i - 1) * N \in Nat /\ (i - 2) * N \in Int
  BY <1>2, <1>3, <1>6
<1> QED BY <1>2, <1>3, <1>4, <1>5, <1>7

LEMMA SplitCovers ==
    ASSUME NEW start \in Nat, NEW n \in Nat \ {0}, NEW o \in 0 .. n - 1
    PROVE  \E i \in 1 .. Count(start, n) : o \in Moved(RequestAt(start, n, i))
<1> DEFINE loop == Loop(start, n)
           first == First(start, n)
           last == Last(start, n)
           off == Offset(start)
<1>1. Count(start, n) = IF loop = 0 THEN 1 ELSE IF last = 0 THEN loop ELSE loop + 1
  BY DEF Count
<1>2. /\ N \in Nat \ {0} /\ loop \in Nat /\ off \in 0 .. N - 1
      /\ loop = 0 => first = n /\ last = 0
      /\ loop > 0 => first = N - off /\ last \in 0 .. N - 1 /\ n = first + (loop - 1) * N + last
  BY SizeIsPositive, SplitNumbers
<1>3. \A i \in 1 .. Count(start, n) : Moved(RequestAt(start, n, i)) =
         LET s == IF i = 1 THEN 0 ELSE first + (i - 2) * N
             m == IF i = 1 THEN first ELSE IF i <= loop THEN N ELSE last
         IN  s .. s + m - 1
  <2> TAKE i \in 1 .. Count(start, n)
  <2> DEFINE r == RequestAt(start, n, i)
  <2>1. /\ r.startIndex = IF i = 1 THEN 0 ELSE first + (i - 2) * N
        /\ r.numOfNvmeBlock = IF i = 1 THEN first ELSE IF i <= loop THEN N ELSE last
    BY RequestFields
  <2>2. Moved(r) = r.startIndex .. r.startIndex + r.numOfNvmeBlock - 1
    BY DEF Moved
  <2> HIDE DEF r, first, last, loop
  <2>3. Moved(r) = (IF i = 1 THEN 0 ELSE first + (i - 2) * N) ..
                   (IF i = 1 THEN 0 ELSE first + (i - 2) * N)
                   + (IF i = 1 THEN first ELSE IF i <= loop THEN N ELSE last) - 1
    BY <2>1, <2>2, Zenon
  <2> QED BY <2>3 DEF r
<1> HIDE DEF loop, first, last, off
<1>4. CASE o < first
  <2>1. 1 \in 1 .. Count(start, n) /\ first \in Nat
    BY <1>1, <1>2
  <2>2. Moved(RequestAt(start, n, 1)) = 0 .. first - 1
    BY <1>3, <2>1
  <2> QED BY <1>4, <2>1, <2>2
<1>5. CASE o >= first
  <2>1. loop > 0 /\ first = N - off /\ last \in 0 .. N - 1 /\ n = first + (loop - 1) * N + last
        /\ o - first \in Nat
    BY <1>2, <1>5
  <2> DEFINE q == (o - first) \div N
             x == (o - first) % N
  <2>2. q \in Nat /\ x \in 0 .. N - 1 /\ o - first = q * N + x
    BY <1>2, <2>1, DivMod
  <2> HIDE DEF q, x
  <2>3. q * N < loop * N
    BY <1>2, <2>1, <2>2
  <2>4. q < loop
    BY <1>2, <2>2, <2>3, LessFactor
  <2>5. q = loop - 1 => x < last
    BY <1>2, <2>1, <2>2
  <2>6. q + 2 \in 1 .. Count(start, n)
    <3>1. q + 2 <= loop \/ (q + 2 = loop + 1 /\ last # 0)
      BY <1>2, <2>1, <2>2, <2>4, <2>5
    <3> QED BY <1>1, <1>2, <2>1, <2>2, <3>1
  <2>7. Moved(RequestAt(start, n, q + 2)) =
           first + q * N .. first + q * N + (IF q + 2 <= loop THEN N ELSE last) - 1
    <3>1. (q + 2) - 2 = q /\ q + 2 # 1
      BY <2>2
    <3> QED BY <1>3, <2>6, <3>1
  <2>8. q + 2 <= loop \/ q = loop - 1
    BY <1>2, <2>2, <2>4
  <2>9. q * N \in Nat
    BY <1>2, <2>2
  <2>10. o \in Moved(RequestAt(start, n, q + 2))
    BY <1>2, <2>1, <2>2, <2>5, <2>7, <2>8, <2>9
  <2> QED BY <2>6, <2>10
<1> QED BY <1>2, <1>4, <1>5

-----------------------------------------------------------------------------
(* The invariant.  CachedOnce, CleanBuffersMatch and WrittenKept need one   *)
(* another; the queue holds what is left of one command, in order.          *)

Contents == [Offsets -> Data \cup {UNWRITTEN}]

CacheTypes ==
    /\ lru \in Orders
    /\ held \in [Bufs -> Keys \cup {NONE}]
    /\ dirty \in SUBSET Bufs
    /\ data \in [Bufs -> Contents]
    /\ below \in [Keys -> Contents \cup {NONE}]
    /\ halted \in BOOLEAN
    /\ written \in SUBSET Lbas

QueueInv ==
    /\ sliceReqQ \in Seq(Requests)
    /\ sliceReqQ = <<>> => command = NoCommand
    /\ sliceReqQ # <<>> => command \in HostCommands
    /\ \A i \in 1 .. Len(sliceReqQ) : Fits(command.start, command.n, sliceReqQ[i])
    /\ \A i, j \in 1 .. Len(sliceReqQ) : i < j =>
          sliceReqQ[i].startIndex + sliceReqQ[i].numOfNvmeBlock <= sliceReqQ[j].startIndex

StoreInv == CacheTypes /\ QueueInv /\ CachedOnce /\ CleanBuffersMatch /\ WrittenKept

LEMMA KeysAreNumbers == Keys = 0 .. SLICES - 1 /\ NONE \notin Keys
BY StoreAssumption, CacheAssumption DEF StoreAssumption, CacheAssumption

\* The slice and the offset of a block of the drive.
LEMMA BlockSlice ==
    ASSUME NEW a \in Lbas
    PROVE  /\ a \in Nat
           /\ a \div N \in Keys /\ a % N \in Offsets
           /\ a = (a \div N) * N + (a % N)
<1>1. N \in Nat \ {0} /\ SLICES \in Nat \ {0} /\ a \in Nat /\ a < SLICES * N
  <2> DEFINE cap == SLICES * N
  <2>1. N \in Nat \ {0} /\ SLICES \in Nat \ {0} /\ cap \in Nat
    BY SizeIsPositive
  <2>2. a \in 0 .. cap - 1
    BY DEF Lbas, N
  <2> HIDE DEF cap
  <2>3. a \in Nat /\ a < cap
    BY <2>1, <2>2
  <2> QED BY <2>1, <2>3 DEF cap
<1> DEFINE q == a \div N
           x == a % N
<1>2. q \in Nat /\ x \in 0 .. N - 1 /\ a = q * N + x
  BY <1>1, DivMod
<1> HIDE DEF q, x
<1>3. q * N < SLICES * N
  BY <1>1, <1>2
<1>4. q < SLICES
  BY <1>1, <1>2, <1>3, LessFactor
<1>5. q \in Keys /\ x \in Offsets
  BY <1>1, <1>2, <1>4, KeysAreNumbers DEF Offsets, N
<1> QED BY <1>1, <1>2, <1>5 DEF q, x

LEMMA CommandFields ==
    ASSUME NEW c \in HostCommands
    PROVE  /\ c.start \in Nat /\ c.n \in Nat \ {0} /\ c.n \in Lengths /\ c.start + c.n <= SLICES * N
           /\ c.code = "write" => \A i \in 0 .. c.n - 1 : c.source[i] \in Data
<1>1. c.start \in Lbas /\ c.n \in Lengths /\ c.start + c.n <= SLICES * NVME_BLOCKS_PER_SLICE
  BY DEF HostCommands
<1>2. c.code = "write" => c.source \in Sources
  BY DEF HostCommands
<1>3. SLICES * NVME_BLOCKS_PER_SLICE \in Nat
  BY SizeIsPositive DEF N
<1>4. c.start \in Nat /\ c.n \in Nat \ {0} /\ c.start + c.n <= SLICES * N
  <2> DEFINE cap == SLICES * NVME_BLOCKS_PER_SLICE
  <2>1. c.start \in 0 .. cap - 1 /\ c.start + c.n <= cap /\ cap \in Nat
    BY <1>1, <1>3 DEF Lbas
  <2>2. c.n \in Nat \ {0}
    BY <1>1, StoreAssumption DEF StoreAssumption
  <2> HIDE DEF cap
  <2>3. c.start \in Nat
    BY <2>1
  <2> QED BY <2>1, <2>2, <2>3 DEF cap, N
<1>5. c.code = "write" => \A i \in 0 .. c.n - 1 : c.source[i] \in Data
  BY <1>1, <1>2, StoreAssumption DEF StoreAssumption
<1> QED BY <1>1, <1>4, <1>5

\* A buffer moved to the front keeps every buffer on the list, and is its first.
LEMMA FrontOrders ==
    ASSUME lru \in Orders, NEW b \in Bufs
    PROVE  MoveToFront(b) \in Orders /\ MoveToFront(b)[1] = b
<1> DEFINE n == Cardinality(Bufs)
           p == CHOOSE i \in DOMAIN lru : lru[i] = b
           s == MoveToFront(b)
<1>1. n \in Nat /\ n # 0
  BY CacheAssumption, FS_CardinalityType, FS_EmptySet DEF CacheAssumption
<1>2. DOMAIN lru = 1 .. n /\ lru \in [1 .. n -> Bufs] /\ \A c \in Bufs : \E i \in 1 .. n : lru[i] = c
  BY DEF Orders
<1>3. p \in 1 .. n /\ lru[p] = b
  BY <1>2
<1>4. s = [i \in 1 .. n |-> IF i = 1 THEN b ELSE IF i <= p THEN lru[i - 1] ELSE lru[i]]
  BY <1>2 DEF MoveToFront
<1> HIDE DEF n, p, s
<1>5. s \in [1 .. n -> Bufs]
  BY <1>1, <1>2, <1>3, <1>4
<1>6. \A c \in Bufs : \E i \in 1 .. n : s[i] = c
  <2> SUFFICES ASSUME NEW c \in Bufs PROVE \E i \in 1 .. n : s[i] = c
    OBVIOUS
  <2>1. PICK i \in 1 .. n : lru[i] = c
    BY <1>2
  <2>2. CASE c = b
    BY <1>1, <1>4, <2>2
  <2>3. CASE c # b /\ i < p
    <3>1. i + 1 \in 1 .. n /\ i + 1 # 1 /\ i + 1 <= p /\ (i + 1) - 1 = i
      BY <1>1, <1>3, <2>3
    <3>2. s[i + 1] = c
      BY <1>4, <2>1, <3>1
    <3> QED BY <3>1, <3>2
  <2>4. CASE c # b /\ i > p
    BY <1>3, <1>4, <2>1, <2>4
  <2> QED BY <1>3, <2>1, <2>2, <2>3, <2>4
<1>7. s[1] = b
  BY <1>1, <1>4
<1>8. DOMAIN s = 1 .. n
  BY <1>5
<1> QED BY <1>5, <1>6, <1>7, <1>8 DEF Orders, n, s

LEMMA InitStoreInv == StoreInit => StoreInv
<1> SUFFICES ASSUME StoreInit PROVE StoreInv
  OBVIOUS
<1>1. CacheTypes
  BY DEF StoreInit, CacheInit, CacheTypes, Contents
<1>2. QueueInv
  BY EmptySeq DEF StoreInit, QueueInv
<1>3. CachedOnce /\ CleanBuffersMatch /\ WrittenKept
  BY DEF StoreInit, CacheInit, CachedOnce, CleanBuffersMatch, WrittenKept
<1> QED BY <1>1, <1>2, <1>3 DEF StoreInv

\* ReqTransNvmeToSlice: the requests of the command fit, in order.
LEMMA SplitInv ==
    ASSUME StoreInv, NEW c \in HostCommands, ReqTransNvmeToSlice(c)
    PROVE  StoreInv'
<1> DEFINE k == Count(c.start, c.n)
           R(i) == RequestAt(c.start, c.n, i)
<1>1. c.start \in Nat /\ c.n \in Nat \ {0} /\ c.start + c.n <= SLICES * N
  BY CommandFields
<1>2. k \in Nat \ {0} /\ sliceReqQ' = [i \in 1 .. k |-> R(i)]
  BY <1>1, SplitShape DEF ReqTransNvmeToSlice
<1>3. \A i \in 1 .. k : Fits(c.start, c.n, R(i))
  BY <1>1, SplitFits
<1>4. \A i, j \in 1 .. k : i < j => R(i).startIndex + R(i).numOfNvmeBlock <= R(j).startIndex
  BY <1>1, SplitOrdered
<1>5. \A i \in 1 .. k : R(i) \in Requests
  BY <1>3 DEF Fits
<1> HIDE DEF k, R
<1>6. sliceReqQ' \in Seq(Requests) /\ Len(sliceReqQ') = k
  <2>1. sliceReqQ' \in [1 .. k -> Requests]
    BY <1>2, <1>5
  <2>2. sliceReqQ' \in Seq(Requests)
    BY <1>2, <2>1, SeqDef
  <2> QED BY <1>2, <2>1, <2>2, LenProperties
<1>7. sliceReqQ' # <<>> /\ command' = c
  BY <1>2, <1>6, EmptySeq DEF ReqTransNvmeToSlice
<1>8. QueueInv'
  BY <1>2, <1>3, <1>4, <1>6, <1>7 DEF QueueInv
<1>9. (CacheTypes /\ CachedOnce /\ CleanBuffersMatch /\ WrittenKept)'
  BY DEF StoreInv, ReqTransNvmeToSlice, cacheVars, CacheTypes, CachedOnce, CleanBuffersMatch,
         WrittenKept, Orders
<1> QED BY <1>8, <1>9 DEF StoreInv

\* The queue after its head was served: the rest of the same command.
LEMMA ServedQueueInv ==
    ASSUME QueueInv, sliceReqQ # <<>>, sliceReqQ' = Tail(sliceReqQ),
           command' = IF sliceReqQ' = <<>> THEN NoCommand ELSE command
    PROVE  /\ QueueInv'
           /\ Head(sliceReqQ) \in Requests
           /\ Fits(command.start, command.n, Head(sliceReqQ))
           /\ Head(sliceReqQ) = sliceReqQ[1] /\ Len(sliceReqQ) \in Nat \ {0}
           /\ Len(sliceReqQ') = Len(sliceReqQ) - 1
           /\ \A i \in 1 .. Len(sliceReqQ') : sliceReqQ'[i] = sliceReqQ[i + 1]
<1>1. sliceReqQ \in Seq(Requests) /\ Len(sliceReqQ) \in Nat \ {0}
  BY EmptySeq DEF QueueInv
<1>2. Head(sliceReqQ) = sliceReqQ[1] /\ sliceReqQ[1] \in Requests
  BY <1>1
<1>3. /\ sliceReqQ' \in Seq(Requests) /\ Len(sliceReqQ') = Len(sliceReqQ) - 1
      /\ \A i \in 1 .. Len(sliceReqQ') : sliceReqQ'[i] = sliceReqQ[i + 1]
  BY <1>1, HeadTailProperties
<1>4. Fits(command.start, command.n, sliceReqQ[1])
  BY <1>1 DEF QueueInv
<1>5. QueueInv'
  <2>1. sliceReqQ' # <<>> => command' = command /\ command \in HostCommands
    BY DEF QueueInv
  <2>2. \A i \in 1 .. Len(sliceReqQ') : i + 1 \in 1 .. Len(sliceReqQ)
    BY <1>1, <1>3
  <2>3. \A i \in 1 .. Len(sliceReqQ') : sliceReqQ' # <<>>
    <3>1. sliceReqQ' = <<>> => Len(sliceReqQ') = 0
      OBVIOUS
    <3> QED BY <3>1
  <2>4. \A i \in 1 .. Len(sliceReqQ') : Fits(command'.start, command'.n, sliceReqQ'[i])
    BY <1>3, <2>1, <2>2, <2>3 DEF QueueInv
  <2>5. \A i, j \in 1 .. Len(sliceReqQ') : i < j =>
           sliceReqQ'[i].startIndex + sliceReqQ'[i].numOfNvmeBlock <= sliceReqQ'[j].startIndex
    <3> SUFFICES ASSUME NEW i \in 1 .. Len(sliceReqQ'), NEW j \in 1 .. Len(sliceReqQ'), i < j
                 PROVE  sliceReqQ'[i].startIndex + sliceReqQ'[i].numOfNvmeBlock
                           <= sliceReqQ'[j].startIndex
      OBVIOUS
    <3>1. i + 1 \in 1 .. Len(sliceReqQ) /\ j + 1 \in 1 .. Len(sliceReqQ) /\ i + 1 < j + 1
      BY <1>1, <1>3
    <3>2. sliceReqQ[i + 1].startIndex + sliceReqQ[i + 1].numOfNvmeBlock <= sliceReqQ[j + 1].startIndex
      BY <3>1 DEF QueueInv
    <3> QED BY <1>3, <3>2
  <2> QED BY <1>3, <2>1, <2>4, <2>5 DEF QueueInv
<1> QED BY <1>1, <1>2, <1>3, <1>4, <1>5

\* What write-back leaves below the cache.
LEMMA BackIs ==
    ASSUME CacheTypes, CachedOnce, NEW bs \in SUBSET Bufs
    PROVE  /\ WrittenBack(bs) \in [Keys -> Contents \cup {NONE}]
           /\ \A b \in bs \cap dirty : held[b] \in Keys => WrittenBack(bs)[held[b]] = data[b]
           /\ \A k \in Keys : (\A b \in bs \cap dirty : held[b] # k) => WrittenBack(bs)[k] = below[k]
<1> DEFINE f(k) == IF \E b \in bs \cap dirty : held[b] = k
                   THEN data[CHOOSE b \in bs \cap dirty : held[b] = k] ELSE below[k]
<1>1. WrittenBack(bs) = [k \in Keys |-> f(k)]
  BY DEF WrittenBack
<1>2. \A k \in Keys : f(k) \in Contents \cup {NONE}
  <2> TAKE k \in Keys
  <2>1. CASE \E b \in bs \cap dirty : held[b] = k
    <3>1. (CHOOSE b \in bs \cap dirty : held[b] = k) \in Bufs
      BY <2>1
    <3> QED BY <2>1, <3>1 DEF CacheTypes
  <2>2. CASE ~ \E b \in bs \cap dirty : held[b] = k
    BY <2>2 DEF CacheTypes
  <2> QED BY <2>1, <2>2
<1>3. \A b \in bs \cap dirty : held[b] \in Keys => f(held[b]) = data[b]
  <2> SUFFICES ASSUME NEW b \in bs \cap dirty, held[b] \in Keys PROVE f(held[b]) = data[b]
    OBVIOUS
  <2>1. \A c \in bs \cap dirty : held[c] = held[b] => c = b
    BY KeysAreNumbers DEF CachedOnce
  <2>2. (CHOOSE c \in bs \cap dirty : held[c] = held[b]) = b
    BY <2>1
  <2> QED BY <2>2
<1>4. \A k \in Keys : (\A b \in bs \cap dirty : held[b] # k) => f(k) = below[k]
  OBVIOUS
<1> HIDE DEF f
<1> QED BY <1>1, <1>2, <1>3, <1>4

\* Flush: what was dirty is below, and nothing is dirty.
LEMMA FlushInv ==
    ASSUME StoreInv, FlushDataBuf
    PROVE  StoreInv'
<1>1. CacheTypes /\ CachedOnce /\ CleanBuffersMatch /\ WrittenKept /\ QueueInv
  BY DEF StoreInv
<1>2. /\ dirty' = {} /\ lru' = lru /\ held' = held /\ below' = WrittenBack(Bufs)
      /\ data' = data /\ command' = command /\ sliceReqQ' = sliceReqQ
      /\ halted' = halted /\ written' = written
  BY DEF FlushDataBuf, Flush
<1>3. /\ below' \in [Keys -> Contents \cup {NONE}]
      /\ \A b \in dirty : held[b] \in Keys => below'[held[b]] = data[b]
      /\ \A k \in Keys : (\A b \in dirty : held[b] # k) => below'[k] = below[k]
  BY <1>1, <1>2, BackIs DEF CacheTypes
<1>4. CacheTypes' /\ QueueInv' /\ CachedOnce'
  BY <1>1, <1>2, <1>3 DEF CacheTypes, QueueInv, CachedOnce, Orders
<1>5. CleanBuffersMatch'
  <2> SUFFICES ASSUME NEW b \in Bufs, held[b] # NONE, below'[held[b]] # NONE
               PROVE  data[b] = below'[held[b]]
    BY <1>2 DEF CleanBuffersMatch
  <2>1. held[b] \in Keys
    BY <1>1 DEF CacheTypes
  <2>2. CASE b \in dirty
    BY <1>3, <2>1, <2>2
  <2>3. CASE b \notin dirty
    <3>1. \A c \in dirty : held[c] # held[b]
      BY <1>1, <2>3 DEF CachedOnce, CacheTypes
    <3> QED BY <1>1, <1>3, <2>1, <2>3, <3>1 DEF CleanBuffersMatch
  <2> QED BY <2>2, <2>3
<1>6. WrittenKept'
  <2> SUFFICES ASSUME NEW a \in written
               PROVE  below'[a \div NVME_BLOCKS_PER_SLICE] # NONE
    BY <1>2 DEF WrittenKept
  <2> DEFINE k == a \div NVME_BLOCKS_PER_SLICE
  <2>1. k \in Keys
    BY <1>1, BlockSlice DEF CacheTypes, N
  <2>2. below[k] # NONE \/ \E b \in dirty : held[b] = k
    BY <1>1 DEF WrittenKept
  <2> HIDE DEF k
  <2>3. CASE \E b \in dirty : held[b] = k
    <3>1. PICK b \in dirty : held[b] = k
      BY <2>3
    <3>2. below'[k] = data[b] /\ data[b] \in Contents
      BY <1>1, <1>3, <2>1, <3>1 DEF CacheTypes
    <3> QED BY <3>2, StoreAssumption DEF StoreAssumption, Contents, k
  <2>4. CASE \A b \in dirty : held[b] # k
    BY <1>3, <2>1, <2>2, <2>4 DEF k
  <2> QED BY <2>3, <2>4
<1> QED BY <1>4, <1>5, <1>6 DEF StoreInv

-----------------------------------------------------------------------------
(* Serving a slice request.                                                 *)

\* What the transfer leaves in the buffer: the blocks of the request from the
\* host, the others as they were in contents c.
Overwritten(r, c) ==
    [o \in Offsets |-> IF o \in Covered(r)
                       THEN command.source[r.startIndex + o - r.nvmeBlockOffset] ELSE c[o]]

LEMMA TransferIs ==
    ASSUME StoreInv, sliceReqQ # <<>>, NEW r, Fits(command.start, command.n, r),
           NEW b \in Bufs, NEW c \in Contents, Transfer(r, b, c)
    PROVE  /\ data' = [data EXCEPT ![b] = IF IsWrite THEN Overwritten(r, c) ELSE c]
           /\ IsWrite => Overwritten(r, c) \in Contents
           /\ written' = IF IsWrite THEN written \cup LbasOf(r) ELSE written
<1>1. command \in HostCommands
  BY DEF StoreInv, QueueInv
<1>2. ASSUME IsWrite PROVE Overwritten(r, c) \in Contents
  <2> SUFFICES ASSUME NEW o \in Offsets, o \in Covered(r)
               PROVE  command.source[r.startIndex + o - r.nvmeBlockOffset] \in Data
    BY DEF Overwritten, Contents
  <2>1. r.startIndex \in Nat /\ r.nvmeBlockOffset \in Nat /\ r.numOfNvmeBlock \in Nat
        /\ r.startIndex + r.numOfNvmeBlock <= command.n /\ command.n \in Nat
    BY <1>1, CommandFields, SizeIsPositive DEF Fits, Requests, Offsets, N
  <2>2. o \in r.nvmeBlockOffset .. r.nvmeBlockOffset + r.numOfNvmeBlock - 1
    BY DEF Covered
  <2>3. r.startIndex + o - r.nvmeBlockOffset \in 0 .. command.n - 1
    BY <2>1, <2>2
  <2> QED BY <1>1, <1>2, <2>3, CommandFields DEF IsWrite
<1>3. data' = [data EXCEPT ![b] = IF IsWrite THEN Overwritten(r, c) ELSE c]
  BY DEF Transfer, Overwritten
<1>4. written' = IF IsWrite THEN written \cup LbasOf(r) ELSE written
  BY DEF Transfer
<1> QED BY <1>2, <1>3, <1>4

\* The blocks of a request, by slice and offset and by place in the command.
LEMMA BlocksOfRequest ==
    ASSUME NEW start \in Nat, NEW n \in Nat \ {0}, NEW r, Fits(start, n, r), NEW a \in Lbas
    PROVE  /\ a \in LbasOf(r) <=> a \div N = r.lsa /\ a % N \in Covered(r)
           /\ a \in LbasOf(r) <=> a - start \in Moved(r)
           /\ a \in LbasOf(r) => r.startIndex + (a % N) - r.nvmeBlockOffset = a - start
<1> DEFINE k == a \div N
           o == a % N
           off == r.nvmeBlockOffset
           num == r.numOfNvmeBlock
           lsa == r.lsa
           s == r.startIndex
<1>1. /\ N \in Nat \ {0} /\ a \in Nat /\ k \in Nat /\ o \in 0 .. N - 1 /\ a = k * N + o
  BY SizeIsPositive, BlockSlice, KeysAreNumbers DEF Offsets, N
<1>2. /\ lsa \in Nat /\ s \in Nat /\ off \in 0 .. N - 1 /\ num \in 1 .. N /\ off + num <= N
      /\ start + s = lsa * N + off
  BY SizeIsPositive, KeysAreNumbers DEF Fits, Requests, Offsets, N
<1>3. Covered(r) = off .. off + num - 1 /\ Moved(r) = s .. s + num - 1
      /\ LbasOf(r) = {lsa * N + x : x \in Covered(r)}
  BY DEF Covered, Moved, LbasOf, N
<1> HIDE DEF k, o, off, num, lsa, s
<1>4. ASSUME a \in LbasOf(r) PROVE k = lsa /\ o \in Covered(r)
  <2>1. PICK x \in Covered(r) : a = lsa * N + x
    BY <1>3, <1>4
  <2>2. x \in off .. off + num - 1
    BY <1>3, <2>1
  <2>3. x \in 0 .. N - 1
    BY <1>1, <1>2, <2>2
  <2>4. k = lsa /\ o = x
    BY <1>1, <1>2, <2>1, <2>3, DivModUnique DEF k, o
  <2> QED BY <2>1, <2>4
<1>5. ASSUME k = lsa, o \in Covered(r)
      PROVE  a \in LbasOf(r) /\ s + o - off = a - start /\ a - start \in Moved(r)
  <2>1. a = lsa * N + o /\ o \in off .. off + num - 1
    BY <1>1, <1>3, <1>5
  <2>2. a \in LbasOf(r)
    BY <1>3, <1>5, <2>1
  <2> DEFINE p == lsa * N
  <2>3. p \in Nat /\ a = p + o /\ start + s = p + off
    BY <1>1, <1>2, <2>1
  <2> HIDE DEF p
  <2>4. s + o - off = a - start
    BY <1>1, <1>2, <2>3
  <2>5. a - start \in s .. s + num - 1
    BY <1>1, <1>2, <2>1, <2>4
  <2> QED BY <1>3, <2>2, <2>4, <2>5
<1>6. ASSUME a - start \in Moved(r) PROVE a \in LbasOf(r)
  <2>1. PICK x \in s .. s + num - 1 : a - start = x
    BY <1>3, <1>6
  <2>2. a = lsa * N + (off + (x - s)) /\ off + (x - s) \in Covered(r)
    BY <1>1, <1>2, <1>3, <2>1
  <2> QED BY <1>3, <2>2
<1> QED BY <1>4, <1>5, <1>6 DEF k, o, off, num, lsa, s

LEMMA BlocksInside ==
    ASSUME NEW start \in Nat, NEW n \in Nat \ {0}, NEW r, Fits(start, n, r)
    PROVE  LbasOf(r) \subseteq Lbas
<1> SUFFICES ASSUME NEW x \in Covered(r) PROVE r.lsa * N + x \in Lbas
  BY DEF LbasOf, N
<1>1. /\ N \in Nat \ {0} /\ SLICES \in Nat \ {0} /\ r.lsa \in Nat /\ r.lsa + 1 <= SLICES
      /\ x \in 0 .. N - 1
  BY SizeIsPositive, KeysAreNumbers DEF Fits, Requests, Offsets, Covered, N
<1> DEFINE lsa == r.lsa
<1> HIDE DEF lsa
<1>2. PICK d \in Nat : SLICES = lsa + 1 + d
  <2>1. SLICES - lsa - 1 \in Nat /\ SLICES = lsa + 1 + (SLICES - lsa - 1)
    BY <1>1 DEF lsa
  <2> QED BY <2>1
<1>3. SLICES * N = lsa * N + N + d * N /\ d * N \in Nat /\ lsa * N \in Nat
  BY <1>1, <1>2 DEF lsa
<1> DEFINE cap == SLICES * N
           at == lsa * N
           rest == d * N
<1> HIDE DEF cap, at, rest
<1>4. cap = at + N + rest /\ rest \in Nat /\ at \in Nat
  BY <1>3 DEF cap, at, rest
<1>5. at + x \in 0 .. cap - 1
  BY <1>1, <1>4
<1> QED BY <1>5 DEF at, cap, lsa, Lbas, N

LEMMA HitInv ==
    ASSUME StoreInv, sliceReqQ # <<>>, NEW r, Fits(command.start, command.n, r),
           NEW b \in Bufs, ServeHit(r, b)
    PROVE  (CacheTypes /\ CachedOnce /\ CleanBuffersMatch /\ WrittenKept)'
<1>1. /\ CacheTypes /\ CachedOnce /\ CleanBuffersMatch /\ WrittenKept
      /\ command.start \in Nat /\ command.n \in Nat \ {0}
  BY CommandFields DEF StoreInv, QueueInv
<1>2. /\ held[b] = r.lsa /\ lru' = MoveToFront(b)
      /\ dirty' = IF IsWrite THEN dirty \cup {b} ELSE dirty
      /\ held' = held /\ below' = below /\ halted' = halted
  BY DEF ServeHit, Hit
<1>3. /\ data' = [data EXCEPT ![b] = IF IsWrite THEN Overwritten(r, data[b]) ELSE data[b]]
      /\ IsWrite => Overwritten(r, data[b]) \in Contents
      /\ written' = IF IsWrite THEN written \cup LbasOf(r) ELSE written
  <2>1. data[b] \in Contents /\ Transfer(r, b, data[b])
    BY <1>1 DEF CacheTypes, ServeHit
  <2> QED BY <2>1, TransferIs
<1>4. LbasOf(r) \subseteq Lbas
  BY <1>1, BlocksInside
<1>5. CacheTypes'
  <2>1. lru' \in Orders /\ Orders' = Orders
    BY <1>1, <1>2, FrontOrders DEF CacheTypes, Orders
  <2>2. data' \in [Bufs -> Contents] /\ Contents' = Contents
    BY <1>1, <1>3 DEF CacheTypes, Contents
  <2>3. written' \in SUBSET Lbas
    BY <1>1, <1>3, <1>4 DEF CacheTypes
  <2> QED BY <1>1, <1>2, <2>1, <2>2, <2>3 DEF CacheTypes
<1>6. CachedOnce'
  BY <1>1, <1>2 DEF CachedOnce
<1>7. CleanBuffersMatch'
  <2> SUFFICES ASSUME NEW c \in Bufs, held[c] # NONE, c \notin dirty', below[held[c]] # NONE
               PROVE  data'[c] = below[held[c]]
    BY <1>2 DEF CleanBuffersMatch
  <2>1. c \notin dirty /\ data'[c] = data[c]
    BY <1>1, <1>2, <1>3 DEF CacheTypes
  <2> QED BY <1>1, <2>1 DEF CleanBuffersMatch
<1>8. WrittenKept'
  <2> SUFFICES ASSUME NEW a \in written'
               PROVE  LET k == a \div NVME_BLOCKS_PER_SLICE
                      IN  below[k] # NONE \/ \E c \in dirty' : held[c] = k
    BY <1>2 DEF WrittenKept
  <2>1. CASE a \in written
    BY <1>1, <1>2, <2>1 DEF WrittenKept
  <2>2. CASE IsWrite /\ a \in LbasOf(r)
    <3>1. a \div N = r.lsa
      BY <1>1, <1>4, <2>2, BlocksOfRequest
    <3> QED BY <1>2, <2>2, <3>1 DEF N
  <2> QED BY <1>3, <2>1, <2>2
<1> QED BY <1>5, <1>6, <1>7, <1>8

LEMMA MissInv ==
    ASSUME StoreInv, sliceReqQ # <<>>, NEW r, Fits(command.start, command.n, r),
           NEW b \in Bufs, ServeMiss(r, b)
    PROVE  (CacheTypes /\ CachedOnce /\ CleanBuffersMatch /\ WrittenKept)'
<1>1. /\ CacheTypes /\ CachedOnce /\ CleanBuffersMatch /\ WrittenKept
      /\ command.start \in Nat /\ command.n \in Nat \ {0}
  BY CommandFields DEF StoreInv, QueueInv
<1> DEFINE c == IF IsWrite THEN data[b] ELSE DataReadFromNand(r.lsa, b)
<1>2. /\ \A e \in Bufs : held[e] # r.lsa
      /\ lru' = MoveToFront(b)
      /\ dirty' = IF IsWrite THEN dirty \cup {b} ELSE dirty \ {b}
      /\ held' = [held EXCEPT ![b] = r.lsa]
      /\ below' = WrittenBack({b}) /\ halted' = halted
      /\ Transfer(r, b, c)
  BY DEF ServeMiss, Miss, Holds
<1>3. r.lsa \in Keys /\ NONE \notin Keys
  BY KeysAreNumbers DEF Fits, Requests
<1>4. c \in Contents
  BY <1>1, <1>3 DEF CacheTypes, DataReadFromNand
<1>5. /\ data' = [data EXCEPT ![b] = IF IsWrite THEN Overwritten(r, c) ELSE c]
      /\ IsWrite => Overwritten(r, c) \in Contents
      /\ written' = IF IsWrite THEN written \cup LbasOf(r) ELSE written
  <2> HIDE DEF c
  <2> QED BY <1>2, <1>4, TransferIs
<1>6. LbasOf(r) \subseteq Lbas
  BY <1>1, BlocksInside
<1>7. /\ below' \in [Keys -> Contents \cup {NONE}]
      /\ b \in dirty /\ held[b] \in Keys => below'[held[b]] = data[b]
      /\ \A k \in Keys : b \notin dirty \/ held[b] # k => below'[k] = below[k]
  BY <1>1, <1>2, BackIs
<1>8. CacheTypes'
  <2>1. lru' \in Orders /\ Orders' = Orders
    BY <1>1, <1>2, FrontOrders DEF CacheTypes, Orders
  <2>2. data' \in [Bufs -> Contents] /\ Contents' = Contents
    <3> HIDE DEF c
    <3> QED BY <1>1, <1>4, <1>5 DEF CacheTypes, Contents
  <2>3. written' \in SUBSET Lbas
    BY <1>1, <1>5, <1>6 DEF CacheTypes
  <2>4. held' \in [Bufs -> Keys \cup {NONE}] /\ dirty' \in SUBSET Bufs /\ halted' \in BOOLEAN
    BY <1>1, <1>2, <1>3 DEF CacheTypes
  <2> QED BY <1>7, <2>1, <2>2, <2>3, <2>4 DEF CacheTypes
<1>9. \A e \in Bufs : held'[e] = IF e = b THEN r.lsa ELSE held[e]
  BY <1>1, <1>2 DEF CacheTypes
<1>10. CachedOnce'
  BY <1>1, <1>2, <1>9 DEF CachedOnce
<1>11. CleanBuffersMatch'
  <2> SUFFICES ASSUME NEW e \in Bufs, held'[e] # NONE, e \notin dirty', below'[held'[e]] # NONE
               PROVE  data'[e] = below'[held'[e]]
    BY DEF CleanBuffersMatch
  <2>1. CASE e = b
    <3>1. ~IsWrite /\ held'[e] = r.lsa /\ below'[r.lsa] = below[r.lsa]
      BY <1>2, <1>3, <1>7, <1>9, <2>1
    <3>2. data'[e] = DataReadFromNand(r.lsa, b)
      BY <1>1, <1>5, <2>1, <3>1 DEF CacheTypes
    <3> QED BY <3>1, <3>2 DEF DataReadFromNand
  <2>2. CASE e # b
    <3>1. held'[e] = held[e] /\ held[e] \in Keys /\ e \notin dirty
      BY <1>1, <1>2, <1>9, <2>2 DEF CacheTypes
    <3>2. held[b] # held[e]
      BY <1>1, <1>3, <2>2, <3>1 DEF CachedOnce
    <3>3. below'[held[e]] = below[held[e]]
      BY <1>7, <3>1, <3>2
    <3>4. data'[e] = data[e]
      BY <1>1, <1>5, <2>2 DEF CacheTypes
    <3> QED BY <1>1, <3>1, <3>3, <3>4 DEF CleanBuffersMatch
  <2> QED BY <2>1, <2>2
<1>12. WrittenKept'
  <2> SUFFICES ASSUME NEW a \in written'
               PROVE  LET k == a \div NVME_BLOCKS_PER_SLICE
                      IN  below'[k] # NONE \/ \E e \in dirty' : held'[e] = k
    BY DEF WrittenKept
  <2> DEFINE k == a \div NVME_BLOCKS_PER_SLICE
  <2>1. k \in Keys
    BY <1>8, BlockSlice DEF CacheTypes, N
  <2>2. CASE a \in written
    <3>1. below[k] # NONE \/ \E e \in dirty : held[e] = k
      BY <1>1, <2>2 DEF WrittenKept
    <3> HIDE DEF k
    <3>2. CASE b \in dirty /\ held[b] = k
      <4>1. below'[k] = data[b] /\ data[b] \in Contents
        BY <1>1, <1>7, <2>1, <3>2 DEF CacheTypes
      <4> QED BY <4>1, StoreAssumption DEF StoreAssumption, Contents, k
    <3>3. CASE ~(b \in dirty /\ held[b] = k)
      <4>1. below'[k] = below[k]
        BY <1>7, <2>1, <3>3
      <4>2. ASSUME NEW e \in dirty, held[e] = k PROVE e \in dirty' /\ held'[e] = k
        <5>1. e # b /\ e \in Bufs
          BY <1>1, <3>3, <4>2 DEF CacheTypes
        <5> QED BY <1>2, <1>9, <4>2, <5>1
      <4> QED BY <3>1, <4>1, <4>2 DEF k
    <3> QED BY <3>2, <3>3
  <2>3. CASE IsWrite /\ a \in LbasOf(r)
    <3>1. a \div N = r.lsa
      BY <1>1, <1>6, <2>3, BlocksOfRequest
    <3> QED BY <1>2, <1>9, <2>3, <3>1 DEF N
  <2> QED BY <1>5, <2>2, <2>3
<1> QED BY <1>8, <1>10, <1>11, <1>12

-----------------------------------------------------------------------------
(* The invariants of every behaviour without a partial write that misses.   *)

LEMMA ServeInv ==
    ASSUME StoreInv, ReqTransSliceToLowLevel, ~halted'
    PROVE  /\ StoreInv'
           /\ Fits(command.start, command.n, Head(sliceReqQ))
           /\ \E b \in Bufs : ServeHit(Head(sliceReqQ), b) \/ ServeMiss(Head(sliceReqQ), b)
<1> DEFINE r == Head(sliceReqQ)
<1>1. /\ sliceReqQ # <<>> /\ sliceReqQ' = Tail(sliceReqQ) /\ QueueInv
      /\ command' = IF sliceReqQ' = <<>> THEN NoCommand ELSE command
  BY DEF ReqTransSliceToLowLevel, StoreInv
<1>2. PICK b \in Bufs : ServeHit(r, b) \/ ServeMiss(r, b)
  BY DEF ReqTransSliceToLowLevel, FailPartialWrite
<1>3. QueueInv' /\ Fits(command.start, command.n, r)
  BY <1>1, ServedQueueInv
<1> HIDE DEF r
<1>4. (CacheTypes /\ CachedOnce /\ CleanBuffersMatch /\ WrittenKept)'
  BY <1>1, <1>2, <1>3, HitInv, MissInv
<1> QED BY <1>2, <1>3, <1>4 DEF StoreInv, r

LEMMA StoreStep == StoreInv /\ [StoreNext /\ ~halted']_storeVars => StoreInv'
<1> SUFFICES ASSUME StoreInv, [StoreNext /\ ~halted']_storeVars PROVE StoreInv'
  OBVIOUS
<1>1. CASE \E c \in HostCommands : ReqTransNvmeToSlice(c)
  BY <1>1, SplitInv
<1>2. CASE ReqTransSliceToLowLevel /\ ~halted'
  BY <1>2, ServeInv
<1>3. CASE FlushDataBuf
  BY <1>3, FlushInv
<1>4. CASE UNCHANGED storeVars
  BY <1>4 DEF storeVars, cacheVars, StoreInv, CacheTypes, QueueInv, CachedOnce,
              CleanBuffersMatch, WrittenKept, Orders
<1> QED BY <1>1, <1>2, <1>3, <1>4 DEF StoreNext

LEMMA StoreInvHolds == StoreSpecUnlessHalted => []StoreInv
<1>1. StoreInit => StoreInv
  BY InitStoreInv
<1>2. StoreInv /\ [StoreNext /\ ~halted']_storeVars => StoreInv'
  BY StoreStep
<1> QED BY <1>1, <1>2, PTL DEF StoreSpecUnlessHalted

\* Every variable keeps its type: in particular every slice request lies inside
\* the capacity and inside its slice (ReqTransNvmeToSlice), for every size of a
\* slice and of the drive, and every buffer stays on the LRU list.
THEOREM TypeCorrect == StoreSpecUnlessHalted => []TypeOK
<1>1. StoreInv => TypeOK
  <2> SUFFICES ASSUME StoreInv PROVE TypeOK
    OBVIOUS
  <2>1. \A i \in DOMAIN sliceReqQ : sliceReqQ[i] \in Requests
    BY ElementOfSeq, LenProperties DEF StoreInv, QueueInv
  <2>2. command \in HostCommands \cup {NoCommand}
    BY DEF StoreInv, QueueInv
  <2> QED BY <2>1, <2>2 DEF StoreInv, CacheTypes, TypeOK, Requests, Contents
<1> QED BY <1>1, StoreInvHolds, PTL

\* No slice is cached twice, whatever is served, evicted or flushed.
THEOREM SlicesCachedOnce == StoreSpecUnlessHalted => []CachedOnce
<1>1. StoreInv => CachedOnce
  BY DEF StoreInv
<1> QED BY <1>1, StoreInvHolds, PTL

\* A buffer that is not dirty agrees with the flash, so that AllocateDataBuf may
\* take it without writing it back.
THEOREM CleanBuffersStayClean == StoreSpecUnlessHalted => []CleanBuffersMatch
<1>1. StoreInv => CleanBuffersMatch
  BY DEF StoreInv
<1> QED BY <1>1, StoreInvHolds, PTL

\* What the host has written stays on the flash or in a dirty buffer.
THEOREM WrittenDataKept == StoreSpecUnlessHalted => []WrittenKept
<1>1. StoreInv => WrittenKept
  BY DEF StoreInv
<1> QED BY <1>1, StoreInvHolds, PTL

-----------------------------------------------------------------------------
(* Commands are reads and writes of a store of blocks.                      *)

\* What a search of the buffers h, with contents d above f, finds for slice k.
Found(h, d, f, k) ==
    IF {b \in Bufs : h[b] = k} = {} THEN f[k] ELSE d[CHOOSE b \in Bufs : h[b] = k]

LEMMA FoundIs ==
    ASSUME NEW h, NEW d, NEW f, NEW k,
           \A x, y \in Bufs : h[x] = k /\ h[y] = k => x = y
    PROVE  /\ \A b \in Bufs : h[b] = k => Found(h, d, f, k) = d[b]
           /\ (\A b \in Bufs : h[b] # k) => Found(h, d, f, k) = f[k]
<1>1. ASSUME NEW b \in Bufs, h[b] = k PROVE Found(h, d, f, k) = d[b]
  <2>1. (CHOOSE c \in Bufs : h[c] = k) = b
    BY <1>1
  <2>2. {c \in Bufs : h[c] = k} # {}
    BY <1>1
  <2> QED BY <2>1, <2>2 DEF Found
<1>2. ASSUME \A b \in Bufs : h[b] # k PROVE Found(h, d, f, k) = f[k]
  <2>1. {c \in Bufs : h[c] = k} = {}
    BY <1>2
  <2> QED BY <2>1 DEF Found
<1> QED BY <1>1, <1>2

\* Content before and after a step, by the buffer that holds the slice.
LEMMA ContentIs ==
    ASSUME StoreInv, NEW k \in Keys
    PROVE  /\ \A b \in Bufs : held[b] = k => Content(k) = data[b]
           /\ (\A b \in Bufs : held[b] # k) => Content(k) = below[k]
<1>1. \A x, y \in Bufs : held[x] = k /\ held[y] = k => x = y
  BY KeysAreNumbers DEF StoreInv, CachedOnce
<1>2. Content(k) = Found(held, data, below, k)
  BY DEF Content, Holds, Found
<1> QED BY <1>1, <1>2, FoundIs

LEMMA ContentAfterIs ==
    ASSUME StoreInv', NEW k \in Keys
    PROVE  /\ \A b \in Bufs : held'[b] = k => Content(k)' = data'[b]
           /\ (\A b \in Bufs : held'[b] # k) => Content(k)' = below'[k]
<1>1. \A x, y \in Bufs : held'[x] = k /\ held'[y] = k => x = y
  BY KeysAreNumbers DEF StoreInv, CachedOnce
<1>2. Content(k)' = Found(held', data', below', k)
  BY DEF Content, Holds, Found
<1> QED BY <1>1, <1>2, FoundIs

\* Serving a request leaves what is found of other slices, and of its own slice
\* overwrites the blocks of a write.
LEMMA ServedContent ==
    ASSUME StoreInv, StoreInv', sliceReqQ # <<>>, NEW r, Fits(command.start, command.n, r),
           NEW b \in Bufs, ServeHit(r, b) \/ ServeMiss(r, b), NEW k \in Keys,
           below[k] # NONE \/ \E e \in dirty : held[e] = k
    PROVE  IF k = r.lsa /\ IsWrite
           THEN \A o \in Offsets : o \notin Covered(r) => Content(k)'[o] = Content(k)[o]
           ELSE Content(k)' = Content(k)
<1>1. CacheTypes /\ CachedOnce /\ CleanBuffersMatch /\ r.lsa \in Keys /\ NONE \notin Keys
  BY KeysAreNumbers DEF StoreInv, Fits, Requests
<1>2. CASE ServeHit(r, b)
  <2>1. /\ held[b] = r.lsa /\ held' = held /\ below' = below
        /\ data' = [data EXCEPT ![b] = IF IsWrite THEN Overwritten(r, data[b]) ELSE data[b]]
    <3>1. data[b] \in Contents /\ Transfer(r, b, data[b])
      BY <1>1, <1>2 DEF CacheTypes, ServeHit
    <3> QED BY <1>2, <3>1, TransferIs DEF ServeHit, Hit
  <2>2. CASE k = r.lsa
    <3>1. Content(k) = data[b] /\ Content(k)' = data'[b]
      BY <2>1, <2>2, ContentIs, ContentAfterIs
    <3>2. data'[b] = IF IsWrite THEN Overwritten(r, data[b]) ELSE data[b]
      BY <1>1, <2>1 DEF CacheTypes
    <3> QED BY <2>2, <3>1, <3>2 DEF Overwritten
  <2>3. CASE k # r.lsa
    <3>1. CASE \E e \in Bufs : held[e] = k
      <4>1. PICK e \in Bufs : held[e] = k
        BY <3>1
      <4>2. Content(k) = data[e] /\ Content(k)' = data'[e] /\ e # b
        BY <2>1, <2>3, <4>1, ContentIs, ContentAfterIs
      <4>3. data'[e] = data[e]
        BY <1>1, <2>1, <4>2 DEF CacheTypes
      <4> QED BY <2>3, <4>2, <4>3
    <3>2. CASE \A e \in Bufs : held[e] # k
      BY <2>1, <2>3, <3>2, ContentIs, ContentAfterIs
    <3> QED BY <3>1, <3>2
  <2> QED BY <2>2, <2>3
<1>3. CASE ServeMiss(r, b)
  <2> DEFINE c == IF IsWrite THEN data[b] ELSE DataReadFromNand(r.lsa, b)
  <2>1. /\ \A e \in Bufs : held[e] # r.lsa
        /\ held' = [held EXCEPT ![b] = r.lsa]
        /\ below' = WrittenBack({b})
        /\ Transfer(r, b, c)
        /\ IsWrite => Whole(r)
    BY <1>3 DEF ServeMiss, Miss, Holds
  <2>2. c \in Contents
    BY <1>1 DEF CacheTypes, DataReadFromNand
  <2>3. data' = [data EXCEPT ![b] = IF IsWrite THEN Overwritten(r, c) ELSE c]
    <3> HIDE DEF c
    <3> QED BY <2>1, <2>2, TransferIs
  <2>4. /\ b \in dirty /\ held[b] \in Keys => below'[held[b]] = data[b]
        /\ \A m \in Keys : b \notin dirty \/ held[b] # m => below'[m] = below[m]
    BY <1>1, <2>1, BackIs
  <2>5. \A e \in Bufs : held'[e] = IF e = b THEN r.lsa ELSE held[e]
    BY <1>1, <2>1 DEF CacheTypes
  <2>6. CASE k = r.lsa
    <3>1. Content(k) = below[k] /\ Content(k)' = data'[b] /\ below[k] # NONE
      <4>1. below[k] # NONE
        BY <1>1, <2>1, <2>6 DEF CacheTypes
      <4> QED BY <2>1, <2>5, <2>6, <4>1, ContentIs, ContentAfterIs
    <3>2. CASE IsWrite
      <4>1. \A o \in Offsets : o \in Covered(r)
        <5>1. r.numOfNvmeBlock = N /\ r.nvmeBlockOffset + N <= N /\ r.nvmeBlockOffset \in 0 .. N - 1
              /\ N \in Nat \ {0}
          BY <2>1, <3>2, SizeIsPositive DEF Whole, Fits, Requests, Offsets, N
        <5>2. r.nvmeBlockOffset = 0
          BY <5>1
        <5> QED BY <5>1, <5>2 DEF Covered, Offsets, N
      <4> QED BY <2>6, <3>2, <4>1
    <3>3. CASE ~IsWrite
      <4>1. data'[b] = c /\ c = below[k]
        BY <1>1, <2>3, <2>6, <3>1, <3>3 DEF CacheTypes, DataReadFromNand
      <4> QED BY <2>6, <3>1, <3>3, <4>1
    <3> QED BY <3>2, <3>3
  <2>7. CASE k # r.lsa
    <3>1. CASE held[b] = k
      <4>1. Content(k) = data[b]
        BY <3>1, ContentIs
      <4>2. \A e \in Bufs : held'[e] # k
        BY <1>1, <2>5, <2>7, <3>1 DEF CachedOnce
      <4>3. Content(k)' = below'[k]
        BY <4>2, ContentAfterIs
      <4>4. CASE b \in dirty
        BY <2>4, <2>7, <3>1, <4>1, <4>3, <4>4
      <4>5. CASE b \notin dirty
        <5>1. below[k] # NONE
          BY <1>1, <3>1, <4>5 DEF CachedOnce, CacheTypes
        <5>2. data[b] = below[k]
          BY <1>1, <3>1, <4>5, <5>1 DEF CleanBuffersMatch
        <5> QED BY <2>4, <2>7, <4>1, <4>3, <4>5, <5>2
      <4> QED BY <4>4, <4>5
    <3>2. CASE held[b] # k /\ \E e \in Bufs : held[e] = k
      <4>1. PICK e \in Bufs : held[e] = k
        BY <3>2
      <4>2. e # b /\ held'[e] = k
        BY <2>5, <3>2, <4>1
      <4>3. Content(k) = data[e] /\ Content(k)' = data'[e]
        BY <4>1, <4>2, ContentIs, ContentAfterIs
      <4>4. data'[e] = data[e]
        BY <1>1, <2>3, <4>2 DEF CacheTypes
      <4> QED BY <2>7, <4>3, <4>4
    <3>3. CASE \A e \in Bufs : held[e] # k
      <4>1. \A e \in Bufs : held'[e] # k
        BY <2>5, <2>7, <3>3
      <4>2. Content(k) = below[k] /\ Content(k)' = below'[k]
        BY <3>3, <4>1, ContentIs, ContentAfterIs
      <4> QED BY <2>4, <2>7, <3>3, <4>2
    <3> QED BY <3>1, <3>2, <3>3
  <2> QED BY <2>6, <2>7
<1> QED BY <1>2, <1>3

\* What is stored in each block after a request was served.
LEMMA StoredAfter ==
    ASSUME StoreInv, StoreInv', sliceReqQ # <<>>, NEW r, Fits(command.start, command.n, r),
           NEW b \in Bufs, ServeHit(r, b) \/ ServeMiss(r, b), NEW a \in Lbas
    PROVE  Stored(a)' = IF IsWrite /\ a - command.start \in Moved(r)
                        THEN command.source[a - command.start] ELSE Stored(a)
<1> DEFINE k == a \div N
           o == a % N
<1>1. /\ CacheTypes /\ WrittenKept /\ command.start \in Nat /\ command.n \in Nat \ {0}
      /\ r.lsa \in Keys /\ k \in Keys /\ o \in Offsets
  BY CommandFields, BlockSlice DEF StoreInv, QueueInv, Fits, Requests
<1>2. /\ a \in LbasOf(r) <=> k = r.lsa /\ o \in Covered(r)
      /\ a \in LbasOf(r) <=> a - command.start \in Moved(r)
      /\ a \in LbasOf(r) => r.startIndex + o - r.nvmeBlockOffset = a - command.start
  BY <1>1, BlocksOfRequest
<1>3. PICK c \in Contents :
         /\ data' = [data EXCEPT ![b] = IF IsWrite THEN Overwritten(r, c) ELSE c]
         /\ written' = IF IsWrite THEN written \cup LbasOf(r) ELSE written
         /\ held'[b] = r.lsa
  <2>1. CASE ServeHit(r, b)
    <3>1. data[b] \in Contents /\ Transfer(r, b, data[b]) /\ held'[b] = r.lsa
      BY <1>1, <2>1 DEF CacheTypes, ServeHit, Hit
    <3> QED BY <3>1, TransferIs
  <2>2. CASE ServeMiss(r, b)
    <3> DEFINE c == IF IsWrite THEN data[b] ELSE DataReadFromNand(r.lsa, b)
    <3>1. c \in Contents
      BY <1>1 DEF CacheTypes, DataReadFromNand
    <3>2. Transfer(r, b, c) /\ held'[b] = r.lsa
      BY <1>1, <2>2 DEF CacheTypes, ServeMiss, Miss
    <3> HIDE DEF c
    <3> QED BY <3>1, <3>2, TransferIs
  <2> QED BY <2>1, <2>2
<1>4. /\ Stored(a) = IF a \notin written THEN UNWRITTEN ELSE Content(k)[o]
      /\ Stored(a)' = IF a \notin written' THEN UNWRITTEN ELSE Content(k)'[o]
  BY DEF Stored, N
<1> HIDE DEF k, o
<1>5. CASE IsWrite /\ a \in LbasOf(r)
  <2>1. Content(k)' = Overwritten(r, c)
    <3>1. Content(k)' = data'[b]
      BY <1>1, <1>2, <1>3, <1>5, ContentAfterIs
    <3>2. data'[b] = Overwritten(r, c)
      BY <1>1, <1>3, <1>5 DEF CacheTypes
    <3> QED BY <3>1, <3>2
  <2>2. Overwritten(r, c)[o] = command.source[a - command.start]
    BY <1>1, <1>2, <1>5 DEF Overwritten
  <2>3. a \in written'
    BY <1>3, <1>5
  <2> QED BY <1>2, <1>4, <1>5, <2>1, <2>2, <2>3
<1>6. CASE ~(IsWrite /\ a \in LbasOf(r))
  <2>1. a \in written' <=> a \in written
    BY <1>3, <1>6
  <2>2. CASE a \notin written
    BY <1>2, <1>4, <1>6, <2>1, <2>2
  <2>3. CASE a \in written
    <3>1. below[k] # NONE \/ \E e \in dirty : held[e] = k
      BY <1>1, <2>3 DEF WrittenKept, k, N
    <3>2. IF k = r.lsa /\ IsWrite
          THEN \A x \in Offsets : x \notin Covered(r) => Content(k)'[x] = Content(k)[x]
          ELSE Content(k)' = Content(k)
      BY <1>1, <3>1, ServedContent
    <3>3. Content(k)'[o] = Content(k)[o]
      BY <1>1, <1>2, <1>6, <3>2
    <3> QED BY <1>2, <1>4, <1>6, <2>1, <2>3, <3>3
  <2> QED BY <2>2, <2>3
<1> QED BY <1>5, <1>6

\* The blocks that have not moved.
Left == UNION {Moved(sliceReqQ[i]) : i \in DOMAIN sliceReqQ}

LEMMA LeftAfterServing ==
    ASSUME QueueInv, sliceReqQ # <<>>, sliceReqQ' = Tail(sliceReqQ),
           command' = IF sliceReqQ' = <<>> THEN NoCommand ELSE command
    PROVE  LET moved == Moved(Head(sliceReqQ))
           IN  /\ moved # {} /\ moved \subseteq Left /\ Left' = Left \ moved
               /\ Left' = {} <=> sliceReqQ' = <<>>
<1> DEFINE q == sliceReqQ
           n == Len(sliceReqQ)
           moved == Moved(Head(sliceReqQ))
<1>1. /\ QueueInv' /\ moved = Moved(q[1]) /\ n \in Nat \ {0} /\ Len(sliceReqQ') = n - 1
      /\ \A i \in 1 .. n - 1 : sliceReqQ'[i] = q[i + 1]
      /\ q \in Seq(Requests) /\ sliceReqQ' \in Seq(Requests)
  BY ServedQueueInv DEF QueueInv
<1>2. DOMAIN q = 1 .. n /\ DOMAIN sliceReqQ' = 1 .. n - 1 /\ \A i \in 1 .. n : q[i] \in Requests
  BY <1>1, LenProperties, ElementOfSeq
<1>3. /\ Left = UNION {Moved(q[i]) : i \in 1 .. n}
      /\ Left' = UNION {Moved(sliceReqQ'[i]) : i \in 1 .. n - 1}
  BY <1>2 DEF Left, Moved
<1>4. \A i \in 1 .. n : /\ q[i].startIndex \in Nat /\ q[i].numOfNvmeBlock \in Nat \ {0}
                        /\ Moved(q[i]) = q[i].startIndex .. q[i].startIndex + q[i].numOfNvmeBlock - 1
  BY <1>2, SizeIsPositive DEF Requests, Moved, N
<1>5. \A i \in 1 .. n : Moved(q[i]) # {}
  <2> TAKE i \in 1 .. n
  <2>1. q[i].startIndex \in Moved(q[i])
    BY <1>4
  <2> QED BY <2>1
<1>6. \A i \in 2 .. n : q[1].startIndex + q[1].numOfNvmeBlock <= q[i].startIndex
  BY <1>1 DEF QueueInv
<1>7. \A i \in 2 .. n : Moved(q[i]) \cap moved = {}
  <2> SUFFICES ASSUME NEW i \in 2 .. n, NEW x \in Moved(q[i]), x \in moved PROVE FALSE
    OBVIOUS
  <2>1. 1 \in 1 .. n /\ i \in 1 .. n
    BY <1>1
  <2>2. x \in q[i].startIndex .. q[i].startIndex + q[i].numOfNvmeBlock - 1
        /\ x \in q[1].startIndex .. q[1].startIndex + q[1].numOfNvmeBlock - 1
    BY <1>1, <1>4, <2>1
  <2>3. q[i].startIndex \in Nat /\ q[i].numOfNvmeBlock \in Nat
        /\ q[1].startIndex \in Nat /\ q[1].numOfNvmeBlock \in Nat
    BY <1>4, <2>1
  <2>4. q[1].startIndex + q[1].numOfNvmeBlock <= q[i].startIndex
    BY <1>6
  <2> DEFINE s1 == q[1].startIndex
             n1 == q[1].numOfNvmeBlock
             si == q[i].startIndex
             ni == q[i].numOfNvmeBlock
  <2> HIDE DEF s1, n1, si, ni
  <2>5. /\ x \in si .. si + ni - 1 /\ x \in s1 .. s1 + n1 - 1
        /\ si \in Nat /\ ni \in Nat /\ s1 \in Nat /\ n1 \in Nat /\ s1 + n1 <= si
    BY <2>2, <2>3, <2>4 DEF s1, n1, si, ni
  <2> QED BY <2>5
<1> HIDE DEF q, n, moved
<1>8. Left' = UNION {Moved(q[i]) : i \in 2 .. n}
  <2>1. \A i \in 1 .. n - 1 : i + 1 \in 2 .. n /\ Moved(sliceReqQ'[i]) = Moved(q[i + 1])
    BY <1>1
  <2>2. \A i \in 2 .. n : i - 1 \in 1 .. n - 1 /\ Moved(q[i]) = Moved(sliceReqQ'[i - 1])
    <3> TAKE i \in 2 .. n
    <3>1. i - 1 \in 1 .. n - 1 /\ (i - 1) + 1 = i
      BY <1>1
    <3> QED BY <1>1, <3>1
  <2>3. \A x : x \in Left' <=> \E i \in 1 .. n - 1 : x \in Moved(sliceReqQ'[i])
    BY <1>3
  <2>4. ASSUME NEW x \in Left' PROVE \E i \in 2 .. n : x \in Moved(q[i])
    <3>1. PICK i \in 1 .. n - 1 : x \in Moved(sliceReqQ'[i])
      BY <2>3
    <3> QED BY <2>1, <3>1
  <2>5. ASSUME NEW i \in 2 .. n, NEW x \in Moved(q[i]) PROVE x \in Left'
    BY <2>2, <2>3
  <2> QED BY <2>4, <2>5
<1>9. Left = moved \cup UNION {Moved(q[i]) : i \in 2 .. n}
  <2>1. \A i \in 1 .. n : i = 1 \/ i \in 2 .. n
    BY <1>1
  <2>2. 1 \in 1 .. n /\ \A i \in 2 .. n : i \in 1 .. n
    BY <1>1
  <2> QED BY <1>1, <1>3, <2>1, <2>2
<1>10. moved # {} /\ moved \subseteq Left /\ Left' = Left \ moved
  <2>1. moved # {}
    BY <1>1, <1>5
  <2> QED BY <1>7, <1>8, <1>9, <2>1
<1>11. Left' = {} <=> sliceReqQ' = <<>>
  <2>1. CASE n = 1
    BY <1>1, <1>8, <2>1, EmptySeq
  <2>2. CASE n # 1
    <3>1. 2 \in 2 .. n /\ 2 \in 1 .. n
      BY <1>1, <2>2
    <3>2. Left' # {}
      BY <1>5, <1>8, <3>1
    <3>3. sliceReqQ' # <<>>
      <4>1. sliceReqQ' = <<>> => Len(sliceReqQ') = 0
        OBVIOUS
      <4> QED BY <1>1, <2>2, <4>1
    <3> QED BY <3>2, <3>3
  <2> QED BY <2>1, <2>2
<1> QED BY <1>10, <1>11 DEF moved

\* A new command has all its blocks before it.
LEMMA SplitRefines ==
    ASSUME StoreInv, NEW c \in HostCommands, ReqTransNvmeToSlice(c)
    PROVE  Host!Submit(c)
<1> DEFINE k == Count(c.start, c.n)
           R(i) == RequestAt(c.start, c.n, i)
<1>1. c.start \in Nat /\ c.n \in Nat \ {0} /\ c.start + c.n <= SLICES * N
  BY CommandFields
<1>2. k \in Nat \ {0} /\ sliceReqQ' = [i \in 1 .. k |-> R(i)] /\ sliceReqQ = <<>> /\ command' = c
  BY <1>1, SplitShape DEF ReqTransNvmeToSlice
<1>3. \A i \in 1 .. k : Moved(R(i)) \subseteq 0 .. c.n - 1
  <2> SUFFICES ASSUME NEW i \in 1 .. k PROVE Moved(R(i)) \subseteq 0 .. c.n - 1
    OBVIOUS
  <2>1. Fits(c.start, c.n, R(i))
    BY <1>1, SplitFits
  <2> HIDE DEF R, k
  <2>2. R(i).startIndex \in Nat /\ R(i).numOfNvmeBlock \in Nat
        /\ R(i).startIndex + R(i).numOfNvmeBlock <= c.n
    BY <2>1, SizeIsPositive DEF Fits, Requests, N
  <2>3. Moved(R(i)) = R(i).startIndex .. R(i).startIndex + R(i).numOfNvmeBlock - 1
    BY DEF Moved
  <2> QED BY <1>1, <2>2, <2>3
<1>4. \A o \in 0 .. c.n - 1 : \E i \in 1 .. k : o \in Moved(R(i))
  BY <1>1, SplitCovers
<1> HIDE DEF k, R
<1>5. Left = {} /\ Left' = 0 .. c.n - 1
  <2>1. Left = {}
    BY <1>2 DEF Left
  <2>2. DOMAIN sliceReqQ' = 1 .. k /\ \A i \in 1 .. k : sliceReqQ'[i] = R(i)
    BY <1>2
  <2>3. Left' = UNION {Moved(sliceReqQ'[i]) : i \in DOMAIN sliceReqQ'}
    BY DEF Left, Moved
  <2>4. \A x : x \in Left' <=> \E i \in 1 .. k : x \in Moved(R(i))
    BY <2>2, <2>3
  <2> QED BY <1>3, <1>4, <2>1, <2>4
<1>6. [a \in Lbas |-> Stored(a)]' = [a \in Lbas |-> Stored(a)]
  BY DEF ReqTransNvmeToSlice, cacheVars, Stored, Content, Holds
<1> QED BY <1>2, <1>5, <1>6 DEF Host!Submit, Left

\* Serving a request moves its blocks.
LEMMA ServeRefines ==
    ASSUME StoreInv, StoreInv', ReqTransSliceToLowLevel, ~halted'
    PROVE  \E moved \in SUBSET Left : Host!Move(moved)
<1> DEFINE r == Head(sliceReqQ)
           moved == Moved(r)
           store == [a \in Lbas |-> Stored(a)]
<1>1. /\ sliceReqQ # <<>> /\ sliceReqQ' = Tail(sliceReqQ) /\ QueueInv
      /\ command' = IF sliceReqQ' = <<>> THEN NoCommand ELSE command
  BY DEF ReqTransSliceToLowLevel, StoreInv
<1>2. /\ moved # {} /\ moved \subseteq Left /\ Left' = Left \ moved
      /\ Left' = {} <=> sliceReqQ' = <<>>
  BY <1>1, LeftAfterServing
<1>3. Fits(command.start, command.n, r) /\ \E b \in Bufs : ServeHit(r, b) \/ ServeMiss(r, b)
  BY ServeInv
<1>4. command \in HostCommands
  BY <1>1 DEF StoreInv, QueueInv
<1> HIDE DEF r
<1>5. \A a \in Lbas : Stored(a)' = IF IsWrite /\ a - command.start \in moved
                                   THEN command.source[a - command.start] ELSE Stored(a)
  <2> TAKE a \in Lbas
  <2>1. PICK b \in Bufs : ServeHit(r, b) \/ ServeMiss(r, b)
    BY <1>3
  <2> QED BY <1>1, <1>3, <2>1, StoredAfter
<1>6. store' = [a \in Lbas |-> Stored(a)']
  OBVIOUS
<1> HIDE DEF moved
<1>7. CASE IsWrite
  <2>1. store' = [a \in DOMAIN store |->
                    IF a - command.start \in moved THEN command.source[a - command.start] ELSE store[a]]
    BY <1>5, <1>6, <1>7
  <2>2. Host!MoveIn(moved)
    BY <1>7, <2>1 DEF Host!MoveIn, IsWrite
  <2>3. Host!Move(moved)
    BY <1>1, <1>2, <2>2 DEF Host!Move, Left
  <2> QED BY <1>2, <2>3
<1>8. CASE ~IsWrite
  <2>1. store' = store
    BY <1>5, <1>6, <1>8
  <2>2. command.code = "read"
    BY <1>4, <1>8 DEF HostCommands, IsWrite
  <2>3. Host!MoveOut
    BY <2>1, <2>2 DEF Host!MoveOut
  <2>4. Host!Move(moved)
    BY <1>1, <1>2, <2>3 DEF Host!Move, Left
  <2> QED BY <1>2, <2>4
<1> QED BY <1>7, <1>8

\* A flush changes nothing the host can see.
LEMMA FlushRefines ==
    ASSUME StoreInv, StoreInv', FlushDataBuf
    PROVE  UNCHANGED Host!vars
<1>1. /\ held' = held /\ below' = WrittenBack(Bufs) /\ data' = data
      /\ command' = command /\ sliceReqQ' = sliceReqQ /\ written' = written
  BY DEF FlushDataBuf, Flush
<1>2. \A k \in Keys : Content(k)' = Content(k)
  <2> TAKE k \in Keys
  <2>1. CASE \E b \in Bufs : held[b] = k
    BY <1>1, <2>1, ContentIs, ContentAfterIs
  <2>2. CASE \A b \in Bufs : held[b] # k
    <3>1. \A b \in Bufs \cap dirty : held[b] # k
      BY <2>2
    <3>2. CacheTypes /\ CachedOnce
      BY DEF StoreInv
    <3>3. below'[k] = below[k]
      BY <1>1, <3>1, <3>2, BackIs
    <3> QED BY <1>1, <2>2, <3>3, ContentIs, ContentAfterIs
  <2> QED BY <2>1, <2>2
<1>3. \A a \in Lbas : Stored(a)' = Stored(a)
  <2> TAKE a \in Lbas
  <2>1. a \div NVME_BLOCKS_PER_SLICE \in Keys
    BY BlockSlice DEF N
  <2> QED BY <1>1, <1>2, <2>1 DEF Stored
<1>4. [a \in Lbas |-> Stored(a)]' = [a \in Lbas |-> Stored(a)]
  BY <1>3
<1> QED BY <1>1, <1>4 DEF Host!vars, Moved

\* Splitting, caching, eviction and flushing together do what BlockStore says
\* (ReqTransNvmeToSlice, ReqTransSliceToLowLevel), for every size of the drive, a
\* slice and the cache.
THEOREM CommandsImplementBlockStore == StoreSpecUnlessHalted => ImplementsBlockStore
<1>1. StoreInit => Host!Init
  <2> SUFFICES ASSUME StoreInit PROVE Host!Init
    OBVIOUS
  <2>1. \A a \in Lbas : Stored(a) = UNWRITTEN
    BY DEF StoreInit, Stored
  <2> QED BY <2>1 DEF StoreInit, Host!Init, Lbas
<1>2. StoreInv /\ StoreInv' /\ [StoreNext /\ ~halted']_storeVars => [Host!Next]_(Host!vars)
  <2> SUFFICES ASSUME StoreInv, StoreInv', [StoreNext /\ ~halted']_storeVars
               PROVE  [Host!Next]_(Host!vars)
    OBVIOUS
  <2>1. CASE \E c \in HostCommands : ReqTransNvmeToSlice(c)
    <3>1. HostCommands = Host!Commands
      BY DEF HostCommands, Host!Commands, Lbas
    <3>2. PICK c \in HostCommands : Host!Submit(c)
      BY <2>1, SplitRefines
    <3>3. Host!Next
      BY <3>1, <3>2 DEF Host!Next
    <3> QED BY <3>3
  <2>2. CASE ReqTransSliceToLowLevel /\ ~halted'
    <3>1. \E moved \in SUBSET Left : Host!Move(moved)
      BY <2>2, ServeRefines
    <3>2. Host!Next
      BY <3>1 DEF Host!Next, Left
    <3> QED BY <3>2
  <2>3. CASE FlushDataBuf
    BY <2>3, FlushRefines
  <2>4. CASE UNCHANGED storeVars
    BY <2>4 DEF storeVars, cacheVars, Host!vars, Stored, Content, Holds, Moved
  <2> QED BY <2>1, <2>2, <2>3, <2>4 DEF StoreNext
<1> QED BY <1>1, <1>2, StoreInvHolds, PTL DEF StoreSpecUnlessHalted, Host!Spec, ImplementsBlockStore

\* A read finds what it should in the buffer that its request brought to front.
LEMMA ServeDelivers ==
    ASSUME StoreInv, StoreInv', ReqTransSliceToLowLevel, ~halted', ~IsWrite,
           NEW i, NEW r, r = Head(sliceReqQ), i \in Moved(r),
           NEW a, a = command.start + i, a \in written
    PROVE  data'[lru'[1]][r.nvmeBlockOffset + i - r.startIndex] = Stored(a)
<1> DEFINE k == a \div N
           o == a % N
<1>1. sliceReqQ # <<>> /\ Fits(command.start, command.n, r)
  BY ServeInv DEF ReqTransSliceToLowLevel
<1>2. PICK b \in Bufs : ServeHit(r, b) \/ ServeMiss(r, b)
  BY ServeInv
<1>3. command.start \in Nat /\ command.n \in Nat \ {0} /\ a \in Lbas /\ a \in written
      /\ r.lsa \in Keys /\ r.startIndex \in Nat /\ r.nvmeBlockOffset \in Nat
  <2>1. command \in HostCommands /\ written \subseteq Lbas
    BY <1>1 DEF StoreInv, QueueInv, CacheTypes
  <2>2. r \in Requests
    BY <1>1 DEF Fits
  <2> QED BY <2>1, <2>2, CommandFields, SizeIsPositive DEF Requests, Offsets, N
<1>4. i \in Nat
  BY <1>3, SizeIsPositive, <1>1 DEF Moved, Fits, Requests, N
<1>5. a - command.start = i
  BY <1>3, <1>4
<1>6. a - command.start \in Moved(r)
  BY <1>5
<1>7. k = r.lsa /\ r.startIndex + o - r.nvmeBlockOffset = i /\ o \in Nat
  <2>1. o \in Nat
    BY <1>3, BlockSlice, SizeIsPositive DEF Offsets, N
  <2>2. a \in LbasOf(r) <=> a - command.start \in Moved(r)
    BY <1>1, <1>3, BlocksOfRequest
  <2>3. a \in LbasOf(r)
    BY <1>6, <2>2
  <2>4. k = r.lsa /\ r.startIndex + o - r.nvmeBlockOffset = a - command.start
    BY <1>1, <1>3, <2>3, BlocksOfRequest
  <2> QED BY <1>5, <2>1, <2>4
<1>8. lru'[1] = b /\ held'[b] = r.lsa
  <2>1. lru' = MoveToFront(b) /\ held'[b] = r.lsa
    BY <1>2 DEF ServeHit, ServeMiss, Hit, Miss, StoreInv, CacheTypes
  <2> QED BY <2>1, FrontOrders DEF StoreInv, CacheTypes
<1>9. Content(k)' = data'[b]
  BY <1>3, <1>7, <1>8, ContentAfterIs
<1>10. Stored(a)' = Stored(a)
  BY <1>1, <1>2, <1>3, StoredAfter
<1>11. a \in written'
  BY <1>2, <1>3 DEF ServeHit, ServeMiss, Transfer
<1>12. Stored(a)' = Content(k)'[o]
  BY <1>11 DEF Stored, N
<1> HIDE DEF k, o
<1>13. r.nvmeBlockOffset + i - r.startIndex = o
  BY <1>3, <1>4, <1>7
<1> QED BY <1>8, <1>9, <1>10, <1>12, <1>13

\* Every block a read moves is the one last written there, wherever it was: in a
\* buffer, on the flash, or evicted in between (ReqTransSliceToLowLevel).
THEOREM ReadsAreRight == StoreSpecUnlessHalted => ReadsDeliver
<1> DEFINE Delivers ==
        command # NoCommand /\ ~IsWrite =>
          LET r == Head(sliceReqQ)
          IN  \A i \in Moved(r) : command.start + i \in written =>
                 data'[lru'[1]][r.nvmeBlockOffset + i - r.startIndex] = Stored(command.start + i)
<1>1. StoreInv /\ StoreInv' /\ [StoreNext /\ ~halted']_storeVars => [Delivers]_storeVars
  <2> SUFFICES ASSUME StoreInv, StoreInv', StoreNext, ~halted', command # NoCommand, ~IsWrite,
                      NEW i \in Moved(Head(sliceReqQ)), command.start + i \in written
               PROVE  data'[lru'[1]][Head(sliceReqQ).nvmeBlockOffset + i - Head(sliceReqQ).startIndex]
                         = Stored(command.start + i)
    OBVIOUS
  <2>1. sliceReqQ # <<>>
    BY DEF StoreInv, QueueInv
  <2>2. ReqTransSliceToLowLevel
    BY <2>1 DEF StoreNext, ReqTransNvmeToSlice, FlushDataBuf
  <2>3. PICK a : a = command.start + i
    OBVIOUS
  <2>4. PICK r : r = Head(sliceReqQ)
    OBVIOUS
  <2> QED BY <2>2, <2>3, <2>4, ServeDelivers
<1> QED BY <1>1, StoreInvHolds, PTL DEF StoreSpecUnlessHalted, ReadsDeliver
=============================================================================
