-------------------------- MODULE DataPath_proofs ---------------------------
(***************************************************************************)
(* The two structures the data of host commands passes, each kept by hand  *)
(* in the firmware: the lists through the table of data buffers, and the   *)
(* bookkeeping of the DMA FIFO.                                            *)
(*                                                                         *)
(* Data buffers: for every number of entries, the links of the LRU list    *)
(* and of the hash buckets describe the same sequences in both directions, *)
(* and what they do is a cache in order of use (LruCache).                 *)
(*                                                                         *)
(* DMA: for every width of the FIFO's counters a request is released only  *)
(* when its blocks have moved, although the firmware compares nothing but  *)
(* wrapped numbers.                                                        *)
(***************************************************************************)
EXTENDS DataBuffer, HostDma, LinkedLists_proofs, FiniteSetTheorems, WellFoundedInduction

-----------------------------------------------------------------------------
(* Data buffers: doubly linked lists through a table.                        *)

\* The links L (first, last, nxt, prv) thread the n entries q[1], ..., q[n],
\* each once.
Chain(L, q, n) ==
    /\ n \in Nat
    /\ q \in [1 .. n -> Bufs]
    /\ \A i, j \in 1 .. n : q[i] = q[j] => i = j
    /\ L.first = IF n = 0 THEN NONE ELSE q[1]
    /\ L.last = IF n = 0 THEN NONE ELSE q[n]
    /\ \A i \in 1 .. n :
          /\ L.nxt[q[i]] = IF i = n THEN NONE ELSE q[i + 1]
          /\ L.prv[q[i]] = IF i = 1 THEN NONE ELSE q[i - 1]

\* What becomes of the entries.
Without(q, n, k) == [i \in 1 .. n - 1 |-> IF i < k THEN q[i] ELSE q[i + 1]]
Prepended(b, q, n) == [i \in 1 .. n + 1 |-> IF i = 1 THEN b ELSE q[i - 1]]
Appended(q, n, b) == [i \in 1 .. n + 1 |-> IF i = n + 1 THEN b ELSE q[i]]
ToFront(q, n, k) ==
    [i \in 1 .. n |-> IF i = 1 THEN q[k] ELSE IF i <= k THEN q[i - 1] ELSE q[i]]

\* What becomes of the links; those of b itself do not matter once it is out.
LinksWithout(L, M, b) ==
    /\ M.first = IF L.prv[b] = NONE THEN L.nxt[b] ELSE L.first
    /\ M.last  = IF L.nxt[b] = NONE THEN L.prv[b] ELSE L.last
    /\ \A c \in Bufs \ {b} :
          /\ M.nxt[c] = IF c = L.prv[b] THEN L.nxt[b] ELSE L.nxt[c]
          /\ M.prv[c] = IF c = L.nxt[b] THEN L.prv[b] ELSE L.prv[c]
LinksPrepended(L, M, b) ==
    /\ M.first = b
    /\ M.last  = IF L.first = NONE THEN b ELSE L.last
    /\ M.nxt[b] = L.first
    /\ M.prv[b] = NONE
    /\ \A c \in Bufs \ {b} :
          /\ M.nxt[c] = L.nxt[c]
          /\ M.prv[c] = IF c = L.first THEN b ELSE L.prv[c]
LinksAppended(L, M, b) ==
    /\ M.first = IF L.last = NONE THEN b ELSE L.first
    /\ M.last  = b
    /\ M.nxt[b] = NONE
    /\ M.prv[b] = L.last
    /\ \A c \in Bufs \ {b} :
          /\ M.nxt[c] = IF c = L.last THEN b ELSE L.nxt[c]
          /\ M.prv[c] = L.prv[c]

-----------------------------------------------------------------------------
\* Taking entry k out of a list closes the gap in both directions.
LEMMA ChainWithout ==
    ASSUME NEW L, NEW M, NEW n \in Nat, NEW q, NEW k \in 1 .. n,
           Chain(L, q, n), LinksWithout(L, M, q[k])
    PROVE  Chain(M, Without(q, n, k), n - 1)
<1> DEFINE r == Without(q, n, k)
<1>1. q \in [1 .. n -> Bufs] /\ n \in Nat /\ n - 1 \in Nat
    BY DEF Chain
<1>2. NONE \notin Bufs
    BY DataBufferAssumption
<1>3. r \in [1 .. n - 1 -> Bufs] /\ \A i \in 1 .. n - 1 : r[i] = IF i < k THEN q[i] ELSE q[i + 1]
    BY <1>1 DEF Without
<1>4. \A i, j \in 1 .. n - 1 : r[i] = r[j] => i = j
    BY <1>1, <1>3 DEF Chain
<1>5. \A i \in 1 .. n - 1 : r[i] # q[k]
    BY <1>1, <1>3 DEF Chain
<1>6. /\ L.nxt[q[k]] = IF k = n THEN NONE ELSE q[k + 1]
      /\ L.prv[q[k]] = IF k = 1 THEN NONE ELSE q[k - 1]
      /\ k # n => k + 1 \in 1 .. n /\ q[k + 1] \in Bufs
      /\ k # 1 => k - 1 \in 1 .. n /\ q[k - 1] \in Bufs
    BY <1>1 DEF Chain
<1>7. M.first = IF n - 1 = 0 THEN NONE ELSE r[1]
  <2>1. M.first = IF k = 1 THEN L.nxt[q[k]] ELSE q[1]
    BY <1>1, <1>2, <1>6 DEF LinksWithout, Chain
  <2> QED
    BY <2>1, <1>1, <1>3, <1>6
<1>8. M.last = IF n - 1 = 0 THEN NONE ELSE r[n - 1]
  <2>1. M.last = IF k = n THEN L.prv[q[k]] ELSE q[n]
    BY <1>1, <1>2, <1>6 DEF LinksWithout, Chain
  <2> QED
    BY <2>1, <1>1, <1>3, <1>6
<1>9. ASSUME NEW i \in 1 .. n - 1
      PROVE  /\ M.nxt[r[i]] = IF i = n - 1 THEN NONE ELSE r[i + 1]
             /\ M.prv[r[i]] = IF i = 1 THEN NONE ELSE r[i - 1]
  <2>1. r[i] \in Bufs \ {q[k]}
    BY <1>3, <1>5
  <2>2. /\ M.nxt[r[i]] = IF r[i] = L.prv[q[k]] THEN L.nxt[q[k]] ELSE L.nxt[r[i]]
        /\ M.prv[r[i]] = IF r[i] = L.nxt[q[k]] THEN L.prv[q[k]] ELSE L.prv[r[i]]
    BY <2>1 DEF LinksWithout
  <2> DEFINE j == IF i < k THEN i ELSE i + 1
  <2>3. j \in 1 .. n /\ r[i] = q[j] /\ j # k
    BY <1>3, <1>1
  <2>4. /\ L.nxt[q[j]] = IF j = n THEN NONE ELSE q[j + 1]
        /\ L.prv[q[j]] = IF j = 1 THEN NONE ELSE q[j - 1]
    BY <2>3 DEF Chain
  <2>5. r[i] = L.prv[q[k]] <=> j = k - 1
    BY <2>1, <2>3, <1>6, <1>2, <1>1 DEF Chain
  <2>6. r[i] = L.nxt[q[k]] <=> j = k + 1
    BY <2>1, <2>3, <1>6, <1>2, <1>1 DEF Chain
  <2>7. M.nxt[r[i]] = IF i = n - 1 THEN NONE ELSE r[i + 1]
    <3>1. i # n - 1 => i + 1 \in 1 .. n - 1 /\ r[i + 1] = IF i + 1 < k THEN q[i + 1] ELSE q[i + 2]
        BY <1>3, <1>1
    <3>2. CASE j = k - 1
        BY <3>1, <3>2, <2>2, <2>5, <1>6, <2>3, <1>1
    <3>3. CASE j # k - 1
        BY <3>1, <3>3, <2>2, <2>5, <2>4, <2>3, <1>1
    <3> QED
        BY <3>2, <3>3
  <2>8. M.prv[r[i]] = IF i = 1 THEN NONE ELSE r[i - 1]
    <3>1. i # 1 => i - 1 \in 1 .. n - 1 /\ r[i - 1] = IF i - 1 < k THEN q[i - 1] ELSE q[i]
        BY <1>3, <1>1
    <3>2. CASE j = k + 1
        BY <3>1, <3>2, <2>2, <2>6, <1>6, <2>3, <1>1
    <3>3. CASE j # k + 1
        BY <3>1, <3>3, <2>2, <2>6, <2>4, <2>3, <1>1
    <3> QED
        BY <3>2, <3>3
  <2> QED
    BY <2>7, <2>8
<1> HIDE DEF r
<1>10. Chain(M, r, n - 1)
    BY <1>1, <1>3, <1>4, <1>7, <1>8, <1>9 DEF Chain
<1> QED
    BY <1>10 DEF r

\* Putting an entry in front of a list it is not in.
LEMMA ChainPrepended ==
    ASSUME NEW L, NEW M, NEW n \in Nat, NEW q, NEW b \in Bufs,
           Chain(L, q, n), LinksPrepended(L, M, b), \A i \in 1 .. n : q[i] # b
    PROVE  Chain(M, Prepended(b, q, n), n + 1)
<1> DEFINE r == Prepended(b, q, n)
<1>1. q \in [1 .. n -> Bufs] /\ n + 1 \in Nat
    BY DEF Chain
<1>2. NONE \notin Bufs
    BY DataBufferAssumption
<1>3. r \in [1 .. n + 1 -> Bufs] /\ \A i \in 1 .. n + 1 : r[i] = IF i = 1 THEN b ELSE q[i - 1]
    BY <1>1 DEF Prepended
<1>4. \A i, j \in 1 .. n + 1 : r[i] = r[j] => i = j
    BY <1>1, <1>3 DEF Chain
<1>5. L.first = (IF n = 0 THEN NONE ELSE q[1]) /\ L.last = (IF n = 0 THEN NONE ELSE q[n])
    BY DEF Chain
<1>6. M.first = r[1] /\ M.last = r[n + 1]
    BY <1>1, <1>2, <1>3, <1>5 DEF LinksPrepended
<1>7. ASSUME NEW i \in 1 .. n + 1
      PROVE  /\ M.nxt[r[i]] = IF i = n + 1 THEN NONE ELSE r[i + 1]
             /\ M.prv[r[i]] = IF i = 1 THEN NONE ELSE r[i - 1]
  <2>1. CASE i = 1
    BY <2>1, <1>1, <1>3, <1>5 DEF LinksPrepended
  <2>2. CASE i # 1
    <3>1. i - 1 \in 1 .. n /\ r[i] = q[i - 1] /\ q[i - 1] \in Bufs \ {b}
        BY <2>2, <1>1, <1>3
    <3>2. /\ L.nxt[q[i - 1]] = IF i - 1 = n THEN NONE ELSE q[i]
          /\ L.prv[q[i - 1]] = IF i - 1 = 1 THEN NONE ELSE q[i - 2]
        BY <3>1, <1>1 DEF Chain
    <3>3. /\ M.nxt[q[i - 1]] = L.nxt[q[i - 1]]
          /\ M.prv[q[i - 1]] = IF q[i - 1] = L.first THEN b ELSE L.prv[q[i - 1]]
        BY <3>1 DEF LinksPrepended
    <3>4. q[i - 1] = L.first <=> i = 2
        BY <3>1, <1>5, <1>1, <2>2 DEF Chain
    <3> QED
        BY <3>1, <3>2, <3>3, <3>4, <1>3, <1>1
  <2> QED
    BY <2>1, <2>2
<1> HIDE DEF r
<1>8. Chain(M, r, n + 1)
    BY <1>1, <1>3, <1>4, <1>6, <1>7 DEF Chain
<1> QED
    BY <1>8 DEF r

\* Putting an entry behind a list it is not in.
LEMMA ChainAppended ==
    ASSUME NEW L, NEW M, NEW n \in Nat, NEW q, NEW b \in Bufs,
           Chain(L, q, n), LinksAppended(L, M, b), \A i \in 1 .. n : q[i] # b
    PROVE  Chain(M, Appended(q, n, b), n + 1)
<1> DEFINE r == Appended(q, n, b)
<1>1. q \in [1 .. n -> Bufs] /\ n + 1 \in Nat
    BY DEF Chain
<1>2. NONE \notin Bufs
    BY DataBufferAssumption
<1>3. r \in [1 .. n + 1 -> Bufs] /\ \A i \in 1 .. n + 1 : r[i] = IF i = n + 1 THEN b ELSE q[i]
    BY <1>1 DEF Appended
<1>4. \A i, j \in 1 .. n + 1 : r[i] = r[j] => i = j
    BY <1>1, <1>3 DEF Chain
<1>5. L.first = (IF n = 0 THEN NONE ELSE q[1]) /\ L.last = (IF n = 0 THEN NONE ELSE q[n])
    BY DEF Chain
<1>6. M.first = r[1] /\ M.last = r[n + 1]
    BY <1>1, <1>2, <1>3, <1>5 DEF LinksAppended
<1>7. ASSUME NEW i \in 1 .. n + 1
      PROVE  /\ M.nxt[r[i]] = IF i = n + 1 THEN NONE ELSE r[i + 1]
             /\ M.prv[r[i]] = IF i = 1 THEN NONE ELSE r[i - 1]
  <2>1. CASE i = n + 1
    BY <2>1, <1>1, <1>3, <1>5 DEF LinksAppended
  <2>2. CASE i # n + 1
    <3>1. i \in 1 .. n /\ r[i] = q[i] /\ q[i] \in Bufs \ {b}
        BY <2>2, <1>1, <1>3
    <3>2. /\ L.nxt[q[i]] = IF i = n THEN NONE ELSE q[i + 1]
          /\ L.prv[q[i]] = IF i = 1 THEN NONE ELSE q[i - 1]
        BY <3>1, <1>1 DEF Chain
    <3>3. /\ M.nxt[q[i]] = IF q[i] = L.last THEN b ELSE L.nxt[q[i]]
          /\ M.prv[q[i]] = L.prv[q[i]]
        BY <3>1 DEF LinksAppended
    <3>4. q[i] = L.last <=> i = n
        BY <3>1, <1>5, <1>1, <2>2 DEF Chain
    <3> QED
        BY <3>1, <3>2, <3>3, <3>4, <1>3, <1>1
  <2> QED
    BY <2>1, <2>2
<1> HIDE DEF r
<1>8. Chain(M, r, n + 1)
    BY <1>1, <1>3, <1>4, <1>6, <1>7 DEF Chain
<1> QED
    BY <1>8 DEF r

\* Changes to other entries do not matter.
LEMMA ChainKept ==
    ASSUME NEW L, NEW M, NEW n \in Nat, NEW q, Chain(L, q, n),
           M.first = L.first, M.last = L.last,
           \A i \in 1 .. n : M.nxt[q[i]] = L.nxt[q[i]] /\ M.prv[q[i]] = L.prv[q[i]]
    PROVE  Chain(M, q, n)
BY DEF Chain

\* Out of its place and in front again.
LEMMA ChainToFront ==
    ASSUME NEW L, NEW M, NEW N, NEW n \in Nat, NEW q, NEW k \in 1 .. n,
           Chain(L, q, n), LinksWithout(L, M, q[k]), LinksPrepended(M, N, q[k])
    PROVE  Chain(N, ToFront(q, n, k), n)
<1> DEFINE r == Without(q, n, k)
<1>1. Chain(M, r, n - 1) /\ n - 1 \in Nat
    BY ChainWithout
<1>2. q \in [1 .. n -> Bufs] /\ \A i, j \in 1 .. n : q[i] = q[j] => i = j
    BY DEF Chain
<1>3. \A i \in 1 .. n - 1 : r[i] # q[k]
    BY <1>2 DEF Without
<1> HIDE DEF r
<1>4. Chain(N, Prepended(q[k], r, n - 1), (n - 1) + 1)
    BY <1>1, <1>2, <1>3, ChainPrepended
<1>5. Prepended(q[k], r, n - 1) = ToFront(q, n, k)
    BY <1>2 DEF Prepended, ToFront, Without, r
<1> QED
    BY <1>4, <1>5
-----------------------------------------------------------------------------
\* A nonempty set of numbers has a least one.
LEMMA LeastNumber ==
    ASSUME NEW T \in SUBSET Nat, T # {}
    PROVE  \E x \in T : \A y \in T : x <= y
<1>1. PICK x \in T : \A y \in T : ~ (<<y, x>> \in OpToRel(<, Nat))
    BY WFMin, NatLessThanWellFounded
<1>2. \A y \in T : ~ (y < x)
    BY <1>1 DEF OpToRel
<1>3. \A y \in T : y \in Nat
    OBVIOUS
<1>4. \A y \in T : x <= y
    BY <1>2, <1>3
<1> QED
    BY <1>4

\* The walk along a list meets its entries in order, then NONE.
LEMMA WalkMeetsChain ==
    ASSUME NEW L, NEW q, NEW n \in Nat, NEW N \in Nat, n <= N, Chain(L, q, n)
    PROVE  Walk(L.first, L.nxt, N) = [i \in 1 .. N |-> IF i <= n THEN q[i] ELSE NONE]
<1> DEFINE Go(f) == [i \in 1 .. N |-> IF i = 1 THEN L.first
                                      ELSE IF f[i - 1] = NONE THEN NONE ELSE L.nxt[f[i - 1]]]
           w == [i \in 1 .. N |-> IF i <= n THEN q[i] ELSE NONE]
<1>1. NONE \notin Bufs /\ q \in [1 .. n -> Bufs]
    BY DataBufferAssumption DEF Chain
<1>2. \A i \in 1 .. N : w[i] = IF i = 1 THEN L.first
                               ELSE IF w[i - 1] = NONE THEN NONE ELSE L.nxt[w[i - 1]]
  <2> SUFFICES ASSUME NEW i \in 1 .. N
               PROVE  w[i] = IF i = 1 THEN L.first
                               ELSE IF w[i - 1] = NONE THEN NONE ELSE L.nxt[w[i - 1]]
    OBVIOUS
  <2>1. CASE i = 1
    BY <2>1 DEF Chain
  <2>2. CASE i # 1 /\ i - 1 <= n
    <3>1. i - 1 \in 1 .. n /\ i - 1 \in 1 .. N /\ w[i - 1] = q[i - 1] /\ q[i - 1] # NONE
        BY <2>2, <1>1
    <3>2. L.nxt[q[i - 1]] = IF i - 1 = n THEN NONE ELSE q[(i - 1) + 1]
        BY <3>1 DEF Chain
    <3>3. w[i] = IF i <= n THEN q[i] ELSE NONE
        OBVIOUS
    <3> HIDE DEF w
    <3> QED
        BY <3>1, <3>2, <3>3, <2>2
  <2>3. CASE i # 1 /\ ~ (i - 1 <= n)
    BY <2>3
  <2> QED
    BY <2>1, <2>2, <2>3
<1>3. w = Go(w)
    BY <1>2
<1>4. ASSUME NEW f, f = Go(f)
      PROVE  f = w
  <2> DEFINE T == {i \in 1 .. N : f[i] # w[i]}
  <2>1. T = {}
    <3> SUFFICES ASSUME T # {} PROVE FALSE
        OBVIOUS
    <3>1. PICK x \in T : \A y \in T : x <= y
        <4>1. T \in SUBSET Nat
            OBVIOUS
        <4> HIDE DEF T
        <4> QED
            BY <4>1, LeastNumber
    <3>2. x \in 1 .. N /\ f[x] # w[x]
        OBVIOUS
    <3>3. x # 1 => f[x - 1] = w[x - 1]
        BY <3>1, <3>2
    <3>4. f[x] = IF x = 1 THEN L.first ELSE IF f[x - 1] = NONE THEN NONE ELSE L.nxt[f[x - 1]]
        BY <1>4, <3>2
    <3> HIDE DEF w
    <3> QED
        BY <3>2, <3>3, <3>4, <1>2
  <2>2. \A i \in 1 .. N : f[i] = w[i]
    BY <2>1
  <2>3. f = [i \in 1 .. N |-> f[i]]
    BY <1>4
  <2>4. w = [i \in 1 .. N |-> w[i]]
    OBVIOUS
  <2> HIDE DEF w
  <2> QED
    BY <2>2, <2>3, <2>4
<1>5. Walk(L.first, L.nxt, N) = CHOOSE f : f = Go(f)
    BY DEF Walk
<1> HIDE DEF w, Go
<1>6. (CHOOSE f : f = Go(f)) = w
    BY <1>3, <1>4
<1> QED
    BY <1>5, <1>6 DEF w

\* The same list backwards.
Backwards(L) == [first |-> L.last, last |-> L.first, nxt |-> L.prv, prv |-> L.nxt]
Reversed(q, n) == [i \in 1 .. n |-> q[n + 1 - i]]

\* Read from its end, a list is the list of its entries in the opposite order.
LEMMA ChainBackwards ==
    ASSUME NEW L, NEW q, NEW n \in Nat, Chain(L, q, n)
    PROVE  Chain(Backwards(L), Reversed(q, n), n)
<1> DEFINE r == Reversed(q, n)
           B == Backwards(L)
<1>1. q \in [1 .. n -> Bufs] /\ r \in [1 .. n -> Bufs] /\ \A i \in 1 .. n : r[i] = q[n + 1 - i]
    BY DEF Chain, Reversed
<1>2. B.first = L.last /\ B.last = L.first /\ B.nxt = L.prv /\ B.prv = L.nxt
    BY DEF Backwards
<1>3. \A i, j \in 1 .. n : r[i] = r[j] => i = j
    BY <1>1 DEF Chain
<1>4. ASSUME NEW i \in 1 .. n
      PROVE  /\ B.nxt[r[i]] = IF i = n THEN NONE ELSE r[i + 1]
             /\ B.prv[r[i]] = IF i = 1 THEN NONE ELSE r[i - 1]
  <2>1. n + 1 - i \in 1 .. n
    OBVIOUS
  <2>2. /\ L.nxt[q[n + 1 - i]] = IF n + 1 - i = n THEN NONE ELSE q[(n + 1 - i) + 1]
        /\ L.prv[q[n + 1 - i]] = IF n + 1 - i = 1 THEN NONE ELSE q[(n + 1 - i) - 1]
    BY <2>1 DEF Chain
  <2> HIDE DEF r, B
  <2> QED
    BY <2>2, <1>1, <1>2
<1>5. /\ B.first = IF n = 0 THEN NONE ELSE r[1]
      /\ B.last = IF n = 0 THEN NONE ELSE r[n]
  <2>1. /\ L.first = IF n = 0 THEN NONE ELSE q[1]
        /\ L.last = IF n = 0 THEN NONE ELSE q[n]
    BY DEF Chain
  <2> HIDE DEF r, B
  <2> QED
    BY <2>1, <1>1, <1>2
<1> HIDE DEF r, B
<1>6. Chain(B, r, n)
    BY <1>1, <1>3, <1>4, <1>5 DEF Chain
<1> QED
    BY <1>6 DEF r, B

\* A list has no more entries than the table.
LEMMA ChainShort ==
    ASSUME NEW L, NEW q, NEW n \in Nat, Chain(L, q, n)
    PROVE  n <= ENTRIES
<1>1. IsFiniteSet(Bufs) /\ Cardinality(Bufs) = ENTRIES
  <2>1. ENTRIES \in Nat /\ ENTRIES # 0 /\ ENTRIES - 1 \in Int /\ 0 \in Int
    BY DataBufferAssumption
  <2>2. IsFiniteSet(0 .. ENTRIES - 1)
        /\ Cardinality(0 .. ENTRIES - 1) = IF 0 > ENTRIES - 1 THEN 0 ELSE (ENTRIES - 1) - 0 + 1
    BY <2>1, FS_Interval
  <2> QED
    BY <2>1, <2>2 DEF Bufs
<1>2. q \in Injection(1 .. n, Bufs)
    BY DEF Chain, Injection, IsInjective
<1>3. Cardinality(1 .. n) <= ENTRIES
    BY <1>1, <1>2, FS_Injection
<1>4. Cardinality(1 .. n) = n
    BY FS_Interval
<1> QED
    BY <1>3, <1>4
-----------------------------------------------------------------------------
(* What the functions of data_buffer.c do to the table.                      *)

\* The table as a function of its three structures.
Tables == [buf : [Bufs -> Entries], lru : Ends, hash : [Bufs -> Ends]]
With(m, B, U, H) == [m EXCEPT !.buf = B, !.lru = U, !.hash = H]
Becomes(m, m2, B, U, H) == m2 = With(m, B, U, H)

\* New links, in the LRU list or in the buckets.
Relinked(e, f, n, p) == f = [e EXCEPT !.next = n, !.prev = p]
Rehashed(e, f, n, p) == f = [e EXCEPT !.hashNext = n, !.hashPrev = p]
LruBecomes(m, m2, B, U, nx, pv) ==
    /\ Becomes(m, m2, B, U, m.hash)
    /\ B = [c \in Bufs |-> B[c]]
    /\ \A c \in Bufs : Relinked(m.buf[c], B[c], nx[c], pv[c])
BucketsBecome(m, m2, B, H, nx, pv) ==
    /\ H \in [Bufs -> Ends]
    /\ nx \in [Bufs -> Bufs \cup {NONE}]
    /\ pv \in [Bufs -> Bufs \cup {NONE}]
    /\ Becomes(m, m2, B, m.lru, H)
    /\ B = [c \in Bufs |-> B[c]]
    /\ \A c \in Bufs : Rehashed(m.buf[c], B[c], nx[c], pv[c])

LruLinks(m) ==
    [first |-> m.lru.head, last |-> m.lru.tail,
     nxt |-> [b \in Bufs |-> m.buf[b].next], prv |-> [b \in Bufs |-> m.buf[b].prev]]
BucketLinks(m, h) ==
    [first |-> m.hash[h].head, last |-> m.hash[h].tail,
     nxt |-> [b \in Bufs |-> m.buf[b].hashNext], prv |-> [b \in Bufs |-> m.buf[b].hashPrev]]

\* Two tables that agree in one of the structures, or in what is cached.
SameLru(m, m2) ==
    /\ m2.lru = m.lru
    /\ \A c \in Bufs : m2.buf[c].next = m.buf[c].next /\ m2.buf[c].prev = m.buf[c].prev
SameBuckets(m, m2) ==
    /\ m2.hash = m.hash
    /\ \A c \in Bufs : /\ m2.buf[c].hashNext = m.buf[c].hashNext
                       /\ m2.buf[c].hashPrev = m.buf[c].hashPrev
SameContents(m, m2) ==
    \A c \in Bufs : /\ m2.buf[c].lsa = m.buf[c].lsa
                    /\ m2.buf[c].phyReq = m.buf[c].phyReq
                    /\ m2.buf[c].dirty = m.buf[c].dirty

\* The parts of a table.
LEMMA TableFields ==
    ASSUME NEW m \in Tables
    PROVE  m.buf \in [Bufs -> Entries] /\ m.lru \in Ends /\ m.hash \in [Bufs -> Ends]
BY DEF Tables

\* Replacing them.
LEMMA WithFields ==
    ASSUME NEW m \in Tables, NEW B \in [Bufs -> Entries], NEW U \in Ends,
           NEW H \in [Bufs -> Ends], NEW m2, Becomes(m, m2, B, U, H)
    PROVE  m2 \in Tables /\ m2.buf = B /\ m2.lru = U /\ m2.hash = H
BY DEF Tables, With, Becomes

\* The fields of an entry.
LEMMA EntryFields ==
    ASSUME NEW e \in Entries
    PROVE  /\ e.lsa \in Lsas \cup {LSA_NONE} /\ e.phyReq \in BOOLEAN /\ e.dirty \in BOOLEAN
           /\ e.prev \in Bufs \cup {NONE} /\ e.next \in Bufs \cup {NONE}
           /\ e.hashPrev \in Bufs \cup {NONE} /\ e.hashNext \in Bufs \cup {NONE}
BY DEF Entries

\* A table with other LRU links.
LEMMA LruUpdate ==
    ASSUME NEW m \in Tables, NEW m2, NEW B, NEW U \in Ends,
           NEW nx \in [Bufs -> Bufs \cup {NONE}], NEW pv \in [Bufs -> Bufs \cup {NONE}],
           LruBecomes(m, m2, B, U, nx, pv)
    PROVE  /\ m2 \in Tables
           /\ LruLinks(m2) = [first |-> U.head, last |-> U.tail, nxt |-> nx, prv |-> pv]
           /\ SameBuckets(m, m2)
           /\ SameContents(m, m2)
<1>1. m.buf \in [Bufs -> Entries] /\ m.hash \in [Bufs -> Ends]
    BY TableFields
<1>2. ASSUME NEW c \in Bufs
      PROVE  /\ B[c] \in Entries
             /\ B[c].next = nx[c] /\ B[c].prev = pv[c]
             /\ B[c].hashNext = m.buf[c].hashNext /\ B[c].hashPrev = m.buf[c].hashPrev
             /\ B[c].lsa = m.buf[c].lsa /\ B[c].phyReq = m.buf[c].phyReq
             /\ B[c].dirty = m.buf[c].dirty
  <2>1. m.buf[c] \in Entries /\ nx[c] \in Bufs \cup {NONE} /\ pv[c] \in Bufs \cup {NONE}
    BY <1>1
  <2>2. Relinked(m.buf[c], B[c], nx[c], pv[c])
    BY DEF LruBecomes
  <2> QED
    BY <2>1, <2>2 DEF Entries, Relinked
<1>3. B \in [Bufs -> Entries] /\ Becomes(m, m2, B, U, m.hash)
    BY <1>2 DEF LruBecomes
<1>4. m2 \in Tables /\ m2.buf = B /\ m2.lru = U /\ m2.hash = m.hash
    BY <1>1, <1>3, WithFields
<1>5. [b \in Bufs |-> B[b].next] = nx /\ [b \in Bufs |-> B[b].prev] = pv
    BY <1>2
<1>6. LruLinks(m2) = [first |-> U.head, last |-> U.tail, nxt |-> nx, prv |-> pv]
    BY <1>4, <1>5 DEF LruLinks
<1> QED
    BY <1>2, <1>4, <1>6 DEF SameBuckets, SameContents

\* A table with other links in its buckets.
LEMMA HashUpdate ==
    ASSUME NEW m \in Tables, NEW m2, NEW B, NEW H, NEW nx, NEW pv,
           BucketsBecome(m, m2, B, H, nx, pv)
    PROVE  /\ m2 \in Tables
           /\ \A h \in Bufs : BucketLinks(m2, h) =
                 [first |-> H[h].head, last |-> H[h].tail, nxt |-> nx, prv |-> pv]
           /\ SameLru(m, m2)
           /\ SameContents(m, m2)
<1>1. /\ m.buf \in [Bufs -> Entries] /\ m.lru \in Ends /\ H \in [Bufs -> Ends]
      /\ nx \in [Bufs -> Bufs \cup {NONE}] /\ pv \in [Bufs -> Bufs \cup {NONE}]
    BY TableFields DEF BucketsBecome
<1>2. ASSUME NEW c \in Bufs
      PROVE  /\ B[c] \in Entries
             /\ B[c].hashNext = nx[c] /\ B[c].hashPrev = pv[c]
             /\ B[c].next = m.buf[c].next /\ B[c].prev = m.buf[c].prev
             /\ B[c].lsa = m.buf[c].lsa /\ B[c].phyReq = m.buf[c].phyReq
             /\ B[c].dirty = m.buf[c].dirty
  <2>1. m.buf[c] \in Entries /\ nx[c] \in Bufs \cup {NONE} /\ pv[c] \in Bufs \cup {NONE}
    BY <1>1
  <2>2. Rehashed(m.buf[c], B[c], nx[c], pv[c])
    BY DEF BucketsBecome
  <2> QED
    BY <2>1, <2>2 DEF Entries, Rehashed
<1>3. B \in [Bufs -> Entries] /\ Becomes(m, m2, B, m.lru, H)
    BY <1>2 DEF BucketsBecome
<1>4. m2 \in Tables /\ m2.buf = B /\ m2.lru = m.lru /\ m2.hash = H
    BY <1>1, <1>3, WithFields
<1>5. [b \in Bufs |-> B[b].hashNext] = nx /\ [b \in Bufs |-> B[b].hashPrev] = pv
    BY <1>1, <1>2
<1>6. ASSUME NEW h \in Bufs
      PROVE BucketLinks(m2, h) = [first |-> H[h].head, last |-> H[h].tail, nxt |-> nx, prv |-> pv]
    BY <1>4, <1>5 DEF BucketLinks
<1> QED
    BY <1>2, <1>4, <1>6 DEF SameLru, SameContents

\* The links of a table are links.
LEMMA LinksType ==
    ASSUME NEW m \in Tables
    PROVE  /\ m.lru.head \in Bufs \cup {NONE} /\ m.lru.tail \in Bufs \cup {NONE}
           /\ \A b \in Bufs : /\ m.hash[b].head \in Bufs \cup {NONE}
                              /\ m.hash[b].tail \in Bufs \cup {NONE}
                              /\ m.buf[b] \in Entries
                              /\ m.buf[b].lsa \in Lsas \cup {LSA_NONE}
                              /\ m.buf[b].prev \in Bufs \cup {NONE}
                              /\ m.buf[b].next \in Bufs \cup {NONE}
                              /\ m.buf[b].hashPrev \in Bufs \cup {NONE}
                              /\ m.buf[b].hashNext \in Bufs \cup {NONE}
<1>1. m.buf \in [Bufs -> Entries] /\ m.lru \in Ends /\ m.hash \in [Bufs -> Ends]
    BY TableFields
<1>2. \A b \in Bufs : m.buf[b] \in Entries /\ m.hash[b] \in Ends
    BY <1>1
<1>3. \A u \in Ends : u.head \in Bufs \cup {NONE} /\ u.tail \in Bufs \cup {NONE}
    BY DEF Ends
<1> QED
    BY <1>1, <1>2, <1>3, EntryFields

-----------------------------------------------------------------------------
\* CheckDataBufHit's unlinking.
LEMMA UnlinkLruLinks ==
    ASSUME NEW m \in Tables, NEW q, NEW n \in Nat, NEW k \in 1 .. n, Chain(LruLinks(m), q, n),
           NEW m2, m2 = UnlinkLru(m, q[k])
    PROVE  /\ m2 \in Tables
           /\ LinksWithout(LruLinks(m), LruLinks(m2), q[k])
           /\ SameBuckets(m, m2)
           /\ SameContents(m, m2)
<1> DEFINE b == q[k]
           p == m.buf[b].prev
           x == m.buf[b].next
           isHead == b = m.lru.head
           isTail == b = m.lru.tail
           nx == [c \in Bufs |-> IF ~isHead /\ c = p THEN IF isTail THEN NONE ELSE x ELSE m.buf[c].next]
           pv == [c \in Bufs |-> IF ~isTail /\ c = x THEN IF isHead THEN NONE ELSE p ELSE m.buf[c].prev]
           B == [c \in Bufs |-> [m.buf[c] EXCEPT
                        !.next = IF ~isHead /\ c = p THEN IF isTail THEN NONE ELSE x ELSE @,
                        !.prev = IF ~isTail /\ c = x THEN IF isHead THEN NONE ELSE p ELSE @]]
           hd == IF isHead THEN IF isTail THEN NONE ELSE x ELSE m.lru.head
           tl == IF isTail THEN IF isHead THEN NONE ELSE p ELSE m.lru.tail
           U == [m.lru EXCEPT !.head = hd, !.tail = tl]
<1>1. m.lru \in Ends
    BY TableFields
<1>2. b \in Bufs /\ NONE \notin Bufs
    BY DataBufferAssumption DEF Chain
<1>3. p \in Bufs \cup {NONE} /\ x \in Bufs \cup {NONE} /\ hd \in Bufs \cup {NONE} /\ tl \in Bufs \cup {NONE}
    BY <1>2, LinksType
<1>4. nx \in [Bufs -> Bufs \cup {NONE}] /\ pv \in [Bufs -> Bufs \cup {NONE}]
    BY <1>3, LinksType
<1>5. Becomes(m, m2, B, U, m.hash)
    BY DEF UnlinkLru, With, Tables, Becomes
<1>6. U \in Ends /\ U.head = hd /\ U.tail = tl
    BY <1>1, <1>3 DEF Ends
<1>7. B = [c \in Bufs |-> B[c]]
    OBVIOUS
<1>8. \A c \in Bufs : Relinked(m.buf[c], B[c], nx[c], pv[c])
    BY DEF Relinked
<1>9. /\ isHead <=> p = NONE
      /\ isTail <=> x = NONE
    <2>1. /\ m.lru.head = (IF n = 0 THEN NONE ELSE q[1])
          /\ m.lru.tail = (IF n = 0 THEN NONE ELSE q[n])
          /\ x = IF k = n THEN NONE ELSE q[k + 1]
          /\ p = IF k = 1 THEN NONE ELSE q[k - 1]
        BY <1>2 DEF Chain, LruLinks
    <2>2. q \in [1 .. n -> Bufs] /\ \A i, j \in 1 .. n : q[i] = q[j] => i = j
        BY DEF Chain
    <2> QED
        BY <2>1, <2>2, <1>2
<1>10. \A c \in Bufs : /\ nx[c] = IF c = p THEN x ELSE m.buf[c].next
                       /\ pv[c] = IF c = x THEN p ELSE m.buf[c].prev
    BY <1>9, <1>2
<1>11. hd = (IF p = NONE THEN x ELSE m.lru.head) /\ tl = (IF x = NONE THEN p ELSE m.lru.tail)
    BY <1>9
<1> HIDE DEF nx, pv, B, U, hd, tl
<1>12. /\ m2 \in Tables
       /\ LruLinks(m2) = [first |-> U.head, last |-> U.tail, nxt |-> nx, prv |-> pv]
       /\ SameBuckets(m, m2)
       /\ SameContents(m, m2)
  <2>1. LruBecomes(m, m2, B, U, nx, pv)
    BY <1>5, <1>7, <1>8 DEF LruBecomes
  <2> QED
    BY <1>4, <1>6, <2>1, LruUpdate
<1>13. LinksWithout(LruLinks(m), LruLinks(m2), b)
    BY <1>2, <1>6, <1>10, <1>11, <1>12 DEF LinksWithout, LruLinks
<1> QED
    BY <1>12, <1>13

\* ... and its putting back in front.
LEMMA PutMruLinks ==
    ASSUME NEW m \in Tables, NEW b \in Bufs, m.lru.head # b,
           NEW m2, m2 = PutMru(m, b)
    PROVE  /\ m2 \in Tables
           /\ LinksPrepended(LruLinks(m), LruLinks(m2), b)
           /\ SameBuckets(m, m2)
           /\ SameContents(m, m2)
<1> DEFINE h == m.lru.head
           nx == [c \in Bufs |-> IF c = b THEN h ELSE m.buf[c].next]
           pv == [c \in Bufs |-> IF c = b THEN NONE ELSE IF c = h THEN b ELSE m.buf[c].prev]
           U == [head |-> b, tail |-> IF h = NONE THEN b ELSE m.lru.tail]
<1>1. m.lru \in Ends /\ m.buf \in [Bufs -> Entries]
    BY TableFields
<1>2. h \in Bufs \cup {NONE} /\ NONE \notin Bufs
    BY LinksType, DataBufferAssumption
<1>3. nx \in [Bufs -> Bufs \cup {NONE}] /\ pv \in [Bufs -> Bufs \cup {NONE}]
    BY <1>2, LinksType
<1>4. U \in Ends /\ U.head = b /\ U.tail = IF h = NONE THEN b ELSE m.lru.tail
    BY LinksType DEF Ends
<1>5. PICK B : LruBecomes(m, m2, B, U, nx, pv)
  <2>1. CASE h # NONE
    <3> DEFINE B == [m.buf EXCEPT ![b].prev = NONE, ![b].next = h, ![h].prev = b]
               U1 == [m.lru EXCEPT !.head = b]
    <3>1. Becomes(m, m2, B, U1, m.hash)
        BY <1>2, <2>1 DEF PutMru, With, Tables, Becomes
    <3>2. U1 = U
        BY <1>1, <2>1 DEF Ends
    <3>3. B = [c \in Bufs |-> B[c]]
        BY <1>1
    <3>4. \A c \in Bufs : Relinked(m.buf[c], B[c], nx[c], pv[c])
        BY <1>1, <1>2, <2>1 DEF Entries, Relinked
    <3> HIDE DEF B, U1, U, nx, pv
    <3> QED
        BY <3>1, <3>2, <3>3, <3>4 DEF LruBecomes
  <2>2. CASE h = NONE
    <3> DEFINE B == [m.buf EXCEPT ![b].prev = NONE, ![b].next = NONE]
               U1 == [head |-> b, tail |-> b]
    <3>1. Becomes(m, m2, B, U1, m.hash)
        BY <1>2, <2>2 DEF PutMru, With, Tables, Becomes
    <3>2. U1 = U
        BY <2>2
    <3>3. B = [c \in Bufs |-> B[c]]
        BY <1>1
    <3>4. \A c \in Bufs : Relinked(m.buf[c], B[c], nx[c], pv[c])
        BY <1>1, <1>2, <2>2 DEF Entries, Relinked
    <3> HIDE DEF B, U1, U, nx, pv
    <3> QED
        BY <3>1, <3>2, <3>3, <3>4 DEF LruBecomes
  <2> QED
    BY <2>1, <2>2
<1>6. \A c \in Bufs \ {b} : nx[c] = m.buf[c].next /\ pv[c] = IF c = h THEN b ELSE m.buf[c].prev
    OBVIOUS
<1>7. nx[b] = h /\ pv[b] = NONE
    OBVIOUS
<1> HIDE DEF nx, pv, U
<1>8. /\ m2 \in Tables
      /\ LruLinks(m2) = [first |-> U.head, last |-> U.tail, nxt |-> nx, prv |-> pv]
      /\ SameBuckets(m, m2)
      /\ SameContents(m, m2)
    BY <1>3, <1>4, <1>5, LruUpdate
<1>9. LinksPrepended(LruLinks(m), LruLinks(m2), b)
    BY <1>2, <1>4, <1>6, <1>7, <1>8 DEF LinksPrepended, LruLinks
<1> QED
    BY <1>8, <1>9

\* A hit makes the entry the most recent one and changes nothing else.
LEMMA HitToFront ==
    ASSUME NEW m \in Tables, NEW q, NEW n \in Nat, NEW k \in 1 .. n, Chain(LruLinks(m), q, n),
           NEW m2, m2 = PutMru(UnlinkLru(m, q[k]), q[k])
    PROVE  /\ m2 \in Tables
           /\ Chain(LruLinks(m2), ToFront(q, n, k), n)
           /\ SameBuckets(m, m2)
           /\ SameContents(m, m2)
<1> DEFINE m1 == UnlinkLru(m, q[k])
           r == Without(q, n, k)
<1>1. /\ m1 \in Tables
      /\ LinksWithout(LruLinks(m), LruLinks(m1), q[k])
      /\ SameBuckets(m, m1)
      /\ SameContents(m, m1)
    BY UnlinkLruLinks
<1>2. q \in [1 .. n -> Bufs] /\ NONE \notin Bufs /\ \A i, j \in 1 .. n : q[i] = q[j] => i = j
    BY DataBufferAssumption DEF Chain
<1>3. m1.lru.head # q[k]
  <2>1. Chain(LruLinks(m1), r, n - 1)
    BY <1>1, ChainWithout
  <2>2. m1.lru.head = IF n - 1 = 0 THEN NONE ELSE r[1]
    BY <2>1 DEF Chain, LruLinks
  <2>3. n - 1 # 0 => r[1] # q[k]
    BY <1>2 DEF Without
  <2> QED
    BY <2>2, <2>3, <1>2
<1> HIDE DEF m1
<1>4. /\ m2 \in Tables
      /\ LinksPrepended(LruLinks(m1), LruLinks(m2), q[k])
      /\ SameBuckets(m1, m2)
      /\ SameContents(m1, m2)
    BY <1>1, <1>2, <1>3, PutMruLinks DEF m1
<1>5. Chain(LruLinks(m2), ToFront(q, n, k), n)
    BY <1>1, <1>4, ChainToFront
<1> QED
    BY <1>1, <1>4, <1>5 DEF SameBuckets, SameContents

\* AllocateDataBuf's assignments when there are two entries or more.
LEMMA TailUpdate ==
    ASSUME NEW m \in Tables, m.lru.tail \in Bufs, m.lru.head \in Bufs,
           m.buf[m.lru.tail].prev \in Bufs
    PROVE  LET b == m.lru.tail
               p == m.buf[b].prev
               h == m.lru.head
           IN  TailToHead(m) =
                 With(m, [m.buf EXCEPT ![p].next = NONE, ![b].prev = NONE, ![b].next = h, ![h].prev = b],
                      [head |-> b, tail |-> p], m.hash)
<1>1. PICK b \in Bufs, p \in Bufs, h \in Bufs :
         b = m.lru.tail /\ p = m.buf[m.lru.tail].prev /\ h = m.lru.head
    OBVIOUS
<1>2. p # NONE /\ p = m.buf[b].prev
    BY <1>1, DataBufferAssumption
<1>3. TailToHead(m) = [m EXCEPT !.buf[p].next = NONE, !.buf[b].prev = NONE, !.buf[b].next = h,
                                !.buf[h].prev = b, !.lru = [head |-> b, tail |-> p]]
    BY <1>1, <1>2 DEF TailToHead
<1>4. TailToHead(m) =
        With(m, [m.buf EXCEPT ![p].next = NONE, ![b].prev = NONE, ![b].next = h, ![h].prev = b],
             [head |-> b, tail |-> p], m.hash)
    BY ONLY <1>3, m \in Tables, b \in Bufs, h \in Bufs, p \in Bufs DEF With, Tables
<1> QED
    BY <1>1, <1>4

\* AllocateDataBuf's move of the last entry to the front.
LEMMA TailToHeadLinks ==
    ASSUME NEW m \in Tables, NEW q, NEW n \in Nat \ {0}, Chain(LruLinks(m), q, n),
           NEW m2, m2 = TailToHead(m)
    PROVE  /\ m2 \in Tables
           /\ Chain(LruLinks(m2), ToFront(q, n, n), n)
           /\ SameBuckets(m, m2)
           /\ SameContents(m, m2)
<1> DEFINE b == m.lru.tail
           p == m.buf[b].prev
           h == m.lru.head
           nx == [c \in Bufs |-> IF c = b THEN IF p = NONE THEN NONE ELSE h
                                 ELSE IF c = p THEN NONE ELSE m.buf[c].next]
           pv == [c \in Bufs |-> IF c = b THEN NONE ELSE IF c = h THEN b ELSE m.buf[c].prev]
           U == [head |-> b, tail |-> IF p = NONE THEN b ELSE p]
           L1 == [first |-> IF p = NONE THEN NONE ELSE h, last |-> p,
                  nxt |-> [c \in Bufs |-> IF c = p THEN NONE ELSE m.buf[c].next],
                  prv |-> [c \in Bufs |-> m.buf[c].prev]]
<1>1. m.lru \in Ends /\ m.buf \in [Bufs -> Entries]
    BY TableFields
<1>2. NONE \notin Bufs /\ n \in Nat /\ n # 0 /\ n \in 1 .. n /\ 1 \in 1 .. n
    BY DataBufferAssumption
<1>3. q \in [1 .. n -> Bufs] /\ \A i, j \in 1 .. n : q[i] = q[j] => i = j
    BY DEF Chain
<1>4. /\ b = q[n] /\ b \in Bufs
      /\ h = q[1] /\ h \in Bufs
      /\ p = (IF n = 1 THEN NONE ELSE q[n - 1]) /\ p \in Bufs \cup {NONE}
      /\ m.buf[b].next = NONE
  <2>1. b = q[n] /\ h = q[1]
    BY <1>2 DEF Chain, LruLinks
  <2>2. b \in Bufs /\ h \in Bufs
    BY <2>1, <1>2, <1>3
  <2>3. /\ LruLinks(m).nxt[b] = NONE
        /\ LruLinks(m).prv[b] = IF n = 1 THEN NONE ELSE q[n - 1]
    BY <2>1, <1>2 DEF Chain
  <2>4. m.buf[b].next = NONE /\ p = IF n = 1 THEN NONE ELSE q[n - 1]
    BY <2>2, <2>3 DEF LruLinks
  <2> QED
    BY <2>1, <2>2, <2>4, LinksType
<1>5. /\ p = NONE <=> n = 1
      /\ p # b
      /\ p # NONE => h # b
      /\ p = NONE => h = b
    BY <1>2, <1>3, <1>4
<1>6. nx \in [Bufs -> Bufs \cup {NONE}] /\ pv \in [Bufs -> Bufs \cup {NONE}]
    BY <1>4, LinksType
<1>7. U \in Ends /\ U.head = b /\ U.tail = IF p = NONE THEN b ELSE p
    BY <1>4 DEF Ends
<1>8. PICK B : LruBecomes(m, m2, B, U, nx, pv)
  <2>1. CASE p # NONE
    <3> DEFINE B == [m.buf EXCEPT ![p].next = NONE, ![b].prev = NONE, ![b].next = h, ![h].prev = b]
               U1 == [head |-> b, tail |-> p]
    <3>1. Becomes(m, m2, B, U1, m.hash)
        BY <1>4, <2>1, TailUpdate DEF Becomes
    <3>2. U1 = U
        BY <2>1
    <3>3. B = [c \in Bufs |-> B[c]]
        BY <1>1
    <3>4. \A c \in Bufs : Relinked(m.buf[c], B[c], nx[c], pv[c])
        BY <1>1, <1>2, <1>4, <1>5, <2>1 DEF Entries, Relinked
    <3> HIDE DEF B, U1, U, nx, pv
    <3> QED
        BY <3>1, <3>2, <3>3, <3>4 DEF LruBecomes
  <2>2. CASE p = NONE
    <3> DEFINE B == [m.buf EXCEPT ![b].prev = NONE, ![b].next = NONE]
               U1 == [head |-> b, tail |-> b]
    <3>1. Becomes(m, m2, B, U1, m.hash)
        BY <1>4, <2>2 DEF TailToHead, With, Tables, Becomes
    <3>2. U1 = U
        BY <2>2
    <3>3. B = [c \in Bufs |-> B[c]]
        BY <1>1
    <3>4. \A c \in Bufs : Relinked(m.buf[c], B[c], nx[c], pv[c])
        BY <1>1, <1>2, <1>4, <1>5, <2>2 DEF Entries, Relinked
    <3> HIDE DEF B, U1, U, nx, pv
    <3> QED
        BY <3>1, <3>2, <3>3, <3>4 DEF LruBecomes
  <2> QED
    BY <2>1, <2>2
<1>9. LinksWithout(LruLinks(m), L1, b)
    BY <1>2, <1>4, <1>5 DEF LinksWithout, LruLinks
<1>10. \A c \in Bufs \ {b} : /\ nx[c] = IF c = p THEN NONE ELSE m.buf[c].next
                             /\ pv[c] = IF c = h THEN b ELSE m.buf[c].prev
    OBVIOUS
<1>11. nx[b] = (IF p = NONE THEN NONE ELSE h) /\ pv[b] = NONE
    BY <1>4
<1> HIDE DEF nx, pv, U
<1>12. /\ m2 \in Tables
       /\ LruLinks(m2) = [first |-> U.head, last |-> U.tail, nxt |-> nx, prv |-> pv]
       /\ SameBuckets(m, m2)
       /\ SameContents(m, m2)
    BY <1>6, <1>7, <1>8, LruUpdate
<1>13. LinksPrepended(L1, LruLinks(m2), b)
    BY <1>2, <1>4, <1>5, <1>7, <1>10, <1>11, <1>12 DEF LinksPrepended
<1> HIDE DEF L1
<1>14. Chain(LruLinks(m2), ToFront(q, n, n), n)
    BY <1>2, <1>4, <1>9, <1>13, ChainToFront
<1> QED
    BY <1>12, <1>14

-----------------------------------------------------------------------------
\* Every address has a bucket.
LEMMA BucketType == \A a \in Lsas \cup {LSA_NONE} : Bucket(a) \in Bufs
BY DataBufferAssumption DEF Bucket, Bufs

\* Two states of a bucket agree but for the entries of S.
BucketKept(m, m2, g, S) ==
    /\ m2.hash[g] = m.hash[g]
    /\ \A c \in Bufs \ S : /\ m2.buf[c].hashNext = m.buf[c].hashNext
                           /\ m2.buf[c].hashPrev = m.buf[c].hashPrev

\* Taking an entry out of its bucket.
LEMMA GetLinks ==
    ASSUME NEW m \in Tables, NEW b \in Bufs, m.buf[b].lsa # LSA_NONE,
           NEW m2, m2 = SelectiveGetFromDataBufHashList(m, b)
    PROVE  /\ m2 \in Tables
           /\ LinksWithout(BucketLinks(m, Bucket(m.buf[b].lsa)), BucketLinks(m2, Bucket(m.buf[b].lsa)), b)
           /\ \A g \in Bufs \ {Bucket(m.buf[b].lsa)} :
                 BucketKept(m, m2, g, {m.buf[b].hashPrev, m.buf[b].hashNext})
           /\ SameLru(m, m2)
           /\ SameContents(m, m2)
<1> DEFINE p == m.buf[b].hashPrev
           n == m.buf[b].hashNext
           h == Bucket(m.buf[b].lsa)
           nx == [c \in Bufs |-> IF c = p THEN n ELSE m.buf[c].hashNext]
           pv == [c \in Bufs |-> IF c = n THEN p ELSE m.buf[c].hashPrev]
           B == [c \in Bufs |-> [m.buf[c] EXCEPT !.hashNext = IF c = p THEN n ELSE @,
                                                 !.hashPrev = IF c = n THEN p ELSE @]]
           hd == IF p = NONE THEN n ELSE m.hash[h].head
           tl == IF n = NONE THEN p ELSE m.hash[h].tail
           H == [m.hash EXCEPT ![h] = [m.hash[h] EXCEPT !.head = hd, !.tail = tl]]
<1>1. m.hash \in [Bufs -> Ends] /\ m.buf \in [Bufs -> Entries]
    BY TableFields
<1>2. h \in Bufs /\ p \in Bufs \cup {NONE} /\ n \in Bufs \cup {NONE} /\ NONE \notin Bufs
    BY LinksType, BucketType, DataBufferAssumption
<1>3. hd \in Bufs \cup {NONE} /\ tl \in Bufs \cup {NONE}
    BY <1>2, LinksType
<1>4. nx \in [Bufs -> Bufs \cup {NONE}] /\ pv \in [Bufs -> Bufs \cup {NONE}]
    BY <1>2, LinksType
<1>5. [m.hash[h] EXCEPT !.head = hd, !.tail = tl] \in Ends
    BY <1>1, <1>2, <1>3 DEF Ends
<1>6. H \in [Bufs -> Ends] /\ \A g \in Bufs \ {h} : H[g] = m.hash[g]
    BY <1>1, <1>5
<1>7. H[h].head = hd /\ H[h].tail = tl
    BY <1>1, <1>2 DEF Ends
<1>8. BucketsBecome(m, m2, B, H, nx, pv)
  <2>1. Becomes(m, m2, B, m.lru, H)
    BY <1>1, <1>2 DEF SelectiveGetFromDataBufHashList, With, Tables, Becomes
  <2>2. B = [c \in Bufs |-> B[c]]
    OBVIOUS
  <2>3. \A c \in Bufs : Rehashed(m.buf[c], B[c], nx[c], pv[c])
    BY DEF Rehashed
  <2> HIDE DEF B, H, nx, pv
  <2> QED
    BY <2>1, <2>2, <2>3, <1>4, <1>6 DEF BucketsBecome
<1>9. \A c \in Bufs : /\ nx[c] = IF c = p THEN n ELSE m.buf[c].hashNext
                      /\ pv[c] = IF c = n THEN p ELSE m.buf[c].hashPrev
    OBVIOUS
<1> HIDE DEF B, H, nx, pv
<1>10. /\ m2 \in Tables
       /\ \A g \in Bufs : BucketLinks(m2, g) = [first |-> H[g].head, last |-> H[g].tail, nxt |-> nx, prv |-> pv]
       /\ SameLru(m, m2)
       /\ SameContents(m, m2)
    BY <1>8, HashUpdate
<1>11. LinksWithout(BucketLinks(m, h), BucketLinks(m2, h), b)
    BY <1>2, <1>7, <1>9, <1>10 DEF LinksWithout, BucketLinks
<1>12. ASSUME NEW g \in Bufs \ {h}
       PROVE  BucketKept(m, m2, g, {p, n})
    <2>1. m2.hash \in [Bufs -> Ends] /\ BucketLinks(m2, g) = [first |-> H[g].head, last |-> H[g].tail, nxt |-> nx, prv |-> pv]
        BY <1>10, TableFields
    <2>2. H[g] = m.hash[g]
        BY <1>6
    <2>3. m2.hash[g].head = m.hash[g].head /\ m2.hash[g].tail = m.hash[g].tail
        BY <2>1, <2>2 DEF BucketLinks
    <2>4. m2.hash[g] = m.hash[g]
        BY <1>1, <2>1, <2>3 DEF Ends
    <2>5. \A c \in Bufs : m2.buf[c].hashNext = nx[c] /\ m2.buf[c].hashPrev = pv[c]
        BY <2>1 DEF BucketLinks
    <2> QED
        BY <2>4, <2>5, <1>9 DEF BucketKept
<1> QED
    BY <1>10, <1>11, <1>12

\* Putting an entry behind the bucket of its address.
LEMMA PutLinks ==
    ASSUME NEW m \in Tables, NEW b \in Bufs, NEW m2, m2 = PutToDataBufHashList(m, b)
    PROVE  /\ m2 \in Tables
           /\ m.hash[Bucket(m.buf[b].lsa)].tail # b =>
                 LinksAppended(BucketLinks(m, Bucket(m.buf[b].lsa)), BucketLinks(m2, Bucket(m.buf[b].lsa)), b)
           /\ \A g \in Bufs \ {Bucket(m.buf[b].lsa)} :
                 BucketKept(m, m2, g, {b, m.hash[Bucket(m.buf[b].lsa)].tail})
           /\ SameLru(m, m2)
           /\ SameContents(m, m2)
<1> DEFINE h == Bucket(m.buf[b].lsa)
           t == m.hash[h].tail
           nx == [c \in Bufs |-> IF c = t THEN b ELSE IF c = b THEN NONE ELSE m.buf[c].hashNext]
           pv == [c \in Bufs |-> IF c = b THEN t ELSE m.buf[c].hashPrev]
           hd == IF t = NONE THEN b ELSE m.hash[h].head
           H == [m.hash EXCEPT ![h] = [head |-> hd, tail |-> b]]
<1>1. m.hash \in [Bufs -> Ends] /\ m.buf \in [Bufs -> Entries]
    BY TableFields
<1>2. h \in Bufs /\ t \in Bufs \cup {NONE} /\ NONE \notin Bufs /\ m.hash[h] \in Ends
    BY <1>1, LinksType, BucketType, DataBufferAssumption
<1>3. hd \in Bufs \cup {NONE}
    BY <1>2, LinksType
<1>4. nx \in [Bufs -> Bufs \cup {NONE}] /\ pv \in [Bufs -> Bufs \cup {NONE}]
    BY <1>2, LinksType
<1>5. [head |-> hd, tail |-> b] \in Ends
    BY <1>3 DEF Ends
<1>6. H \in [Bufs -> Ends] /\ \A g \in Bufs \ {h} : H[g] = m.hash[g]
    BY <1>1, <1>5
<1>7. H[h].head = hd /\ H[h].tail = b
    BY <1>1, <1>2
<1>8. PICK B : BucketsBecome(m, m2, B, H, nx, pv)
  <2>1. CASE t # NONE
    <3> DEFINE B == [m.buf EXCEPT ![b].hashPrev = t, ![b].hashNext = NONE, ![t].hashNext = b]
               H1 == [m.hash EXCEPT ![h].tail = b]
    <3>1. Becomes(m, m2, B, m.lru, H1)
        BY <1>1, <1>2, <2>1 DEF PutToDataBufHashList, With, Tables, Becomes
    <3>2. H1 = H
        <4>1. [m.hash[h] EXCEPT !.tail = b] = [head |-> hd, tail |-> b]
            BY <1>2, <2>1 DEF Ends
        <4>2. H1 = [m.hash EXCEPT ![h] = [m.hash[h] EXCEPT !.tail = b]]
            BY <1>1, <1>2
        <4> QED
            BY <4>1, <4>2
    <3>3. B = [c \in Bufs |-> B[c]]
        BY <1>1
    <3>4. \A c \in Bufs : Rehashed(m.buf[c], B[c], nx[c], pv[c])
        BY <1>1, <1>2, <2>1 DEF Entries, Rehashed
    <3> HIDE DEF B, H1, H, nx, pv
    <3> QED
        BY <3>1, <3>2, <3>3, <3>4, <1>4, <1>6 DEF BucketsBecome
  <2>2. CASE t = NONE
    <3> DEFINE B == [m.buf EXCEPT ![b].hashPrev = NONE, ![b].hashNext = NONE]
               H1 == [m.hash EXCEPT ![h] = [head |-> b, tail |-> b]]
    <3>1. Becomes(m, m2, B, m.lru, H1)
        BY <1>1, <1>2, <2>2 DEF PutToDataBufHashList, With, Tables, Becomes
    <3>2. H1 = H
        BY <2>2
    <3>3. B = [c \in Bufs |-> B[c]]
        BY <1>1
    <3>4. \A c \in Bufs : Rehashed(m.buf[c], B[c], nx[c], pv[c])
        BY <1>1, <1>2, <2>2 DEF Entries, Rehashed
    <3> HIDE DEF B, H1, H, nx, pv
    <3> QED
        BY <3>1, <3>2, <3>3, <3>4, <1>4, <1>6 DEF BucketsBecome
  <2> QED
    BY <2>1, <2>2
<1>9. \A c \in Bufs \ {b} : /\ nx[c] = IF c = t THEN b ELSE m.buf[c].hashNext
                            /\ pv[c] = m.buf[c].hashPrev
    OBVIOUS
<1>10. pv[b] = t /\ (t # b => nx[b] = NONE)
    OBVIOUS
<1> HIDE DEF H, nx, pv
<1>11. /\ m2 \in Tables
       /\ \A g \in Bufs : BucketLinks(m2, g) = [first |-> H[g].head, last |-> H[g].tail, nxt |-> nx, prv |-> pv]
       /\ SameLru(m, m2)
       /\ SameContents(m, m2)
    BY <1>8, HashUpdate
<1>12. t # b => LinksAppended(BucketLinks(m, h), BucketLinks(m2, h), b)
    BY <1>2, <1>7, <1>9, <1>10, <1>11 DEF LinksAppended, BucketLinks
<1>13. ASSUME NEW g \in Bufs \ {h}
       PROVE  BucketKept(m, m2, g, {b, t})
    <2>1. m2.hash \in [Bufs -> Ends] /\ BucketLinks(m2, g) = [first |-> H[g].head, last |-> H[g].tail, nxt |-> nx, prv |-> pv]
        BY <1>11, TableFields
    <2>2. H[g] = m.hash[g]
        BY <1>6
    <2>3. m2.hash[g].head = m.hash[g].head /\ m2.hash[g].tail = m.hash[g].tail
        BY <2>1, <2>2 DEF BucketLinks
    <2>4. m2.hash[g] = m.hash[g]
        BY <1>1, <2>1, <2>3 DEF Ends
    <2>5. \A c \in Bufs : m2.buf[c].hashNext = nx[c] /\ m2.buf[c].hashPrev = pv[c]
        BY <2>1 DEF BucketLinks
    <2> QED
        BY <2>4, <2>5, <1>9 DEF BucketKept
<1> QED
    BY <1>11, <1>12, <1>13

\* What an entry can have for an address.
Addresses == Lsas \cup {LSA_NONE}

\* An entry that is clean and has a new address.
Readdressed(m, m2, b, a) ==
    \A c \in Bufs : /\ m2.buf[c].lsa = IF c = b THEN a ELSE m.buf[c].lsa
                    /\ m2.buf[c].phyReq = m.buf[c].phyReq
                    /\ m2.buf[c].dirty = IF c = b THEN FALSE ELSE m.buf[c].dirty

\* EvictDataBufEntry and the assignment that follows it.
LEMMA EvictedContents ==
    ASSUME NEW m \in Tables, NEW b \in Bufs, NEW a \in Addresses,
           NEW m2, m2 = Evicted(m, b, a)
    PROVE  /\ m2 \in Tables
           /\ SameLru(m, m2) /\ SameBuckets(m, m2)
           /\ Readdressed(m, m2, b, a)
<1> DEFINE B == [m.buf EXCEPT ![b].dirty = FALSE, ![b].lsa = a]
<1>1. m.buf \in [Bufs -> Entries] /\ m.lru \in Ends /\ m.hash \in [Bufs -> Ends]
    BY TableFields
<1>2. Becomes(m, m2, B, m.lru, m.hash)
    BY DEF Evicted, With, Tables, Becomes
<1>3. ASSUME NEW c \in Bufs
      PROVE  /\ B[c] \in Entries
             /\ B[c].next = m.buf[c].next /\ B[c].prev = m.buf[c].prev
             /\ B[c].hashNext = m.buf[c].hashNext /\ B[c].hashPrev = m.buf[c].hashPrev
             /\ B[c].lsa = IF c = b THEN a ELSE m.buf[c].lsa
             /\ B[c].phyReq = m.buf[c].phyReq
             /\ B[c].dirty = IF c = b THEN FALSE ELSE m.buf[c].dirty
  <2>1. CASE c = b
    <3>1. B[b] = [m.buf[b] EXCEPT !.dirty = FALSE, !.lsa = a] /\ m.buf[b] \in Entries
        BY <1>1
    <3> HIDE DEF B
    <3> QED
        BY <2>1, <3>1 DEF Entries, Addresses
  <2>2. CASE c # b
    <3>1. B[c] = m.buf[c] /\ m.buf[c] \in Entries
        BY <1>1, <2>2
    <3> HIDE DEF B
    <3> QED
        BY <2>2, <3>1
  <2> QED
    BY <2>1, <2>2
<1>4. B \in [Bufs -> Entries]
    BY <1>1, <1>3
<1> HIDE DEF B
<1>5. m2 \in Tables /\ m2.buf = B /\ m2.lru = m.lru /\ m2.hash = m.hash
    BY <1>1, <1>2, <1>4, WithFields
<1> QED
    BY <1>3, <1>5 DEF SameLru, SameBuckets, Readdressed

\* The request's marks.
LEMMA MarkedContents ==
    ASSUME NEW m \in Tables, NEW b \in Bufs, NEW phy \in BOOLEAN, NEW mark \in Marks,
           NEW m2, m2 = Marked(m, b, phy, mark)
    PROVE  /\ m2 \in Tables
           /\ SameLru(m, m2) /\ SameBuckets(m, m2)
           /\ \A c \in Bufs : /\ m2.buf[c].lsa = m.buf[c].lsa
                              /\ m2.buf[c].phyReq = IF c = b THEN phy ELSE m.buf[c].phyReq
                              /\ m2.buf[c].dirty = IF c # b \/ mark = "kept" THEN m.buf[c].dirty
                                                   ELSE mark = "dirty"
<1> DEFINE d == CASE mark = "kept" -> m.buf[b].dirty [] mark = "dirty" -> TRUE [] mark = "clean" -> FALSE
           B == [m.buf EXCEPT ![b].phyReq = phy, ![b].dirty = d]
<1>1. m.buf \in [Bufs -> Entries] /\ m.lru \in Ends /\ m.hash \in [Bufs -> Ends]
    BY TableFields
<1>2. d = IF mark = "kept" THEN m.buf[b].dirty ELSE mark = "dirty"
    BY DEF Marks
<1>3. d \in BOOLEAN
    BY <1>1, <1>2, EntryFields
<1>4. Becomes(m, m2, B, m.lru, m.hash)
  <2>1. m2 = [m EXCEPT !.buf[b].phyReq = phy, !.buf[b].dirty = d]
    BY DEF Marked, Tables
  <2> HIDE DEF d
  <2> QED
    BY <2>1 DEF With, Tables, Becomes
<1> HIDE DEF d
<1>5. ASSUME NEW c \in Bufs
      PROVE  /\ B[c] \in Entries
             /\ B[c].next = m.buf[c].next /\ B[c].prev = m.buf[c].prev
             /\ B[c].hashNext = m.buf[c].hashNext /\ B[c].hashPrev = m.buf[c].hashPrev
             /\ B[c].lsa = m.buf[c].lsa
             /\ B[c].phyReq = IF c = b THEN phy ELSE m.buf[c].phyReq
             /\ B[c].dirty = IF c = b THEN d ELSE m.buf[c].dirty
    BY <1>1, <1>3 DEF Entries
<1>6. B \in [Bufs -> Entries]
    BY <1>1, <1>5
<1> HIDE DEF B
<1>7. m2 \in Tables /\ m2.buf = B /\ m2.lru = m.lru /\ m2.hash = m.hash
    BY <1>1, <1>4, <1>6, WithFields
<1> QED
    BY <1>2, <1>5, <1>7 DEF SameLru, SameBuckets
-----------------------------------------------------------------------------
\* A walk that has the table's links to follow stays in the table.
LEMMA WalkType ==
    ASSUME NEW from \in Bufs \cup {NONE}, NEW link \in [Bufs -> Bufs \cup {NONE}], NEW N \in Nat
    PROVE  Walk(from, link, N) \in [1 .. N -> Bufs \cup {NONE}]
<1> DEFINE Next1(f, i) == IF i = 1 THEN from ELSE IF f[i - 1] = NONE THEN NONE ELSE link[f[i - 1]]
           Go(f, n) == [i \in 1 .. n |-> Next1(f, i)]
           Walks(n) == \E f \in [1 .. n -> Bufs \cup {NONE}] : f = Go(f, n)
           T == {n \in Nat : ~ Walks(n)}
<1>1. T = {}
  <2> SUFFICES ASSUME T # {} PROVE FALSE
    OBVIOUS
  <2>1. PICK n \in T : \A y \in T : n <= y
    <3>1. T \in SUBSET Nat
        OBVIOUS
    <3> HIDE DEF T
    <3> QED
        BY <3>1, LeastNumber
  <2>2. n \in Nat /\ ~ Walks(n)
    OBVIOUS
  <2>3. Walks(0)
    <3> DEFINE e == [i \in 1 .. 0 |-> NONE]
    <3>1. e \in [1 .. 0 -> Bufs \cup {NONE}] /\ e = Go(e, 0)
        OBVIOUS
    <3> QED
        BY <3>1
  <2>4. n - 1 \in Nat /\ n - 1 \notin T
    <3>1. n # 0
        <4> HIDE DEF Walks
        <4> QED
            BY <2>2, <2>3
    <3>2. n - 1 \in Nat
        BY <2>2, <3>1
    <3>3. ~ (n <= n - 1)
        BY <2>2
    <3> HIDE DEF T
    <3> QED
        BY <3>2, <3>3, <2>1
  <2>5. PICK f \in [1 .. n - 1 -> Bufs \cup {NONE}] : f = Go(f, n - 1)
    <3> HIDE DEF Walks
    <3>1. Walks(n - 1)
        BY <2>4
    <3> QED
        BY <3>1 DEF Walks
  <2> DEFINE g == [i \in 1 .. n |-> IF i < n THEN f[i] ELSE Next1(f, n)]
  <2>6. \A i \in 1 .. n - 1 : f[i] = Next1(f, i)
    BY <2>5
  <2>7. Next1(f, n) \in Bufs \cup {NONE}
    <3>1. CASE n = 1
        BY <3>1
    <3>2. CASE n # 1
        <4>1. f[n - 1] \in Bufs \cup {NONE}
            BY <2>4, <3>2, <2>2
        <4> QED
            BY <4>1, <3>2
    <3> QED
        BY <3>1, <3>2
  <2>8. g \in [1 .. n -> Bufs \cup {NONE}]
    BY <2>2, <2>7
  <2>9. \A i \in 1 .. n : g[i] = Next1(g, i)
    <3> SUFFICES ASSUME NEW i \in 1 .. n PROVE g[i] = Next1(g, i)
        OBVIOUS
    <3>1. i # 1 => i - 1 \in 1 .. n /\ i - 1 < n /\ g[i - 1] = f[i - 1]
        BY <2>2
    <3>2. Next1(g, i) = Next1(f, i)
        BY <3>1
    <3>3. g[i] = Next1(f, i)
        <4>1. CASE i = n
            BY <4>1
        <4>2. CASE i # n
            <5>1. i \in 1 .. n - 1 /\ g[i] = f[i]
                BY <4>2, <2>2
            <5> QED
                BY <5>1, <2>6
        <4> QED
            BY <4>1, <4>2
    <3> QED
        BY <3>2, <3>3
  <2>10. g = Go(g, n)
    <3>1. g = [i \in 1 .. n |-> g[i]]
        OBVIOUS
    <3> HIDE DEF g, Next1
    <3> QED
        BY <3>1, <2>9
  <2>11. Walks(n)
    <3> HIDE DEF g
    <3> QED
        BY <2>8, <2>10
  <2> QED
    BY <2>2, <2>11
<1>2. Walks(N)
  <2> HIDE DEF Walks
  <2> QED
    BY <1>1
<1>3. PICK f \in [1 .. N -> Bufs \cup {NONE}] : f = Go(f, N)
    BY <1>2
<1> DEFINE w == CHOOSE g : g = Go(g, N)
<1>4. w = Go(w, N)
    BY <1>3
<1>5. Walk(from, link, N) = w
    BY DEF Walk
<1>6. w = f
  <2> HIDE DEF w
  <2> DEFINE D == {i \in 1 .. N : w[i] # f[i]}
  <2>1. D = {}
    <3> SUFFICES ASSUME D # {} PROVE FALSE
        OBVIOUS
    <3>1. PICK x \in D : \A y \in D : x <= y
        <4>1. D \in SUBSET Nat
            OBVIOUS
        <4> HIDE DEF D
        <4> QED
            BY <4>1, LeastNumber
    <3>2. x \in 1 .. N /\ w[x] # f[x]
        OBVIOUS
    <3>3. x # 1 => w[x - 1] = f[x - 1]
        BY <3>1, <3>2
    <3>4. w[x] = Next1(w, x) /\ f[x] = Next1(f, x)
        BY <1>3, <1>4, <3>2
    <3> QED
        BY <3>2, <3>3, <3>4
  <2>2. \A i \in 1 .. N : w[i] = f[i]
    BY <2>1
  <2>3. w = [i \in 1 .. N |-> w[i]]
    BY <1>4
  <2> QED
    BY <2>2, <2>3, <1>3
<1> QED
    BY <1>5, <1>6

-----------------------------------------------------------------------------
(* What the lists hold.                                                     *)

\* Every entry is in the LRU list once, in the order q.
IsOrder(m, q) ==
    /\ Chain(LruLinks(m), q, ENTRIES)
    /\ \A b \in Bufs : \E i \in 1 .. ENTRIES : q[i] = b

\* The bucket of h holds the entries of S.
BucketHolds(m, h, S) ==
    \E n \in Nat : \E q :
        /\ Chain(BucketLinks(m, h), q, n)
        /\ \A c \in Bufs : c \in S <=> \E i \in 1 .. n : q[i] = c

\* Every bucket holds the entries of its addresses, but for those of X.
Filed(m, h) == {c \in Bufs : m.buf[c].lsa # LSA_NONE /\ Bucket(m.buf[c].lsa) = h}
AllFiledBut(m, X) == \A h \in Bufs : BucketHolds(m, h, Filed(m, h) \ X)

\* What leaves the LRU fields alone leaves the links alone ...
LEMMA SameLruLinks ==
    ASSUME NEW m, NEW m2, SameLru(m, m2)
    PROVE  LruLinks(m2) = LruLinks(m)
BY DEF SameLru, LruLinks

\* ... and likewise for the buckets ...
LEMMA SameBucketLinks ==
    ASSUME NEW m, NEW m2, SameBuckets(m, m2)
    PROVE  \A h \in Bufs : BucketLinks(m2, h) = BucketLinks(m, h)
BY DEF SameBuckets, BucketLinks

\* ... which then hold what they held, unless an address changed.
LEMMA SameFiled ==
    ASSUME NEW m, NEW m2, NEW X, SameBuckets(m, m2), AllFiledBut(m, X),
           \A c \in Bufs \ X : m2.buf[c].lsa = m.buf[c].lsa
    PROVE  AllFiledBut(m2, X)
<1>1. \A h \in Bufs : Filed(m2, h) \ X = Filed(m, h) \ X
    BY DEF Filed
<1>2. ASSUME NEW h \in Bufs, BucketHolds(m, h, Filed(m, h) \ X)
      PROVE  BucketHolds(m2, h, Filed(m2, h) \ X)
    BY <1>1, <1>2, SameBucketLinks DEF BucketHolds
<1> QED
    BY <1>2 DEF AllFiledBut

\* A list without one of its entries.
LEMMA WithoutEntries ==
    ASSUME NEW q, NEW n \in Nat, NEW k \in 1 .. n, q \in [1 .. n -> Bufs],
           \A i, j \in 1 .. n : q[i] = q[j] => i = j, NEW c \in Bufs
    PROVE  (\E i \in 1 .. n - 1 : Without(q, n, k)[i] = c) <=> (c # q[k] /\ \E i \in 1 .. n : q[i] = c)
<1>1. \A i \in 1 .. n - 1 : Without(q, n, k)[i] = IF i < k THEN q[i] ELSE q[i + 1]
    BY DEF Without
<1>2. ASSUME NEW i \in 1 .. n - 1, Without(q, n, k)[i] = c
      PROVE  c # q[k] /\ \E j \in 1 .. n : q[j] = c
    BY <1>1, <1>2
<1>3. ASSUME NEW i \in 1 .. n, q[i] = c, c # q[k]
      PROVE  \E j \in 1 .. n - 1 : Without(q, n, k)[j] = c
  <2>1. CASE i < k
    <3>1. i \in 1 .. n - 1
        BY <2>1
    <3> QED
        BY <3>1, <2>1, <1>1, <1>3
  <2>2. CASE ~ (i < k)
    <3>1. i - 1 \in 1 .. n - 1 /\ ~ (i - 1 < k) /\ (i - 1) + 1 = i
        BY <2>2, <1>3
    <3> QED
        BY <3>1, <1>1, <1>3
  <2> QED
    BY <2>1, <2>2
<1> QED
    BY <1>2, <1>3

\* A list with one more.
LEMMA AppendedEntries ==
    ASSUME NEW q, NEW n \in Nat, NEW b \in Bufs, NEW c \in Bufs
    PROVE  (\E i \in 1 .. n + 1 : Appended(q, n, b)[i] = c) <=> (c = b \/ \E i \in 1 .. n : q[i] = c)
<1>1. \A i \in 1 .. n + 1 : Appended(q, n, b)[i] = IF i = n + 1 THEN b ELSE q[i]
    BY DEF Appended
<1>2. n + 1 \in 1 .. n + 1 /\ \A i \in 1 .. n : i \in 1 .. n + 1 /\ i # n + 1
    OBVIOUS
<1>3. \A i \in 1 .. n + 1 : i # n + 1 => i \in 1 .. n
    OBVIOUS
<1> QED
    BY <1>1, <1>2, <1>3

\* Removing an entry leaves the rest of the buckets as they were.
LEMMA GetFiled ==
    ASSUME NEW m \in Tables, NEW b \in Bufs, NEW m2, m2 = SelectiveGetFromDataBufHashList(m, b)
    PROVE  /\ m2 \in Tables
           /\ SameLru(m, m2) /\ SameContents(m, m2)
           /\ AllFiledBut(m, {}) => AllFiledBut(m2, {b})
<1>1. CASE m.buf[b].lsa = LSA_NONE
  <2>1. m2 = m
    BY <1>1 DEF SelectiveGetFromDataBufHashList
  <2>2. \A h \in Bufs : Filed(m, h) \ {b} = Filed(m, h) \ {}
    BY <1>1 DEF Filed
  <2>3. AllFiledBut(m, {}) => AllFiledBut(m, {b})
    BY <2>2 DEF AllFiledBut
  <2> QED
    BY <2>1, <2>3 DEF SameLru, SameContents
<1>2. CASE m.buf[b].lsa # LSA_NONE
  <2> DEFINE h == Bucket(m.buf[b].lsa)
             p == m.buf[b].hashPrev
             x == m.buf[b].hashNext
  <2>1. /\ m2 \in Tables
        /\ LinksWithout(BucketLinks(m, h), BucketLinks(m2, h), b)
        /\ \A g \in Bufs \ {h} : BucketKept(m, m2, g, {p, x})
        /\ SameLru(m, m2)
        /\ SameContents(m, m2)
    BY <1>2, GetLinks
  <2>2. h \in Bufs /\ NONE \notin Bufs
    BY LinksType, BucketType, DataBufferAssumption
  <2>3. \A g \in Bufs : Filed(m2, g) = Filed(m, g)
    BY <2>1 DEF SameContents, Filed
  <2>4. b \in Filed(m, h)
    BY <1>2 DEF Filed
  <2>5. ASSUME AllFiledBut(m, {})
        PROVE  AllFiledBut(m2, {b})
    <3>1. PICK n, q : /\ n \in Nat
                     /\ Chain(BucketLinks(m, h), q, n)
                     /\ \A c \in Bufs : c \in Filed(m, h) <=> \E i \in 1 .. n : q[i] = c
        BY <2>2, <2>5 DEF AllFiledBut, BucketHolds
    <3>2. PICK k \in 1 .. n : q[k] = b
        BY <3>1, <2>4
    <3>3. q \in [1 .. n -> Bufs] /\ \A i, j \in 1 .. n : q[i] = q[j] => i = j
        BY <3>1 DEF Chain
    <3>4. /\ p = IF k = 1 THEN NONE ELSE q[k - 1]
          /\ x = IF k = n THEN NONE ELSE q[k + 1]
        <4>1. /\ BucketLinks(m, h).nxt[b] = IF k = n THEN NONE ELSE q[k + 1]
              /\ BucketLinks(m, h).prv[b] = IF k = 1 THEN NONE ELSE q[k - 1]
            BY <3>1, <3>2 DEF Chain
        <4> QED
            BY <4>1 DEF BucketLinks
    <3>5. {p, x} \cap Bufs \subseteq Filed(m, h)
        <4>1. k # 1 => k - 1 \in 1 .. n
            BY <3>1
        <4>2. k # n => k + 1 \in 1 .. n
            BY <3>1
        <4> QED
            BY <4>1, <4>2, <3>1, <3>3, <3>4, <2>2
    <3>6. BucketHolds(m2, h, Filed(m, h) \ {b})
        <4>1. Chain(BucketLinks(m2, h), Without(q, n, k), n - 1)
            BY <3>1, <3>2, <2>1, ChainWithout
        <4>2. \A c \in Bufs : c \in Filed(m, h) \ {b} <=> \E i \in 1 .. n - 1 : Without(q, n, k)[i] = c
            BY <3>1, <3>2, <3>3, WithoutEntries
        <4>3. n - 1 \in Nat
            BY <3>1
        <4> QED
            BY <4>1, <4>2, <4>3 DEF BucketHolds
    <3>7. ASSUME NEW g \in Bufs \ {h}
          PROVE  BucketHolds(m2, g, Filed(m, g) \ {b})
        <4>1. PICK l, r : /\ l \in Nat
                         /\ Chain(BucketLinks(m, g), r, l)
                         /\ \A c \in Bufs : c \in Filed(m, g) <=> \E i \in 1 .. l : r[i] = c
            BY <2>5 DEF AllFiledBut, BucketHolds
        <4>2. \A i \in 1 .. l : r[i] \in Bufs /\ r[i] \in Filed(m, g)
            BY <4>1 DEF Chain
        <4>3. Filed(m, g) \cap Filed(m, h) = {}
            BY DEF Filed
        <4>4. \A i \in 1 .. l : r[i] \in Bufs \ {p, x}
            BY <4>2, <4>3, <3>5
        <4>5. Chain(BucketLinks(m2, g), r, l)
            <5>1. /\ BucketLinks(m2, g).first = BucketLinks(m, g).first
                  /\ BucketLinks(m2, g).last = BucketLinks(m, g).last
                BY <2>1 DEF BucketKept, BucketLinks
            <5>2. \A c \in Bufs \ {p, x} :
                    /\ BucketLinks(m2, g).nxt[c] = BucketLinks(m, g).nxt[c]
                    /\ BucketLinks(m2, g).prv[c] = BucketLinks(m, g).prv[c]
                BY <2>1 DEF BucketKept, BucketLinks
            <5> QED
                BY <4>1, <4>4, <5>1, <5>2, ChainKept
        <4>6. \A c \in Bufs : c \in Filed(m, g) \ {b} <=> \E i \in 1 .. l : r[i] = c
            BY <4>1, <4>3, <2>4
        <4> QED
            BY <4>1, <4>5, <4>6 DEF BucketHolds
    <3> QED
        BY <2>3, <3>6, <3>7 DEF AllFiledBut
  <2> QED
    BY <2>1, <2>5
<1> QED
    BY <1>1, <1>2

\* Appending the missing entry to the bucket of its address completes them.
LEMMA PutFiled ==
    ASSUME NEW m \in Tables, NEW b \in Bufs, NEW m2, m2 = PutToDataBufHashList(m, b),
           m.buf[b].lsa # LSA_NONE, AllFiledBut(m, {b})
    PROVE  AllFiledBut(m2, {})
<1> DEFINE h == Bucket(m.buf[b].lsa)
           t == m.hash[h].tail
<1>1. h \in Bufs /\ NONE \notin Bufs
    BY LinksType, BucketType, DataBufferAssumption
<1>2. PICK n, q : /\ n \in Nat
                 /\ Chain(BucketLinks(m, h), q, n)
                 /\ \A c \in Bufs : c \in Filed(m, h) \ {b} <=> \E i \in 1 .. n : q[i] = c
    BY <1>1 DEF AllFiledBut, BucketHolds
<1>3. q \in [1 .. n -> Bufs] /\ \A i \in 1 .. n : q[i] # b /\ q[i] \in Filed(m, h)
    BY <1>2 DEF Chain
<1>4. t = IF n = 0 THEN NONE ELSE q[n]
    BY <1>2 DEF Chain, BucketLinks
<1>5. t # b /\ (t = NONE \/ t \in Filed(m, h))
    BY <1>1, <1>2, <1>3, <1>4
<1>6. /\ LinksAppended(BucketLinks(m, h), BucketLinks(m2, h), b)
      /\ \A g \in Bufs \ {h} : BucketKept(m, m2, g, {b, t})
      /\ SameContents(m, m2)
    BY <1>5, PutLinks
<1>7. \A g \in Bufs : Filed(m2, g) = Filed(m, g)
    BY <1>6 DEF SameContents, Filed
<1>8. b \in Filed(m, h)
    BY DEF Filed
<1>9. BucketHolds(m2, h, Filed(m, h))
  <2>1. Chain(BucketLinks(m2, h), Appended(q, n, b), n + 1)
    BY <1>2, <1>3, <1>6, ChainAppended
  <2>2. \A c \in Bufs : c \in Filed(m, h) <=> \E i \in 1 .. n + 1 : Appended(q, n, b)[i] = c
    <3>1. \A c \in Bufs : c \in Filed(m, h) <=> (c = b \/ \E i \in 1 .. n : q[i] = c)
        BY <1>2, <1>8
    <3>2. \A c \in Bufs : (\E i \in 1 .. n + 1 : Appended(q, n, b)[i] = c)
                            <=> (c = b \/ \E i \in 1 .. n : q[i] = c)
        <4>1. n \in Nat
            BY <1>2
        <4> QED
            BY <4>1, AppendedEntries
    <3> QED
        BY <3>1, <3>2
  <2>3. n + 1 \in Nat
    BY <1>2
  <2> QED
    BY <2>1, <2>2, <2>3 DEF BucketHolds
<1>10. ASSUME NEW g \in Bufs \ {h}
       PROVE  BucketHolds(m2, g, Filed(m, g))
  <2>1. PICK l, r : /\ l \in Nat
                     /\ Chain(BucketLinks(m, g), r, l)
                     /\ \A c \in Bufs : c \in Filed(m, g) \ {b} <=> \E i \in 1 .. l : r[i] = c
    BY DEF AllFiledBut, BucketHolds
  <2>2. Filed(m, g) \cap Filed(m, h) = {}
    BY DEF Filed
  <2>3. \A i \in 1 .. l : r[i] \in Bufs /\ r[i] \in Filed(m, g) \ {b}
    BY <2>1 DEF Chain
  <2>4. \A i \in 1 .. l : r[i] \in Bufs \ {b, t}
    BY <2>2, <2>3, <1>5, <1>1
  <2>5. Chain(BucketLinks(m2, g), r, l)
    <3>1. /\ BucketLinks(m2, g).first = BucketLinks(m, g).first
          /\ BucketLinks(m2, g).last = BucketLinks(m, g).last
        BY <1>6 DEF BucketKept, BucketLinks
    <3>2. \A c \in Bufs \ {b, t} :
            /\ BucketLinks(m2, g).nxt[c] = BucketLinks(m, g).nxt[c]
            /\ BucketLinks(m2, g).prv[c] = BucketLinks(m, g).prv[c]
        BY <1>6 DEF BucketKept, BucketLinks
    <3> QED
        BY <2>1, <2>4, <3>1, <3>2, ChainKept
  <2>6. \A c \in Bufs : c \in Filed(m, g) <=> \E i \in 1 .. l : r[i] = c
    BY <2>1, <2>2, <1>8
  <2> QED
    BY <2>1, <2>5, <2>6 DEF BucketHolds
<1> QED
  <2>1. \A g \in Bufs : Filed(m2, g) \ {} = Filed(m, g)
    BY <1>7
  <2> QED
    BY <2>1, <1>9, <1>10 DEF AllFiledBut

-----------------------------------------------------------------------------
(* A hit and a miss as a whole.                                              *)

\* An entry at the front keeps every entry in the list.
LEMMA ToFrontEntries ==
    ASSUME NEW q, NEW n \in Nat, NEW k \in 1 .. n, NEW b \in Bufs, \E i \in 1 .. n : q[i] = b
    PROVE  \E i \in 1 .. n : ToFront(q, n, k)[i] = b
<1>1. PICK i \in 1 .. n : q[i] = b
    OBVIOUS
<1>2. \A j \in 1 .. n : ToFront(q, n, k)[j] = IF j = 1 THEN q[k] ELSE IF j <= k THEN q[j - 1] ELSE q[j]
    BY DEF ToFront
<1>3. CASE i = k
  <2>1. 1 \in 1 .. n
    OBVIOUS
  <2> QED
    BY <2>1, <1>1, <1>2, <1>3
<1>4. CASE i < k
  <2>1. i + 1 \in 1 .. n /\ i + 1 # 1 /\ i + 1 <= k /\ (i + 1) - 1 = i
    BY <1>4
  <2> QED
    BY <2>1, <1>1, <1>2
<1>5. CASE i > k
  <2>1. i # 1 /\ ~ (i <= k)
    BY <1>5
  <2> QED
    BY <2>1, <1>1, <1>2
<1> QED
    BY <1>3, <1>4, <1>5

\* What a request leaves of the entries: b has the address and the marks.
Served(m, m2, b, a, phy, d) ==
    \A c \in Bufs : /\ m2.buf[c].lsa = IF c = b THEN a ELSE m.buf[c].lsa
                    /\ m2.buf[c].phyReq = IF c = b THEN phy ELSE m.buf[c].phyReq
                    /\ m2.buf[c].dirty = IF c = b THEN d ELSE m.buf[c].dirty

\* The whole of a hit.
LEMMA HitStep ==
    ASSUME NEW m \in Tables, NEW q, IsOrder(m, q), NEW k \in 1 .. ENTRIES,
           NEW phy \in BOOLEAN, NEW mark \in Marks,
           NEW m2, m2 = Marked(PutMru(UnlinkLru(m, q[k]), q[k]), q[k], phy, mark)
    PROVE  /\ m2 \in Tables
           /\ IsOrder(m2, ToFront(q, ENTRIES, k))
           /\ Served(m, m2, q[k], m.buf[q[k]].lsa, phy,
                     IF mark = "kept" THEN m.buf[q[k]].dirty ELSE mark = "dirty")
           /\ AllFiledBut(m, {}) => AllFiledBut(m2, {})
<1> DEFINE m1 == PutMru(UnlinkLru(m, q[k]), q[k])
<1>1. ENTRIES \in Nat /\ Chain(LruLinks(m), q, ENTRIES)
    BY DataBufferAssumption DEF IsOrder
<1>2. q[k] \in Bufs
    BY <1>1 DEF Chain
<1>3. /\ m1 \in Tables
      /\ Chain(LruLinks(m1), ToFront(q, ENTRIES, k), ENTRIES)
      /\ SameBuckets(m, m1)
      /\ SameContents(m, m1)
    BY <1>1, HitToFront
<1> HIDE DEF m1
<1>4. /\ m2 \in Tables
      /\ SameLru(m1, m2) /\ SameBuckets(m1, m2)
      /\ \A c \in Bufs : /\ m2.buf[c].lsa = m1.buf[c].lsa
                         /\ m2.buf[c].phyReq = IF c = q[k] THEN phy ELSE m1.buf[c].phyReq
                         /\ m2.buf[c].dirty = IF c # q[k] \/ mark = "kept" THEN m1.buf[c].dirty
                                              ELSE mark = "dirty"
  <2>1. m2 = Marked(m1, q[k], phy, mark)
    BY DEF m1
  <2> QED
    BY <2>1, <1>2, <1>3, MarkedContents
<1>5. IsOrder(m2, ToFront(q, ENTRIES, k))
  <2>1. Chain(LruLinks(m2), ToFront(q, ENTRIES, k), ENTRIES)
    BY <1>3, <1>4, SameLruLinks
  <2>2. \A b \in Bufs : \E i \in 1 .. ENTRIES : q[i] = b
    BY DEF IsOrder
  <2>3. \A b \in Bufs : \E i \in 1 .. ENTRIES : ToFront(q, ENTRIES, k)[i] = b
    BY <2>2, <1>1, ToFrontEntries
  <2> QED
    BY <2>1, <2>3 DEF IsOrder
<1>6. Served(m, m2, q[k], m.buf[q[k]].lsa, phy,
             IF mark = "kept" THEN m.buf[q[k]].dirty ELSE mark = "dirty")
    BY <1>3, <1>4 DEF Served, SameContents
<1>7. AllFiledBut(m, {}) => AllFiledBut(m2, {})
  <2>1. SameBuckets(m, m2)
    BY <1>3, <1>4 DEF SameBuckets
  <2>2. \A c \in Bufs \ {} : m2.buf[c].lsa = m.buf[c].lsa
    BY <1>3, <1>4 DEF SameContents
  <2> QED
    BY <2>1, <2>2, SameFiled
<1> QED
    BY <1>4, <1>5, <1>6, <1>7

\* The whole of a miss: the last entry becomes the first.
LEMMA MissStep ==
    ASSUME NEW m \in Tables, NEW q, IsOrder(m, q), NEW a \in Addresses,
           NEW phy \in BOOLEAN, NEW mark \in Marks, NEW b, b = m.lru.tail,
           NEW m2, m2 = Marked(PutToDataBufHashList(Evicted(AllocateDataBuf(m), b, a), b), b, phy, mark)
    PROVE  /\ m2 \in Tables
           /\ b \in Bufs /\ b = q[ENTRIES]
           /\ IsOrder(m2, ToFront(q, ENTRIES, ENTRIES))
           /\ Served(m, m2, b, a, phy, mark = "dirty")
           /\ AllFiledBut(m, {}) /\ a # LSA_NONE => AllFiledBut(m2, {})
<1> DEFINE m3 == TailToHead(m)
           m4 == SelectiveGetFromDataBufHashList(m3, b)
           m5 == Evicted(m4, b, a)
           m6 == PutToDataBufHashList(m5, b)
<1>1. ENTRIES \in Nat \ {0} /\ ENTRIES \in 1 .. ENTRIES /\ Chain(LruLinks(m), q, ENTRIES)
    BY DataBufferAssumption DEF IsOrder
<1>2. b \in Bufs /\ b = q[ENTRIES]
    BY <1>1 DEF Chain, LruLinks
<1>3. m2 = Marked(m6, b, phy, mark)
    BY DEF AllocateDataBuf
<1>4. /\ m3 \in Tables
      /\ Chain(LruLinks(m3), ToFront(q, ENTRIES, ENTRIES), ENTRIES)
      /\ SameBuckets(m, m3)
      /\ SameContents(m, m3)
    BY <1>1, TailToHeadLinks
<1> HIDE DEF m3
<1>5. /\ m4 \in Tables
      /\ SameLru(m3, m4) /\ SameContents(m3, m4)
      /\ AllFiledBut(m3, {}) => AllFiledBut(m4, {b})
    BY <1>2, <1>4, GetFiled
<1> HIDE DEF m4
<1>6. /\ m5 \in Tables
      /\ SameLru(m4, m5) /\ SameBuckets(m4, m5)
      /\ Readdressed(m4, m5, b, a)
  <2> HIDE DEF m5
  <2>1. m5 = Evicted(m4, b, a)
    BY DEF m5
  <2> QED
    BY <2>1, <1>2, <1>5, EvictedContents
<1> HIDE DEF m5
<1>7. m6 \in Tables /\ SameLru(m5, m6) /\ SameContents(m5, m6)
    BY <1>2, <1>6, PutLinks
<1>8. m5.buf[b].lsa # LSA_NONE /\ AllFiledBut(m5, {b}) => AllFiledBut(m6, {})
    BY <1>2, <1>6, PutFiled
<1> HIDE DEF m6
<1>9. /\ m2 \in Tables
      /\ SameLru(m6, m2) /\ SameBuckets(m6, m2)
      /\ \A c \in Bufs : /\ m2.buf[c].lsa = m6.buf[c].lsa
                         /\ m2.buf[c].phyReq = IF c = b THEN phy ELSE m6.buf[c].phyReq
                         /\ m2.buf[c].dirty = IF c # b \/ mark = "kept" THEN m6.buf[c].dirty
                                              ELSE mark = "dirty"
    BY <1>2, <1>3, <1>7, MarkedContents
<1>10. IsOrder(m2, ToFront(q, ENTRIES, ENTRIES))
  <2>1. LruLinks(m2) = LruLinks(m3)
    BY <1>5, <1>6, <1>7, <1>9, SameLruLinks
  <2>2. \A c \in Bufs : \E i \in 1 .. ENTRIES : q[i] = c
    BY DEF IsOrder
  <2>3. \A c \in Bufs : \E i \in 1 .. ENTRIES : ToFront(q, ENTRIES, ENTRIES)[i] = c
    BY <2>2, <1>1, ToFrontEntries
  <2> QED
    BY <2>1, <2>3, <1>4 DEF IsOrder
<1>11. Served(m, m2, b, a, phy, mark = "dirty")
  <2>1. ASSUME NEW c \in Bufs
        PROVE  /\ m2.buf[c].lsa = IF c = b THEN a ELSE m.buf[c].lsa
               /\ m2.buf[c].phyReq = IF c = b THEN phy ELSE m.buf[c].phyReq
               /\ m2.buf[c].dirty = IF c # b THEN m.buf[c].dirty
                                    ELSE IF mark = "kept" THEN FALSE ELSE mark = "dirty"
    <3>1. /\ m4.buf[c].lsa = m.buf[c].lsa
          /\ m4.buf[c].phyReq = m.buf[c].phyReq
          /\ m4.buf[c].dirty = m.buf[c].dirty
        BY <1>4, <1>5 DEF SameContents
    <3>2. /\ m6.buf[c].lsa = IF c = b THEN a ELSE m4.buf[c].lsa
          /\ m6.buf[c].phyReq = m4.buf[c].phyReq
          /\ m6.buf[c].dirty = IF c = b THEN FALSE ELSE m4.buf[c].dirty
        BY <1>6, <1>7 DEF SameContents, Readdressed
    <3>3. /\ m2.buf[c].lsa = m6.buf[c].lsa
          /\ m2.buf[c].phyReq = IF c = b THEN phy ELSE m6.buf[c].phyReq
          /\ m2.buf[c].dirty = IF c # b \/ mark = "kept" THEN m6.buf[c].dirty ELSE mark = "dirty"
        BY <1>9
    <3> QED
        BY <3>1, <3>2, <3>3
  <2>2. (IF mark = "kept" THEN FALSE ELSE mark = "dirty") = (mark = "dirty")
    BY DEF Marks
  <2> QED
    BY <2>1, <2>2 DEF Served
<1>12. AllFiledBut(m, {}) /\ a # LSA_NONE => AllFiledBut(m2, {})
  <2> SUFFICES ASSUME AllFiledBut(m, {}), a # LSA_NONE
               PROVE  AllFiledBut(m2, {})
    OBVIOUS
  <2>1. AllFiledBut(m3, {})
    BY <1>4, SameFiled DEF SameContents
  <2>2. \A c \in Bufs \ {b} : m5.buf[c].lsa = m4.buf[c].lsa
    BY <1>6 DEF Readdressed
  <2>3. AllFiledBut(m5, {b})
    BY <2>1, <2>2, <1>5, <1>6, SameFiled
  <2>4. AllFiledBut(m6, {})
    BY <2>3, <1>2, <1>6, <1>8 DEF Readdressed
  <2> QED
    BY <2>4, <1>9, SameFiled
<1> QED
    BY <1>2, <1>9, <1>10, <1>11, <1>12

-----------------------------------------------------------------------------
(* The state of the module.                                                 *)

\* The structures are typed and the LRU list holds every entry ...
Linked == BufTypeOK /\ \E q : IsOrder(Table, q)

\* ... and, as long as no file name takes an entry, the buckets hold theirs.
LinkedAndFiled == Linked /\ AllFiledBut(Table, {})

\* The type of the state, as the type of one table.
LEMMA TableType == BufTypeOK <=> Table \in Tables
BY DEF BufTypeOK, Table, Tables

\* `Put' makes the changed table the state.
LEMMA PutTable ==
    ASSUME NEW m \in Tables, Put(m)
    PROVE  Table' = m
<1>1. m = [buf |-> m.buf, lru |-> m.lru, hash |-> m.hash]
    BY DEF Tables
<1>2. Table' = [buf |-> m.buf, lru |-> m.lru, hash |-> m.hash]
    BY DEF Put, Table
<1> QED
    BY <1>1, <1>2

\* CheckDataBufHit only finds entries.
LEMMA HitsType ==
    ASSUME BufTypeOK, NEW lsa \in Lsas \cup {LSA_NONE}, NEW phy
    PROVE  Hits(lsa, phy) \subseteq Bufs
<1>1. Bucket(lsa) \in Bufs /\ ENTRIES + 1 \in Nat
    BY BucketType, DataBufferAssumption
<1>2. hashTable[Bucket(lsa)].head \in Bufs \cup {NONE}
    BY <1>1, TableType, LinksType DEF Table
<1>3. [b \in Bufs |-> dataBuf[b].hashNext] \in [Bufs -> Bufs \cup {NONE}]
    BY TableType, LinksType DEF Table
<1>4. BucketWalk(Bucket(lsa)) \in [1 .. ENTRIES + 1 -> Bufs \cup {NONE}]
    BY <1>1, <1>2, <1>3, WalkType DEF BucketWalk
<1>5. InBucket(Bucket(lsa)) \subseteq Bufs
    BY <1>4 DEF InBucket
<1> QED
    BY <1>5 DEF Hits

\* The walks read the order off the links.
LEMMA OrderRead ==
    ASSUME NEW m, NEW q, IsOrder(m, q)
    PROVE  /\ Walk(m.lru.head, [b \in Bufs |-> m.buf[b].next], ENTRIES) = q
           /\ Walk(m.lru.tail, [b \in Bufs |-> m.buf[b].prev], ENTRIES) = Reversed(q, ENTRIES)
           /\ q \in [1 .. ENTRIES -> Bufs]
           /\ \A i, j \in 1 .. ENTRIES : q[i] = q[j] => i = j
           /\ \A b \in Bufs : \E i \in 1 .. ENTRIES : q[i] = b
<1> DEFINE L == LruLinks(m)
           r == Reversed(q, ENTRIES)
<1>1. Chain(L, q, ENTRIES) /\ ENTRIES \in Nat
    BY DataBufferAssumption DEF IsOrder
<1>2. q \in [1 .. ENTRIES -> Bufs] /\ \A i, j \in 1 .. ENTRIES : q[i] = q[j] => i = j
    BY <1>1 DEF Chain
<1>3. Walk(m.lru.head, [b \in Bufs |-> m.buf[b].next], ENTRIES) = q
  <2>1. L.first = m.lru.head /\ L.nxt = [b \in Bufs |-> m.buf[b].next]
    BY DEF LruLinks
  <2>2. Walk(L.first, L.nxt, ENTRIES) = [i \in 1 .. ENTRIES |-> IF i <= ENTRIES THEN q[i] ELSE NONE]
    BY <1>1, WalkMeetsChain
  <2>3. [i \in 1 .. ENTRIES |-> IF i <= ENTRIES THEN q[i] ELSE NONE] = q
    BY <1>1, <1>2
  <2> QED
    BY <2>1, <2>2, <2>3
<1>4. Walk(m.lru.tail, [b \in Bufs |-> m.buf[b].prev], ENTRIES) = r
  <2>1. Chain(Backwards(L), r, ENTRIES)
    BY <1>1, ChainBackwards
  <2>2. Backwards(L).first = m.lru.tail /\ Backwards(L).nxt = [b \in Bufs |-> m.buf[b].prev]
    BY DEF LruLinks, Backwards
  <2>3. Walk(Backwards(L).first, Backwards(L).nxt, ENTRIES)
           = [i \in 1 .. ENTRIES |-> IF i <= ENTRIES THEN r[i] ELSE NONE]
    BY <1>1, <2>1, WalkMeetsChain
  <2>4. [i \in 1 .. ENTRIES |-> IF i <= ENTRIES THEN r[i] ELSE NONE] = r
    BY <1>1 DEF Reversed
  <2> QED
    BY <2>2, <2>3, <2>4
<1> QED
    BY <1>2, <1>3, <1>4 DEF IsOrder

\* ... now and after a step.
LEMMA OrderIs ==
    ASSUME NEW q, IsOrder(Table, q)
    PROVE  LruOrder = q /\ FromLeastRecent = Reversed(q, ENTRIES)
BY OrderRead DEF LruOrder, FromLeastRecent, Table

\* The order after a step, from the links it leaves.
LEMMA OrderBecomes ==
    ASSUME NEW q, IsOrder(Table', q)
    PROVE  LruOrder' = q
<1>1. Walk(Table'.lru.head, [b \in Bufs |-> Table'.buf[b].next], ENTRIES) = q
    BY OrderRead
<1> QED
    BY <1>1 DEF LruOrder, Table

\* A walk through a bucket finds what it holds, and its ends.
LEMMA BucketRead ==
    ASSUME NEW h \in Bufs, NEW S \in SUBSET Bufs, BucketHolds(Table, h, S)
    PROVE  /\ InBucket(h) = S
           /\ \A b \in S :
                 /\ dataBuf[b].hashPrev = NONE <=> hashTable[h].head = b
                 /\ dataBuf[b].hashNext = NONE <=> hashTable[h].tail = b
                 /\ dataBuf[b].hashNext # NONE => dataBuf[dataBuf[b].hashNext].hashPrev = b
<1> DEFINE L == BucketLinks(Table, h)
<1>1. PICK n, q : /\ n \in Nat
                  /\ Chain(L, q, n)
                  /\ \A c \in Bufs : c \in S <=> \E i \in 1 .. n : q[i] = c
    BY DEF BucketHolds
<1>2. n <= ENTRIES /\ ENTRIES + 1 \in Nat /\ ENTRIES \in Nat /\ NONE \notin Bufs
    BY <1>1, ChainShort, DataBufferAssumption
<1>3. q \in [1 .. n -> Bufs] /\ \A i, j \in 1 .. n : q[i] = q[j] => i = j
    BY <1>1 DEF Chain
<1>4. BucketWalk(h) = Walk(L.first, L.nxt, ENTRIES + 1)
    BY DEF BucketWalk, BucketLinks, Table
<1>5. n <= ENTRIES + 1
    BY <1>1, <1>2
<1>6. BucketWalk(h) = [i \in 1 .. ENTRIES + 1 |-> IF i <= n THEN q[i] ELSE NONE]
    BY <1>1, <1>2, <1>4, <1>5, WalkMeetsChain
<1>7. InBucket(h) = {q[i] : i \in 1 .. n}
  <2>1. \A i \in 1 .. n : i \in 1 .. ENTRIES + 1 /\ i <= n /\ q[i] # NONE
    BY <1>1, <1>2, <1>3
  <2>2. \A i \in 1 .. ENTRIES + 1 : i <= n => i \in 1 .. n
    BY <1>1, <1>2
  <2> QED
    BY <2>1, <2>2, <1>6 DEF InBucket
<1>8. InBucket(h) = S
    BY <1>1, <1>3, <1>7
<1>9. ASSUME NEW b \in S
      PROVE  /\ dataBuf[b].hashPrev = NONE <=> hashTable[h].head = b
             /\ dataBuf[b].hashNext = NONE <=> hashTable[h].tail = b
             /\ dataBuf[b].hashNext # NONE => dataBuf[dataBuf[b].hashNext].hashPrev = b
  <2>1. PICK i \in 1 .. n : q[i] = b
    BY <1>1
  <2>2. \A j \in 1 .. n : /\ dataBuf[q[j]].hashNext = IF j = n THEN NONE ELSE q[j + 1]
                          /\ dataBuf[q[j]].hashPrev = IF j = 1 THEN NONE ELSE q[j - 1]
    <3> SUFFICES ASSUME NEW j \in 1 .. n
                 PROVE  /\ dataBuf[q[j]].hashNext = IF j = n THEN NONE ELSE q[j + 1]
                        /\ dataBuf[q[j]].hashPrev = IF j = 1 THEN NONE ELSE q[j - 1]
        OBVIOUS
    <3>1. /\ L.nxt[q[j]] = IF j = n THEN NONE ELSE q[j + 1]
          /\ L.prv[q[j]] = IF j = 1 THEN NONE ELSE q[j - 1]
        BY <1>1 DEF Chain
    <3>2. q[j] \in Bufs
        BY <1>3
    <3> QED
        BY <3>1, <3>2 DEF BucketLinks, Table
  <2>3. /\ hashTable[h].head = IF n = 0 THEN NONE ELSE q[1]
        /\ hashTable[h].tail = IF n = 0 THEN NONE ELSE q[n]
    BY <1>1 DEF Chain, BucketLinks, Table
  <2>4. dataBuf[b].hashPrev = NONE <=> hashTable[h].head = b
    BY <1>1, <1>2, <1>3, <2>1, <2>2, <2>3
  <2>5. dataBuf[b].hashNext = NONE <=> hashTable[h].tail = b
    BY <1>1, <1>2, <1>3, <2>1, <2>2, <2>3
  <2>6. dataBuf[b].hashNext # NONE => dataBuf[dataBuf[b].hashNext].hashPrev = b
    <3>1. i # n => i + 1 \in 1 .. n /\ i + 1 # 1 /\ (i + 1) - 1 = i
        BY <1>1
    <3> QED
        BY <3>1, <2>1, <2>2
  <2> QED
    BY <2>4, <2>5, <2>6
<1> QED
    BY <1>8, <1>9

\* The two structures hold what they should.
LEMMA LinkedLruAgrees == Linked => LruLinksAgree
<1> SUFFICES ASSUME Linked PROVE LruLinksAgree
    OBVIOUS
<1>1. PICK q : IsOrder(Table, q)
    BY DEF Linked
<1>2. /\ LruOrder = q /\ FromLeastRecent = Reversed(q, ENTRIES)
      /\ q \in [1 .. ENTRIES -> Bufs] /\ \A b \in Bufs : \E i \in 1 .. ENTRIES : q[i] = b
    BY <1>1, OrderRead, OrderIs
<1>3. Met(LruOrder) = Bufs
    BY <1>2 DEF Met
<1>4. ASSUME NEW i \in 1 .. ENTRIES
      PROVE  LruOrder[i] = FromLeastRecent[ENTRIES + 1 - i]
  <2>1. ENTRIES + 1 - i \in 1 .. ENTRIES /\ ENTRIES + 1 - (ENTRIES + 1 - i) = i
    BY DataBufferAssumption
  <2> QED
    BY <2>1, <1>2 DEF Reversed
<1> QED
    BY <1>3, <1>4 DEF LruLinksAgree

\* Buckets that hold the entries of their addresses are walked exactly.
LEMMA FiledExact == LinkedAndFiled => BucketsExact
<1> SUFFICES ASSUME LinkedAndFiled, NEW h \in Bufs
             PROVE  /\ InBucket(h) = {b \in Bufs : dataBuf[b].lsa # LSA_NONE /\ Bucket(dataBuf[b].lsa) = h}
                    /\ \A b \in InBucket(h) :
                          /\ dataBuf[b].hashPrev = NONE <=> hashTable[h].head = b
                          /\ dataBuf[b].hashNext = NONE <=> hashTable[h].tail = b
                          /\ dataBuf[b].hashNext # NONE => dataBuf[dataBuf[b].hashNext].hashPrev = b
    BY DEF BucketsExact
<1> DEFINE S == {b \in Bufs : dataBuf[b].lsa # LSA_NONE /\ Bucket(dataBuf[b].lsa) = h}
<1>1. Filed(Table, h) \ {} = S
    BY DEF Filed, Table
<1>2. BucketHolds(Table, h, S) /\ S \in SUBSET Bufs
    BY <1>1 DEF LinkedAndFiled, AllFiledBut
<1> HIDE DEF S
<1>3. /\ InBucket(h) = S
      /\ \A b \in S :
           /\ dataBuf[b].hashPrev = NONE <=> hashTable[h].head = b
           /\ dataBuf[b].hashNext = NONE <=> hashTable[h].tail = b
           /\ dataBuf[b].hashNext # NONE => dataBuf[dataBuf[b].hashNext].hashPrev = b
    BY <1>2, BucketRead
<1> QED
    BY <1>3 DEF S

-----------------------------------------------------------------------------
(* One request, one flush.                                                  *)

\* CheckDataBufHit finds an entry: it becomes the first, and nothing else moves.
LEMMA HitNext ==
    ASSUME BufTypeOK, NEW q, IsOrder(Table, q), NEW lsa \in Addresses, NEW phy \in BOOLEAN,
           NEW mark \in Marks, Hit(lsa, phy, mark)
    PROVE  \E k \in 1 .. ENTRIES :
              /\ q[k] \in Hits(lsa, phy)
              /\ Table' \in Tables
              /\ IsOrder(Table', ToFront(q, ENTRIES, k))
              /\ Served(Table, Table', q[k], dataBuf[q[k]].lsa, phy,
                        IF mark = "kept" THEN dataBuf[q[k]].dirty ELSE mark = "dirty")
              /\ AllFiledBut(Table, {}) => AllFiledBut(Table', {})
<1>1. PICK b \in Hits(lsa, phy) : Put(Marked(PutMru(UnlinkLru(Table, b), b), b, phy, mark))
    BY DEF Hit
<1>2. b \in Bufs
    BY HitsType DEF Addresses
<1>3. PICK k \in 1 .. ENTRIES : q[k] = b
    BY <1>2 DEF IsOrder
<1> DEFINE m2 == Marked(PutMru(UnlinkLru(Table, q[k]), q[k]), q[k], phy, mark)
<1>4. Table \in Tables
    BY TableType
<1>5. /\ m2 \in Tables
      /\ IsOrder(m2, ToFront(q, ENTRIES, k))
      /\ Served(Table, m2, q[k], Table.buf[q[k]].lsa, phy,
                IF mark = "kept" THEN Table.buf[q[k]].dirty ELSE mark = "dirty")
      /\ AllFiledBut(Table, {}) => AllFiledBut(m2, {})
    BY <1>4, HitStep
<1>6. Put(m2)
    BY <1>1, <1>3
<1> HIDE DEF m2
<1>7. Table' = m2
    BY <1>5, <1>6, PutTable
<1>8. Table.buf = dataBuf
    BY DEF Table
<1> QED
    BY <1>1, <1>3, <1>5, <1>7, <1>8

\* AllocateDataBuf: the last entry leaves its bucket, becomes the first, and is filed
\* under the new address.
LEMMA MissNext ==
    ASSUME BufTypeOK, NEW q, IsOrder(Table, q), NEW lsa \in Addresses, NEW phy \in BOOLEAN,
           NEW mark \in Marks, Miss(lsa, phy, mark)
    PROVE  /\ Hits(lsa, phy) = {}
           /\ q[ENTRIES] \in Bufs
           /\ Table' \in Tables
           /\ IsOrder(Table', ToFront(q, ENTRIES, ENTRIES))
           /\ Served(Table, Table', q[ENTRIES], lsa, phy, mark = "dirty")
           /\ AllFiledBut(Table, {}) /\ lsa # LSA_NONE => AllFiledBut(Table', {})
<1> DEFINE b == Table.lru.tail
           m2 == Marked(PutToDataBufHashList(Evicted(AllocateDataBuf(Table), b, lsa), b), b, phy, mark)
<1>1. Table \in Tables
    BY TableType
<1>2. /\ m2 \in Tables
      /\ b \in Bufs /\ b = q[ENTRIES]
      /\ IsOrder(m2, ToFront(q, ENTRIES, ENTRIES))
      /\ Served(Table, m2, b, lsa, phy, mark = "dirty")
      /\ AllFiledBut(Table, {}) /\ lsa # LSA_NONE => AllFiledBut(m2, {})
    BY <1>1, MissStep
<1>3. Hits(lsa, phy) = {} /\ Put(m2)
  <2>1. Table.lru.tail = lruList.tail
    BY DEF Table
  <2> QED
    BY <2>1 DEF Miss
<1> HIDE DEF m2, b
<1>4. Table' = m2
    BY <1>2, <1>3, PutTable
<1> QED
    BY <1>2, <1>3, <1>4

\* FlushDataBuf meets every entry, cleans it, and moves none.
LEMMA FlushNext ==
    ASSUME BufTypeOK, NEW q, IsOrder(Table, q), FlushDataBuf
    PROVE  /\ Table' \in Tables
           /\ IsOrder(Table', q)
           /\ \A c \in Bufs : /\ dataBuf'[c].lsa = dataBuf[c].lsa
                              /\ dataBuf'[c].phyReq = dataBuf[c].phyReq
                              /\ dataBuf'[c].dirty = FALSE
           /\ AllFiledBut(Table, {}) => AllFiledBut(Table', {})
<1>1. Met(FromLeastRecent) = Bufs
  <2>1. FromLeastRecent = Reversed(q, ENTRIES) /\ q \in [1 .. ENTRIES -> Bufs]
        /\ \A b \in Bufs : \E i \in 1 .. ENTRIES : q[i] = b
    BY OrderIs, OrderRead
  <2>2. ENTRIES \in Nat
    BY DataBufferAssumption
  <2>3. ASSUME NEW i \in 1 .. ENTRIES
        PROVE  Reversed(q, ENTRIES)[ENTRIES + 1 - i] = q[i] /\ ENTRIES + 1 - i \in 1 .. ENTRIES
    BY <2>2 DEF Reversed
  <2>4. DOMAIN Reversed(q, ENTRIES) = 1 .. ENTRIES
    BY DEF Reversed
  <2>5. \A i \in 1 .. ENTRIES : Reversed(q, ENTRIES)[i] \in Bufs
    BY <2>1, <2>2 DEF Reversed
  <2> QED
    BY <2>1, <2>3, <2>4, <2>5 DEF Met
<1>2. dataBuf \in [Bufs -> Entries] /\ lruList' = lruList /\ hashTable' = hashTable
    BY DEF BufTypeOK, FlushDataBuf
<1>3. ASSUME NEW c \in Bufs
      PROVE  /\ dataBuf'[c] \in Entries
             /\ dataBuf'[c].next = dataBuf[c].next /\ dataBuf'[c].prev = dataBuf[c].prev
             /\ dataBuf'[c].hashNext = dataBuf[c].hashNext
             /\ dataBuf'[c].hashPrev = dataBuf[c].hashPrev
             /\ dataBuf'[c].lsa = dataBuf[c].lsa
             /\ dataBuf'[c].phyReq = dataBuf[c].phyReq
             /\ dataBuf'[c].dirty = FALSE
  <2>1. dataBuf'[c] = [dataBuf[c] EXCEPT !.dirty = @ /\ c \notin Met(FromLeastRecent)]
    BY DEF FlushDataBuf
  <2>2. dataBuf[c] \in Entries /\ dataBuf[c].dirty \in BOOLEAN
    BY <1>2, EntryFields
  <2>3. (dataBuf[c].dirty /\ c \notin Met(FromLeastRecent)) = FALSE
    BY <1>1, <2>2
  <2>4. dataBuf'[c] = [dataBuf[c] EXCEPT !.dirty = FALSE]
    BY <2>1, <2>3
  <2> QED
    BY <2>2, <2>4 DEF Entries
<1>4. dataBuf' \in [Bufs -> Entries]
    BY <1>3 DEF FlushDataBuf
<1>5. Table' \in Tables
    BY <1>2, <1>4 DEF Table, Tables, BufTypeOK
<1>6. SameLru(Table, Table') /\ SameBuckets(Table, Table')
    BY <1>2, <1>3 DEF SameLru, SameBuckets, Table
<1>7. IsOrder(Table', q)
    BY <1>6, SameLruLinks DEF IsOrder
<1>8. AllFiledBut(Table, {}) => AllFiledBut(Table', {})
  <2>1. \A c \in Bufs \ {} : Table'.buf[c].lsa = Table.buf[c].lsa
    BY <1>3 DEF Table
  <2> QED
    BY <2>1, <1>6, SameFiled
<1> QED
    BY <1>3, <1>5, <1>7, <1>8

-----------------------------------------------------------------------------
\* The entries start in the LRU list in their order and in no bucket.
LEMMA InitLinked == InitDataBuf => LinkedAndFiled
<1> SUFFICES ASSUME InitDataBuf PROVE LinkedAndFiled
    OBVIOUS
<1> DEFINE q == [i \in 1 .. ENTRIES |-> i - 1]
           e == [i \in 1 .. 0 |-> 0]
<1>1. ENTRIES \in Nat /\ ENTRIES # 0 /\ NONE \notin Bufs /\ 0 \in Bufs /\ ENTRIES - 1 \in Bufs
    BY DataBufferAssumption DEF Bufs
<1>2. ASSUME NEW b \in Bufs
      PROVE  /\ dataBuf[b] \in Entries
             /\ dataBuf[b].lsa = LSA_NONE
             /\ dataBuf[b].prev = IF b = 0 THEN NONE ELSE b - 1
             /\ dataBuf[b].next = IF b = ENTRIES - 1 THEN NONE ELSE b + 1
  <2> DEFINE p == IF b = 0 THEN NONE ELSE b - 1
             x == IF b = ENTRIES - 1 THEN NONE ELSE b + 1
  <2>1. p \in Bufs \cup {NONE} /\ x \in Bufs \cup {NONE}
    BY <1>1 DEF Bufs
  <2>2. dataBuf[b] = [lsa |-> LSA_NONE, phyReq |-> FALSE, dirty |-> FALSE, prev |-> p, next |-> x,
                      hashPrev |-> NONE, hashNext |-> NONE]
    BY DEF InitDataBuf
  <2> HIDE DEF p, x
  <2>3. /\ dataBuf[b] \in Entries /\ dataBuf[b].lsa = LSA_NONE
        /\ dataBuf[b].prev = p /\ dataBuf[b].next = x
    BY <2>1, <2>2 DEF Entries
  <2> QED
    BY <2>3 DEF p, x
<1>3. BufTypeOK
  <2>1. \A b \in Bufs : dataBuf[b] \in Entries
    BY <1>2
  <2>2. dataBuf \in [Bufs -> Entries]
    BY <2>1 DEF InitDataBuf
  <2>3. lruList \in Ends /\ hashTable \in [Bufs -> Ends]
    BY <1>1 DEF InitDataBuf, Ends
  <2> QED
    BY <2>2, <2>3 DEF BufTypeOK
<1>4. IsOrder(Table, q)
  <2>1. q \in [1 .. ENTRIES -> Bufs] /\ \A i \in 1 .. ENTRIES : q[i] = i - 1
    BY <1>1 DEF Bufs
  <2>2. \A i, j \in 1 .. ENTRIES : q[i] = q[j] => i = j
    BY <1>1
  <2>3. LruLinks(Table).first = q[1] /\ LruLinks(Table).last = q[ENTRIES]
    BY <1>1 DEF LruLinks, Table, InitDataBuf
  <2>4. ASSUME NEW i \in 1 .. ENTRIES
        PROVE  /\ LruLinks(Table).nxt[q[i]] = IF i = ENTRIES THEN NONE ELSE q[i + 1]
               /\ LruLinks(Table).prv[q[i]] = IF i = 1 THEN NONE ELSE q[i - 1]
    <3>1. q[i] = i - 1 /\ i - 1 \in Bufs
        BY <2>1
    <3>2. /\ dataBuf[i - 1].next = IF i - 1 = ENTRIES - 1 THEN NONE ELSE (i - 1) + 1
          /\ dataBuf[i - 1].prev = IF i - 1 = 0 THEN NONE ELSE (i - 1) - 1
        BY <1>2, <3>1
    <3>3. i # ENTRIES => q[i + 1] = (i + 1) - 1
        BY <1>1
    <3>4. i # 1 => q[i - 1] = (i - 1) - 1
        BY <1>1
    <3>5. LruLinks(Table).nxt[i - 1] = dataBuf[i - 1].next /\ LruLinks(Table).prv[i - 1] = dataBuf[i - 1].prev
        BY <3>1 DEF LruLinks, Table
    <3> HIDE DEF q
    <3> QED
        BY <3>1, <3>2, <3>3, <3>4, <3>5, <1>1
  <2>5. \A b \in Bufs : \E i \in 1 .. ENTRIES : q[i] = b
    <3> SUFFICES ASSUME NEW b \in Bufs PROVE \E i \in 1 .. ENTRIES : q[i] = b
        OBVIOUS
    <3>1. b + 1 \in 1 .. ENTRIES /\ q[b + 1] = b
        BY <1>1 DEF Bufs
    <3> QED
        BY <3>1
  <2> HIDE DEF q
  <2> QED
    BY <1>1, <2>1, <2>2, <2>3, <2>4, <2>5 DEF IsOrder, Chain
<1>5. AllFiledBut(Table, {})
  <2> SUFFICES ASSUME NEW h \in Bufs PROVE BucketHolds(Table, h, Filed(Table, h) \ {})
    BY DEF AllFiledBut
  <2>1. Filed(Table, h) \ {} = {}
    BY <1>2 DEF Filed, Table
  <2>2. hashTable[h] = [head |-> NONE, tail |-> NONE]
    BY DEF InitDataBuf
  <2>3. Chain(BucketLinks(Table, h), e, 0)
    BY <2>2 DEF Chain, BucketLinks, Table
  <2> HIDE DEF e
  <2>4. \A c \in Bufs : c \in {} <=> \E i \in 1 .. 0 : e[i] = c
    OBVIOUS
  <2> QED
    BY <2>1, <2>3, <2>4 DEF BucketHolds
<1> HIDE DEF q
<1> QED
    BY <1>3, <1>4, <1>5 DEF LinkedAndFiled, Linked

\* Primed forms.
LEMMA LinkedNext ==
    ASSUME NEW q, Table' \in Tables, IsOrder(Table', q)
    PROVE  Linked' /\ (AllFiledBut(Table', {}) => LinkedAndFiled')
<1>1. BufTypeOK'
    BY DEF BufTypeOK, Table, Tables
<1>2. (\E r : IsOrder(Table, r))'
    OBVIOUS
<1>3. Linked'
    BY <1>1, <1>2 DEF Linked
<1> QED
    BY <1>3 DEF LinkedAndFiled

\* Every request and every flush preserves the order, with file names too.
LEMMA SliceRequestLinked ==
    ASSUME Linked, NEW lsa \in Addresses, NEW phy \in BOOLEAN, NEW mark \in Marks,
           SliceRequest(lsa, phy, mark)
    PROVE  Linked' /\ (LinkedAndFiled /\ lsa # LSA_NONE => LinkedAndFiled')
<1>1. PICK q : BufTypeOK /\ IsOrder(Table, q)
    BY DEF Linked
<1>2. CASE Hit(lsa, phy, mark)
  <2>1. PICK k \in 1 .. ENTRIES :
              /\ Table' \in Tables
              /\ IsOrder(Table', ToFront(q, ENTRIES, k))
              /\ AllFiledBut(Table, {}) => AllFiledBut(Table', {})
    BY <1>1, <1>2, HitNext
  <2> QED
    BY <2>1, LinkedNext DEF LinkedAndFiled
<1>3. CASE Miss(lsa, phy, mark)
  <2>1. /\ Table' \in Tables
        /\ IsOrder(Table', ToFront(q, ENTRIES, ENTRIES))
        /\ AllFiledBut(Table, {}) /\ lsa # LSA_NONE => AllFiledBut(Table', {})
    BY <1>1, <1>3, MissNext
  <2> QED
    BY <2>1, LinkedNext DEF LinkedAndFiled
<1> QED
    BY <1>2, <1>3 DEF SliceRequest

\* ... a flush ...
LEMMA FlushLinked ==
    ASSUME Linked, FlushDataBuf
    PROVE  Linked' /\ (LinkedAndFiled => LinkedAndFiled')
<1>1. PICK q : BufTypeOK /\ IsOrder(Table, q)
    BY DEF Linked
<1>2. /\ Table' \in Tables
      /\ IsOrder(Table', q)
      /\ AllFiledBut(Table, {}) => AllFiledBut(Table', {})
    BY <1>1, FlushNext
<1> QED
    BY <1>2, LinkedNext DEF LinkedAndFiled

\* ... every command of the host ...
LEMMA ReadOrWriteLinked ==
    ASSUME Linked, ReadOrWrite
    PROVE  Linked' /\ (LinkedAndFiled => LinkedAndFiled')
<1>1. PICK lsa \in Lsas, phy \in BOOLEAN, mark \in {"kept", "dirty"} : SliceRequest(lsa, phy, mark)
    BY DEF ReadOrWrite
<1>2. lsa \in Addresses /\ lsa # LSA_NONE /\ mark \in Marks
    BY DataBufferAssumption DEF Addresses, Marks
<1> QED
    BY <1>1, <1>2, SliceRequestLinked

\* ... and doing nothing preserve them.
LEMMA IdleLinked ==
    ASSUME UNCHANGED bufVars
    PROVE  (Linked => Linked') /\ (LinkedAndFiled => LinkedAndFiled')
<1>1. Table' = Table
    BY DEF bufVars, Table
<1>2. ASSUME Linked PROVE Linked' /\ (AllFiledBut(Table, {}) => LinkedAndFiled')
  <2>1. PICK q : BufTypeOK /\ IsOrder(Table, q)
    BY <1>2 DEF Linked
  <2>2. Table' \in Tables /\ IsOrder(Table', q)
    BY <1>1, <2>1, TableType
  <2> QED
    BY <1>1, <2>2, LinkedNext
<1> QED
    BY <1>2 DEF LinkedAndFiled

-----------------------------------------------------------------------------
(* Theorems.                                                                *)

\* Whatever slices, physical requests and file names are served, the links of
\* the LRU list thread every entry once.
THEOREM LruListLinked == BufSpec => []Linked
<1>1. InitDataBuf => Linked
    BY InitLinked DEF LinkedAndFiled
<1>2. Linked /\ [BufNext]_bufVars => Linked'
  <2> SUFFICES ASSUME Linked, [BufNext]_bufVars PROVE Linked'
    OBVIOUS
  <2>1. CASE ReadOrWrite
    BY <2>1, ReadOrWriteLinked
  <2>2. CASE ReceiveFileName
    <3>1. LSA_NONE \in Addresses /\ FALSE \in BOOLEAN /\ "clean" \in Marks
        BY DEF Addresses, Marks
    <3> QED
        BY <2>2, <3>1, SliceRequestLinked DEF ReceiveFileName
  <2>3. CASE FlushDataBuf
    BY <2>3, FlushLinked
  <2>4. CASE UNCHANGED bufVars
    BY <2>4, IdleLinked
  <2> QED
    BY <2>1, <2>2, <2>3, <2>4 DEF BufNext
<1> QED
    BY <1>1, <1>2, PTL DEF BufSpec

\* The types of the three structures.
THEOREM DataBufferTypeCorrect == BufSpec => []BufTypeOK
<1>1. Linked => BufTypeOK
    BY DEF Linked
<1> QED
    BY <1>1, LruListLinked, PTL

\* FlushDataBuf meets every entry, and AllocateDataBuf's `prevEntry' is the
\* entry to be evicted after the last one, even with file names in the cache.
THEOREM LruListAgrees == BufSpec => []LruLinksAgree
BY LinkedLruAgrees, LruListLinked, PTL

\* Without file names every bucket holds the entries of its addresses.
THEOREM ListsHold == SpecWithoutFileNames => []LinkedAndFiled
<1>1. LinkedAndFiled /\ [ReadOrWrite \/ FlushDataBuf]_bufVars => LinkedAndFiled'
  <2> SUFFICES ASSUME LinkedAndFiled, [ReadOrWrite \/ FlushDataBuf]_bufVars PROVE LinkedAndFiled'
    OBVIOUS
  <2>1. Linked
    BY DEF LinkedAndFiled
  <2>2. CASE ReadOrWrite
    BY <2>1, <2>2, ReadOrWriteLinked
  <2>3. CASE FlushDataBuf
    BY <2>1, <2>3, FlushLinked
  <2>4. CASE UNCHANGED bufVars
    BY <2>4, IdleLinked
  <2> QED
    BY <2>2, <2>3, <2>4
<1> QED
    BY <1>1, InitLinked, PTL DEF SpecWithoutFileNames

\* Both structures agree in both directions: no removal cuts off a part.
THEOREM LinksAreExact == SpecWithoutFileNames => []LinksExact
<1>1. LinkedAndFiled => LinksExact
    BY LinkedLruAgrees, FiledExact DEF LinkedAndFiled, LinksExact
<1> QED
    BY <1>1, ListsHold, PTL

-----------------------------------------------------------------------------
(* The data buffers implement a cache in order of use.                      *)

HeldBy == [b \in Bufs |-> IF dataBuf[b].lsa = LSA_NONE THEN NONE
                          ELSE <<dataBuf[b].lsa, dataBuf[b].phyReq>>]
DirtyBufs == {b \in Bufs : dataBuf[b].dirty}

\* LruCache's move is the one the links make.
LEMMA MoveIsToFront ==
    ASSUME NEW q, q \in [1 .. ENTRIES -> Bufs], \A i, j \in 1 .. ENTRIES : q[i] = q[j] => i = j,
           NEW k \in 1 .. ENTRIES, LruOrder = q
    PROVE  Cache!MoveToFront(q[k]) = ToFront(q, ENTRIES, k)
<1>1. DOMAIN LruOrder = 1 .. ENTRIES
    OBVIOUS
<1>2. (CHOOSE i \in DOMAIN LruOrder : LruOrder[i] = q[k]) = k
    BY <1>1
<1> QED
    BY <1>1, <1>2 DEF Cache!MoveToFront, ToFront

\* A request that finds a slice.
LEMMA HitIsCacheHit ==
    ASSUME LinkedAndFiled, NEW lsa \in Lsas, NEW phy \in BOOLEAN, NEW mark \in {"kept", "dirty"},
           Hit(lsa, phy, mark)
    PROVE  \E b \in Bufs : Cache!Hit(b, <<lsa, phy>>, mark = "dirty")
<1>1. PICK q : BufTypeOK /\ IsOrder(Table, q)
    BY DEF LinkedAndFiled, Linked
<1>2. lsa \in Addresses /\ lsa # LSA_NONE /\ mark \in Marks
    BY DataBufferAssumption DEF Addresses, Marks
<1>3. PICK k \in 1 .. ENTRIES :
              /\ q[k] \in Hits(lsa, phy)
              /\ Table' \in Tables
              /\ IsOrder(Table', ToFront(q, ENTRIES, k))
              /\ Served(Table, Table', q[k], dataBuf[q[k]].lsa, phy,
                        IF mark = "kept" THEN dataBuf[q[k]].dirty ELSE mark = "dirty")
    BY <1>1, <1>2, HitNext
<1> DEFINE b == q[k]
<1>4. /\ LruOrder = q /\ LruOrder' = ToFront(q, ENTRIES, k)
      /\ q \in [1 .. ENTRIES -> Bufs] /\ \A i, j \in 1 .. ENTRIES : q[i] = q[j] => i = j
    BY <1>1, <1>3, OrderIs, OrderRead, OrderBecomes
<1>5. LruOrder' = Cache!MoveToFront(b)
    BY <1>4, MoveIsToFront
<1>6. b \in Bufs /\ dataBuf[b].lsa = lsa /\ dataBuf[b].phyReq = phy
    BY <1>2, <1>3, <1>4 DEF Hits
<1>7. \A c \in Bufs : /\ dataBuf'[c].lsa = dataBuf[c].lsa
                      /\ dataBuf'[c].phyReq = dataBuf[c].phyReq
                      /\ dataBuf'[c].dirty = IF c = b /\ mark = "dirty" THEN TRUE ELSE dataBuf[c].dirty
    BY <1>3, <1>6 DEF Served, Table
<1> HIDE DEF b
<1>8. HeldBy[b] = <<lsa, phy>> /\ HeldBy' = HeldBy
    BY <1>2, <1>6, <1>7 DEF HeldBy
<1>9. DirtyBufs' = IF mark = "dirty" THEN DirtyBufs \cup {b} ELSE DirtyBufs
    BY <1>6, <1>7 DEF DirtyBufs
<1>10. Cache!Hit(b, <<lsa, phy>>, mark = "dirty")
    BY <1>5, <1>8, <1>9 DEF Cache!Hit, HeldBy, DirtyBufs
<1> QED
    BY <1>6, <1>10

\* A request that does not.
LEMMA MissIsCacheMiss ==
    ASSUME LinkedAndFiled, NEW lsa \in Lsas, NEW phy \in BOOLEAN, NEW mark \in {"kept", "dirty"},
           Miss(lsa, phy, mark)
    PROVE  \E b \in Bufs : Cache!Miss(b, <<lsa, phy>>, mark = "dirty")
<1>1. PICK q : BufTypeOK /\ IsOrder(Table, q)
    BY DEF LinkedAndFiled, Linked
<1>2. lsa \in Addresses /\ lsa # LSA_NONE /\ mark \in Marks
    BY DataBufferAssumption DEF Addresses, Marks
<1> DEFINE b == q[ENTRIES]
<1>3. /\ Hits(lsa, phy) = {}
      /\ b \in Bufs
      /\ Table' \in Tables
      /\ IsOrder(Table', ToFront(q, ENTRIES, ENTRIES))
      /\ Served(Table, Table', b, lsa, phy, mark = "dirty")
    BY <1>1, <1>2, MissNext
<1>4. /\ LruOrder = q /\ LruOrder' = ToFront(q, ENTRIES, ENTRIES)
      /\ q \in [1 .. ENTRIES -> Bufs] /\ \A i, j \in 1 .. ENTRIES : q[i] = q[j] => i = j
      /\ ENTRIES \in Nat /\ ENTRIES \in 1 .. ENTRIES
  <2>1. LruOrder = q /\ LruOrder' = ToFront(q, ENTRIES, ENTRIES)
    BY <1>1, <1>3, OrderIs, OrderBecomes
  <2>2. q \in [1 .. ENTRIES -> Bufs] /\ \A i, j \in 1 .. ENTRIES : q[i] = q[j] => i = j
    BY <1>1, OrderRead
  <2> QED
    BY <2>1, <2>2, DataBufferAssumption
<1>5. LruOrder' = Cache!MoveToFront(b)
    BY <1>4, MoveIsToFront
<1>6. b = Cache!LeastRecent
  <2>1. Len(q) = ENTRIES
    BY <1>4
  <2> QED
    BY <2>1, <1>4 DEF Cache!LeastRecent
<1>7. \A c \in Bufs : /\ dataBuf'[c].lsa = IF c = b THEN lsa ELSE dataBuf[c].lsa
                      /\ dataBuf'[c].phyReq = IF c = b THEN phy ELSE dataBuf[c].phyReq
                      /\ dataBuf'[c].dirty = IF c = b THEN mark = "dirty" ELSE dataBuf[c].dirty
    BY <1>3 DEF Served, Table
<1> HIDE DEF b
<1>8. ASSUME NEW c \in Bufs
      PROVE  HeldBy[c] # <<lsa, phy>>
  <2>1. CASE dataBuf[c].lsa = LSA_NONE
    <3>1. <<lsa, phy>> # NONE
        BY DataBufferAssumption
    <3> QED
        BY <2>1, <3>1 DEF HeldBy
  <2>2. CASE dataBuf[c].lsa # LSA_NONE
    <3>1. ~ (dataBuf[c].lsa = lsa /\ dataBuf[c].phyReq = phy)
        <4>1. Bucket(lsa) \in Bufs
            BY <1>2, BucketType DEF Addresses
        <4>2. InBucket(Bucket(lsa)) = {x \in Bufs : dataBuf[x].lsa # LSA_NONE /\ Bucket(dataBuf[x].lsa) = Bucket(lsa)}
            BY <4>1, FiledExact DEF BucketsExact
        <4> QED
            BY <4>2, <1>2, <1>3 DEF Hits
    <3> QED
        BY <2>2, <3>1 DEF HeldBy
  <2> QED
    BY <2>1, <2>2
<1>9. HeldBy' = [HeldBy EXCEPT ![b] = <<lsa, phy>>]
  <2>1. \A c \in Bufs : HeldBy'[c] = IF c = b THEN <<lsa, phy>> ELSE HeldBy[c]
    BY <1>2, <1>7 DEF HeldBy
  <2>2. HeldBy' = [c \in Bufs |-> HeldBy'[c]] /\ HeldBy = [c \in Bufs |-> HeldBy[c]]
    BY DEF HeldBy
  <2> QED
    BY <2>1, <2>2
<1>10. DirtyBufs' = IF mark = "dirty" THEN DirtyBufs \cup {b} ELSE DirtyBufs \ {b}
    BY <1>3, <1>7 DEF DirtyBufs
<1>11. Cache!Holds(<<lsa, phy>>) = {}
    BY <1>8 DEF Cache!Holds, HeldBy
<1>12. Cache!Miss(b, <<lsa, phy>>, mark = "dirty")
    BY <1>5, <1>6, <1>9, <1>10, <1>11 DEF Cache!Miss, HeldBy, DirtyBufs
<1> QED
    BY <1>3, <1>12

\* A flush.
LEMMA FlushIsCacheFlush ==
    ASSUME LinkedAndFiled, FlushDataBuf
    PROVE  Cache!Flush
<1>1. PICK q : BufTypeOK /\ IsOrder(Table, q)
    BY DEF LinkedAndFiled, Linked
<1>2. /\ IsOrder(Table', q)
      /\ \A c \in Bufs : /\ dataBuf'[c].lsa = dataBuf[c].lsa
                         /\ dataBuf'[c].phyReq = dataBuf[c].phyReq
                         /\ dataBuf'[c].dirty = FALSE
    BY <1>1, FlushNext
<1>3. LruOrder' = LruOrder
    BY <1>1, <1>2, OrderIs, OrderBecomes
<1>4. HeldBy' = HeldBy
    BY <1>2 DEF HeldBy
<1>5. DirtyBufs' = {}
    BY <1>2 DEF DirtyBufs
<1> QED
    BY <1>3, <1>4, <1>5 DEF Cache!Flush, HeldBy, DirtyBufs

\* What is cached is found and a miss takes the entry used longest ago.
THEOREM DataBufferImplementsLruCache == SpecWithoutFileNames => ImplementsLruCache
<1>1. InitDataBuf => Cache!CacheInit
  <2> SUFFICES ASSUME InitDataBuf PROVE Cache!CacheInit
    OBVIOUS
  <2>1. PICK q : IsOrder(Table, q)
    BY InitLinked DEF LinkedAndFiled, Linked
  <2>2. /\ LruOrder = q /\ q \in [1 .. ENTRIES -> Bufs]
        /\ \A b \in Bufs : \E i \in 1 .. ENTRIES : q[i] = b
    BY <2>1, OrderIs, OrderRead
  <2>3. Cardinality(Bufs) = ENTRIES
    BY FS_Interval, DataBufferAssumption DEF Bufs
  <2>4. LruOrder \in Cache!Orders
    <3> DEFINE F == [1 .. Cardinality(Bufs) -> Bufs]
    <3>1. DOMAIN q = 1 .. ENTRIES
        BY <2>2
    <3>2. q \in F
        BY <2>2, <2>3
    <3>3. \A b \in Bufs : \E i \in DOMAIN q : q[i] = b
        BY <2>2, <3>1
    <3>4. Cache!Orders = {s \in F : \A b \in Bufs : \E i \in DOMAIN s : s[i] = b}
        BY Zenon DEF Cache!Orders, Cache!Cardinality, Cardinality
    <3> HIDE DEF F
    <3>5. q \in Cache!Orders
        BY <3>2, <3>3, <3>4
    <3> QED
        BY <2>2, <3>5
  <2>5. HeldBy = [b \in Bufs |-> NONE]
    BY DEF InitDataBuf, HeldBy
  <2>6. DirtyBufs = {}
    BY DEF InitDataBuf, DirtyBufs
  <2> QED
    BY <2>4, <2>5, <2>6 DEF Cache!CacheInit, HeldBy, DirtyBufs
<1>2. LinkedAndFiled /\ [ReadOrWrite \/ FlushDataBuf]_bufVars => [Cache!CacheNext]_(Cache!cacheVars)
  <2> SUFFICES ASSUME LinkedAndFiled, [ReadOrWrite \/ FlushDataBuf]_bufVars
               PROVE  [Cache!CacheNext]_(Cache!cacheVars)
    OBVIOUS
  <2>1. CASE ReadOrWrite
    <3>1. PICK lsa \in Lsas, phy \in BOOLEAN, mark \in {"kept", "dirty"} : SliceRequest(lsa, phy, mark)
        BY <2>1 DEF ReadOrWrite
    <3>2. <<lsa, phy>> \in Lsas \X BOOLEAN /\ (mark = "dirty") \in BOOLEAN
        OBVIOUS
    <3>3. CASE Hit(lsa, phy, mark)
        BY <3>2, <3>3, HitIsCacheHit DEF Cache!CacheNext
    <3>4. CASE Miss(lsa, phy, mark)
        BY <3>2, <3>4, MissIsCacheMiss DEF Cache!CacheNext
    <3> QED
        BY <3>1, <3>3, <3>4 DEF SliceRequest
  <2>2. CASE FlushDataBuf
    BY <2>2, FlushIsCacheFlush DEF Cache!CacheNext
  <2>3. CASE UNCHANGED bufVars
    BY <2>3 DEF bufVars, Cache!cacheVars, LruOrder
  <2> QED
    BY <2>1, <2>2, <2>3
<1> QED
    BY <1>1, <1>2, ListsHold, PTL DEF SpecWithoutFileNames, ImplementsLruCache, Cache!CacheSpec
-----------------------------------------------------------------------------
(* The DMA FIFO.                                                             *)

\* The head is not ahead of the tail, nor a whole FIFO behind.
HeadBehindTail ==
    IF lag = 0 THEN hwHead <= fifoTail ELSE hwHead > fifoTail

\* The last reading of the head lies between the tail and the head: feeding a
\* block refreshes it first.
ReadingFresh ==
    IF lag = 0 THEN fifoHead <= hwHead \/ fifoHead > fifoTail
    ELSE fifoTail < fifoHead /\ fifoHead <= hwHead

\* A request's overflow count is its age behind the firmware's, and its tail
\* was passed.
Recorded(r) ==
    /\ r.overFlowCnt + r.age = overFlowCnt \/ r.overFlowCnt + r.age = overFlowCnt + LAPS
    /\ r.age = 0 => r.reqTail <= fifoTail
AllRecorded == \A i \in 1 .. Len(reqs) : Recorded(reqs[i])

\* Requests were fed in the order of the queue.
Before(r, s) == r.age > s.age \/ (r.age = s.age /\ r.reqTail <= s.reqTail)
FedInOrder == \A i, j \in 1 .. Len(reqs) : i < j => Before(reqs[i], reqs[j])

\* What the walk found done makes everything older done.
OlderMoved == walk # 0 /\ done => \A i \in 1 .. walk : Moved(reqs[i])

IInv ==
    /\ TypeOK
    /\ HeadBehindTail
    /\ ReadingFresh
    /\ AllRecorded
    /\ FedInOrder
    /\ OlderMoved

USE WidthAssumption DEF Positions, Laps, MaxAge

-----------------------------------------------------------------------------
(* The comparison of wrapped numbers is exact for one request.              *)

\* One request, compared with the head of the FIFO: the four cases of the
\* firmware's test answer whether its last block has moved.
LEMMA ComparisonExact ==
    ASSUME NEW r \in Request, TypeOK, HeadBehindTail, Recorded(r)
    PROVE  PartialDone(r) <=> Moved(r)
<1>1. /\ r.reqTail \in Positions /\ r.overFlowCnt \in Laps /\ r.age \in 0 .. LAPS - 1
      /\ hwHead \in Positions /\ fifoTail \in Positions /\ overFlowCnt \in Laps /\ lag \in 0 .. 1
    BY DEF Request, TypeOK
<1>2. overFlowCnt = r.overFlowCnt <=> r.age = 0
    BY <1>1 DEF Recorded
<1>3. overFlowCnt = Succ(r.overFlowCnt, LAPS) <=> r.age = 1
    BY <1>1 DEF Recorded, Succ
<1>4. r.age = 0 => r.reqTail <= fifoTail
    BY DEF Recorded
<1>5. PartialDone(r) <=> (\/ hwHead = fifoTail
                         \/ hwHead = r.reqTail
                         \/ /\ hwHead < r.reqTail
                            /\ IF fifoTail < r.reqTail THEN fifoTail > hwHead \/ r.age # 1
                               ELSE r.age # 0
                         \/ /\ hwHead > r.reqTail
                            /\ fifoTail < r.reqTail \/ fifoTail > hwHead \/ r.age # 0)
    BY <1>2, <1>3 DEF PartialDone
<1>6. CASE lag = 0
    BY <1>1, <1>4, <1>5, <1>6 DEF HeadBehindTail, Moved
<1>7. CASE lag = 1
    BY <1>1, <1>4, <1>5, <1>7 DEF HeadBehindTail, Moved
<1> QED
    BY <1>1, <1>6, <1>7

\* A later request that has moved takes the earlier ones with it.
LEMMA MovedInOrder ==
    ASSUME NEW r \in Request, NEW s \in Request, lag \in 0 .. 1, hwHead \in Positions,
           Before(r, s), Moved(s)
    PROVE  Moved(r)
    BY DEF Request, Before, Moved

\* Both tests answer exactly what they are asked.
LEMMA Exact == IInv => PartialDoneExact /\ AutoDoneExact
<1> SUFFICES ASSUME IInv
             PROVE  PartialDoneExact /\ AutoDoneExact
    OBVIOUS
<1>1. PartialDoneExact
    <2> SUFFICES ASSUME NEW i \in 1 .. Len(reqs)
                 PROVE  PartialDone(reqs[i]) <=> Moved(reqs[i])
        BY DEF PartialDoneExact
    <2>1. reqs[i] \in Request /\ Recorded(reqs[i])
        BY DEF IInv, TypeOK, AllRecorded
    <2> QED
        BY <2>1, ComparisonExact DEF IInv
<1>2. AutoDoneExact
    BY DEF IInv, TypeOK, HeadBehindTail, ReadingFresh, AutoDoneExact
<1> QED
    BY <1>1, <1>2

-----------------------------------------------------------------------------
LEMMA InitIInv == Init => IInv
<1> SUFFICES ASSUME Init
             PROVE  IInv
    OBVIOUS
<1>1. reqs \in Seq(Request) /\ Len(reqs) = 0
    BY DEF Init
<1>2. 0 \in Positions /\ 0 \in Laps /\ 0 \in 0 .. MaxBlocks
    OBVIOUS
<1>3. walk \in 0 .. Len(reqs) /\ lag \in 0 .. 1
    BY <1>1 DEF Init
<1>4. TypeOK
    BY <1>1, <1>2, <1>3 DEF Init, TypeOK
<1> QED
    BY <1>1, <1>4 DEF Init, IInv, HeadBehindTail, ReadingFresh, AllRecorded, FedInOrder, OlderMoved

\* The engine's step changes neither the requests nor the firmware's numbers.
LEMMA EngineIInv == IInv /\ Engine => IInv'
<1> SUFFICES ASSUME IInv, Engine
             PROVE  IInv'
    OBVIOUS
<1> USE DEF IInv, Engine, firmware, Succ, TypeOK
<1>1. TypeOK'
    BY DEF HeadBehindTail
<1>2. HeadBehindTail' /\ ReadingFresh'
    BY DEF HeadBehindTail, ReadingFresh
<1>3. AllRecorded' /\ FedInOrder'
    BY DEF AllRecorded, Recorded, FedInOrder, Before
<1>4. ASSUME NEW r \in Request, Moved(r)
      PROVE  Moved(r)'
    <2>1. r.reqTail \in Positions /\ r.age \in 0 .. LAPS - 1
        BY DEF Request
    <2>2. CASE lag = 0
        BY <1>4, <2>1, <2>2 DEF Moved, HeadBehindTail
    <2>3. CASE lag = 1
        BY <1>4, <2>1, <2>3 DEF Moved, HeadBehindTail
    <2> QED
        BY <2>2, <2>3
<1>5. OlderMoved'
    BY <1>4, LenProperties DEF OlderMoved
<1> QED
    BY <1>1, <1>2, <1>3, <1>5

\* Steps that change nothing the invariant is about.
LEMMA QuietIInv ==
    ASSUME IInv, TypeOK', UNCHANGED <<hwHead, lag, fifoTail, overFlowCnt, reqs>>,
           fifoHead' \in {fifoHead, hwHead}, walk' = 0 \/ done' = FALSE \/ UNCHANGED <<walk, done>>
    PROVE  IInv'
<1>1. HeadBehindTail' /\ ReadingFresh'
    BY DEF IInv, TypeOK, HeadBehindTail, ReadingFresh
<1>2. AllRecorded' /\ FedInOrder'
    BY DEF IInv, AllRecorded, Recorded, FedInOrder, Before
<1>3. OlderMoved'
    BY DEF IInv, OlderMoved, Moved
<1> QED
    BY <1>1, <1>2, <1>3 DEF IInv

\* A command is issued: its blocks join the FIFO ...
LEMMA IssueIInv ==
    ASSUME IInv, NEW n \in 1 .. MaxBlocks, IssueNvmeDmaReq(n)
    PROVE  IInv'
<1>1. TypeOK'
    BY DEF IInv, TypeOK, IssueNvmeDmaReq, engine
<1> QED
    BY <1>1, QuietIInv DEF IssueNvmeDmaReq, engine

\* ... the walk from the newest request starts ...
LEMMA StartCheckDoneIInv == IInv /\ StartCheckDone => IInv'
<1> SUFFICES ASSUME IInv, StartCheckDone
             PROVE  IInv'
    OBVIOUS
<1>1. Len(reqs) \in Nat
    BY LenProperties DEF IInv, TypeOK
<1>2. walk' = Len(reqs) /\ done' = FALSE /\ reqs' = reqs
    BY DEF StartCheckDone
<1>3. walk' \in 0 .. Len(reqs') /\ reqs' \in Seq(Request)
    BY <1>1, <1>2 DEF IInv, TypeOK
<1>4. UNCHANGED <<hwHead, lag, fifoHead, fifoTail, overFlowCnt, toIssue>>
    BY DEF StartCheckDone, engine
<1>5. TypeOK'
    BY <1>2, <1>3, <1>4 DEF IInv, TypeOK
<1> QED
    BY <1>2, <1>5, QuietIInv DEF StartCheckDone, engine

\* ... and reads the head of the FIFO.
LEMMA ReadHeadIInv == IInv /\ ReadHead => IInv'
<1> SUFFICES ASSUME IInv, ReadHead
             PROVE  IInv'
    OBVIOUS
<1>1. TypeOK'
    BY DEF IInv, TypeOK, ReadHead, engine
<1> QED
    BY <1>1, QuietIInv DEF ReadHead, engine

\* Feeding a block: the tail moves on, and the requests age when it wraps.
LEMMA OlderProperties ==
    ASSUME IInv, NEW wraps \in BOOLEAN, wraps => \A i \in 1 .. Len(reqs) : reqs[i].age < MaxAge
    PROVE  /\ Older(wraps) \in Seq(Request)
           /\ Len(Older(wraps)) = Len(reqs)
           /\ \A i \in 1 .. Len(reqs) :
                 /\ Older(wraps)[i].reqTail = reqs[i].reqTail
                 /\ Older(wraps)[i].overFlowCnt = reqs[i].overFlowCnt
                 /\ Older(wraps)[i].age = IF wraps THEN reqs[i].age + 1 ELSE reqs[i].age
<1>1. Len(reqs) \in Nat /\ \A i \in 1 .. Len(reqs) : reqs[i] \in Request
    BY LenProperties DEF IInv, TypeOK
<1>2. \A i \in 1 .. Len(reqs) :
        /\ [reqs[i] EXCEPT !.age = IF wraps THEN @ + 1 ELSE @] \in Request
        /\ [reqs[i] EXCEPT !.age = IF wraps THEN @ + 1 ELSE @].reqTail = reqs[i].reqTail
        /\ [reqs[i] EXCEPT !.age = IF wraps THEN @ + 1 ELSE @].overFlowCnt = reqs[i].overFlowCnt
        /\ [reqs[i] EXCEPT !.age = IF wraps THEN @ + 1 ELSE @].age
             = IF wraps THEN reqs[i].age + 1 ELSE reqs[i].age
    BY <1>1 DEF Request
<1>3. Older(wraps) \in Seq(Request) /\ Len(Older(wraps)) = Len(reqs)
    BY <1>1, <1>2 DEF Older
<1> QED
    BY <1>1, <1>2, <1>3 DEF Older

\* Age and overflow count of the tail grow together.
LEMMA AgeAndCountStep ==
    ASSUME NEW o \in Laps, NEW a \in 0 .. LAPS - 1, NEW c \in Laps, a + 1 < LAPS,
           o + a = c \/ o + a = c + LAPS
    PROVE  o + (a + 1) = Succ(c, LAPS) \/ o + (a + 1) = Succ(c, LAPS) + LAPS
    BY DEF Succ

\* Feeding a block to the FIFO, with the lap it may complete.
LEMMA SetAutoDmaIInv == IInv /\ SetAutoDma => IInv' /\ ~ (Len(reqs') < Len(reqs))
<1> SUFFICES ASSUME IInv, SetAutoDma
             PROVE  IInv' /\ ~ (Len(reqs') < Len(reqs))
    OBVIOUS
<1> DEFINE tail  == Succ(fifoTail, POSITIONS)
           wraps == fifoTail > tail
           laps  == IF wraps THEN Succ(overFlowCnt, LAPS) ELSE overFlowCnt
           new   == [reqTail |-> tail, overFlowCnt |-> laps, age |-> 0]
<1>1. /\ toIssue > 0 /\ tail # hwHead
      /\ wraps => \A i \in 1 .. Len(reqs) : reqs[i].age < MaxAge
      /\ fifoHead' = hwHead /\ fifoTail' = tail /\ overFlowCnt' = laps
      /\ lag' = IF wraps THEN lag + 1 ELSE lag
      /\ toIssue' = toIssue - 1
      /\ hwHead' = hwHead /\ walk' = walk /\ done' = done
    BY DEF SetAutoDma, WaitForRoom
<1>2. reqs' = IF toIssue = 1 THEN Append(Older(wraps), new) ELSE Older(wraps)
    BY DEF SetAutoDma
<1>3. /\ hwHead \in Positions /\ lag \in 0 .. 1 /\ fifoTail \in Positions /\ overFlowCnt \in Laps
      /\ toIssue \in 0 .. MaxBlocks /\ Len(reqs) \in Nat /\ walk \in 0 .. Len(reqs)
    BY LenProperties DEF IInv, TypeOK
<1>4. tail \in Positions /\ laps \in Laps /\ wraps \in BOOLEAN /\ (wraps => tail = 0)
      /\ (~wraps => tail = fifoTail + 1)
    BY <1>3 DEF Succ
<1>5. lag' \in 0 .. 1 /\ HeadBehindTail'
    BY <1>1, <1>3, <1>4 DEF IInv, HeadBehindTail, Succ
<1>6. ReadingFresh'
    BY <1>1, <1>3, <1>4, <1>5 DEF ReadingFresh, HeadBehindTail
<1>7. new \in Request /\ new.reqTail = tail /\ new.overFlowCnt = laps /\ new.age = 0
    BY <1>4 DEF Request
<1>8. /\ Older(wraps) \in Seq(Request) /\ Len(Older(wraps)) = Len(reqs)
      /\ \A i \in 1 .. Len(reqs) :
            /\ Older(wraps)[i].reqTail = reqs[i].reqTail
            /\ Older(wraps)[i].overFlowCnt = reqs[i].overFlowCnt
            /\ Older(wraps)[i].age = IF wraps THEN reqs[i].age + 1 ELSE reqs[i].age
    BY <1>1, <1>4, OlderProperties
<1>9. /\ reqs' \in Seq(Request)
      /\ Len(reqs') = Len(reqs) \/ Len(reqs') = Len(reqs) + 1
      /\ \A i \in 1 .. Len(reqs) : reqs'[i] = Older(wraps)[i]
      /\ \A i \in 1 .. Len(reqs') : i > Len(reqs) => reqs'[i] = new
    <2>1. CASE toIssue = 1
        <3>1. reqs' = Append(Older(wraps), new)
            BY <1>2, <2>1
        <3> HIDE DEF new, wraps
        <3> QED
            BY <1>3, <1>7, <1>8, <3>1, AppendEntry
    <2>2. CASE toIssue # 1
        <3>1. reqs' = Older(wraps)
            BY <1>2, <2>2
        <3> HIDE DEF new, wraps
        <3> QED
            BY <1>3, <1>8, <3>1
    <2> QED
        BY <2>1, <2>2
<1>10. \A i \in 1 .. Len(reqs) : reqs[i] \in Request /\ Recorded(reqs[i])
    BY DEF IInv, TypeOK, AllRecorded
<1>11. TypeOK'
    BY <1>1, <1>3, <1>4, <1>5, <1>9 DEF IInv, TypeOK
<1>12. AllRecorded'
    <2> SUFFICES ASSUME NEW i \in 1 .. Len(reqs')
                 PROVE  Recorded(reqs[i])'
        BY DEF AllRecorded
    <2>1. CASE i <= Len(reqs)
        <3>1. Recorded(reqs[i]) /\ reqs[i] \in Request
            BY <1>3, <1>10, <2>1
        <3>2. /\ reqs'[i].reqTail = reqs[i].reqTail
              /\ reqs'[i].overFlowCnt = reqs[i].overFlowCnt
              /\ reqs'[i].age = IF wraps THEN reqs[i].age + 1 ELSE reqs[i].age
            BY <1>3, <1>8, <1>9, <2>1
        <3>3. /\ reqs[i].reqTail \in Positions /\ reqs[i].overFlowCnt \in Laps
              /\ reqs[i].age \in 0 .. LAPS - 1
            BY <3>1 DEF Request
        <3>4. CASE wraps
            <4>1. reqs'[i].age = reqs[i].age + 1 /\ overFlowCnt' = Succ(overFlowCnt, LAPS)
                BY <1>1, <3>2, <3>4
            <4>2. reqs'[i].age # 0
                BY <3>3, <4>1
            <4>3. reqs[i].age + 1 < LAPS
                BY <1>1, <2>1, <3>3, <3>4, <1>3
            <4>4. \/ reqs[i].overFlowCnt + reqs[i].age = overFlowCnt
                  \/ reqs[i].overFlowCnt + reqs[i].age = overFlowCnt + LAPS
                BY <3>1 DEF Recorded
            <4> HIDE DEF new, tail, wraps, laps
            <4>5. \/ reqs[i].overFlowCnt + (reqs[i].age + 1) = Succ(overFlowCnt, LAPS)
                  \/ reqs[i].overFlowCnt + (reqs[i].age + 1) = Succ(overFlowCnt, LAPS) + LAPS
                BY <1>3, <3>3, <4>3, <4>4, AgeAndCountStep
            <4>6. \/ reqs'[i].overFlowCnt + reqs'[i].age = overFlowCnt'
                  \/ reqs'[i].overFlowCnt + reqs'[i].age = overFlowCnt' + LAPS
                BY <3>2, <4>1, <4>5
            <4> QED
                BY <4>2, <4>6 DEF Recorded
        <3>5. CASE ~ wraps
            <4>1. reqs'[i].age = reqs[i].age /\ overFlowCnt' = overFlowCnt /\ fifoTail' = fifoTail + 1
                BY <1>1, <1>4, <3>2, <3>5
            <4> QED
                BY <1>3, <3>1, <3>2, <3>3, <4>1 DEF Recorded
        <3> QED
            BY <3>4, <3>5
    <2>2. CASE i > Len(reqs)
        <3>1. reqs'[i] = new
            BY <1>9, <2>2
        <3> HIDE DEF new, tail, laps, wraps
        <3> QED
            BY <1>1, <1>4, <1>7, <3>1 DEF Recorded
    <2> QED
        BY <1>3, <1>9, <2>1, <2>2
<1>13. FedInOrder'
    <2> SUFFICES ASSUME NEW i \in 1 .. Len(reqs'), NEW j \in 1 .. Len(reqs'), i < j
                 PROVE  Before(reqs'[i], reqs'[j])
        BY DEF FedInOrder, Before
    <2>1. i <= Len(reqs) /\ i \in 1 .. Len(reqs)
        BY <1>3, <1>9
    <2>2. /\ reqs'[i].reqTail = reqs[i].reqTail
          /\ reqs'[i].age = IF wraps THEN reqs[i].age + 1 ELSE reqs[i].age
        BY <1>8, <1>9, <2>1
    <2>3. CASE j <= Len(reqs)
        <3>1. j \in 1 .. Len(reqs)
            BY <1>3, <2>3
        <3>2. /\ reqs'[j].reqTail = reqs[j].reqTail
              /\ reqs'[j].age = IF wraps THEN reqs[j].age + 1 ELSE reqs[j].age
            BY <1>8, <1>9, <3>1
        <3>3. Before(reqs[i], reqs[j])
            BY <2>1, <3>1 DEF IInv, FedInOrder
        <3>4. reqs[i] \in Request /\ reqs[j] \in Request
            BY <1>10, <2>1, <3>1
        <3>5. /\ reqs[i].reqTail \in Positions /\ reqs[i].age \in 0 .. LAPS - 1
              /\ reqs[j].reqTail \in Positions /\ reqs[j].age \in 0 .. LAPS - 1
            BY <3>4 DEF Request
        <3>6. CASE wraps
            <4>1. reqs'[i].age = reqs[i].age + 1 /\ reqs'[j].age = reqs[j].age + 1
                BY <2>2, <3>2, <3>6
            <4> HIDE DEF new, tail, wraps, laps
            <4> QED
                BY <2>2, <3>2, <3>3, <3>5, <4>1 DEF Before
        <3>7. CASE ~ wraps
            <4>1. reqs'[i].age = reqs[i].age /\ reqs'[j].age = reqs[j].age
                BY <2>2, <3>2, <3>7
            <4> HIDE DEF new, tail, wraps, laps
            <4> QED
                BY <2>2, <3>2, <3>3, <3>5, <4>1 DEF Before
        <3> QED
            BY <3>6, <3>7
    <2>4. CASE j > Len(reqs)
        <3>1. reqs'[j] = new
            BY <1>9, <2>4
        <3>2. reqs[i] \in Request /\ Recorded(reqs[i])
            BY <1>10, <2>1
        <3>3. reqs[i].reqTail \in Positions /\ reqs[i].age \in 0 .. LAPS - 1
            BY <3>2 DEF Request
        <3>4. reqs'[j].age = 0 /\ reqs'[j].reqTail = tail
            BY <1>7, <3>1
        <3>5. CASE wraps
            <4>1. reqs'[i].age = reqs[i].age + 1
                BY <2>2, <3>5
            <4> QED
                BY <3>3, <3>4, <4>1 DEF Before
        <3>6. CASE ~ wraps
            <4>1. reqs'[i].age = reqs[i].age /\ tail = fifoTail + 1
                BY <1>4, <2>2, <3>6
            <4> HIDE DEF tail
            <4> QED
                BY <1>3, <2>2, <3>2, <3>3, <3>4, <4>1 DEF Before, Recorded
        <3> QED
            BY <3>5, <3>6
    <2> QED
        BY <1>3, <1>9, <2>3, <2>4
<1>14. OlderMoved'
    <2> SUFFICES ASSUME walk' # 0, done', NEW i \in 1 .. walk'
                 PROVE  Moved(reqs[i])'
        BY DEF OlderMoved
    <2>1. walk # 0 /\ done /\ i \in 1 .. walk /\ i \in 1 .. Len(reqs)
        BY <1>1, <1>3
    <2>2. Moved(reqs[i]) /\ reqs[i] \in Request
        BY <1>10, <2>1 DEF IInv, OlderMoved
    <2>3. /\ reqs'[i].reqTail = reqs[i].reqTail
          /\ reqs'[i].age = IF wraps THEN reqs[i].age + 1 ELSE reqs[i].age
        BY <1>8, <1>9, <2>1
    <2> HIDE DEF wraps, tail
    <2> QED
        BY <1>1, <1>3, <2>2, <2>3 DEF Moved, Request
<1> QED
    BY <1>3, <1>5, <1>6, <1>9, <1>11, <1>12, <1>13, <1>14 DEF IInv

\* One step of the walk: the request is released when it, or a newer one, has
\* moved.
LEMMA CheckDoneIInv == IInv /\ CheckDone => IInv' /\ (reqs' # reqs => Moved(reqs[walk]))
<1> SUFFICES ASSUME IInv, CheckDone
             PROVE  IInv' /\ (reqs' # reqs => Moved(reqs[walk]))
    OBVIOUS
<1>1. /\ walk # 0 /\ walk' = walk - 1
      /\ done' = (done \/ PartialDone(reqs[walk]))
      /\ reqs' = IF done' THEN RemoveAtIndex(reqs, walk) ELSE reqs
    BY DEF CheckDone
<1>2. /\ hwHead' = hwHead /\ lag' = lag /\ fifoTail' = fifoTail
      /\ overFlowCnt' = overFlowCnt /\ toIssue' = toIssue
      /\ fifoHead' \in {fifoHead, hwHead}
    BY DEF CheckDone, engine
<1>3. /\ hwHead \in Positions /\ lag \in 0 .. 1 /\ Len(reqs) \in Nat /\ walk \in 1 .. Len(reqs)
      /\ reqs \in Seq(Request) /\ \A i \in 1 .. Len(reqs) : reqs[i] \in Request
    BY <1>1, LenProperties DEF IInv, TypeOK
<1>4. done' => Moved(reqs[walk])
    <2>1. CASE done
        BY <1>1, <1>3, <2>1 DEF IInv, OlderMoved
    <2>2. CASE ~ done
        <3>1. PartialDone(reqs[walk]) => Moved(reqs[walk])
            BY <1>3, Exact DEF PartialDoneExact
        <3> QED
            BY <1>1, <2>2, <3>1
    <2> QED
        BY <2>1, <2>2
<1> DEFINE From(j) == IF done' /\ j >= walk THEN j + 1 ELSE j
<1>5. /\ reqs' \in Seq(Request)
      /\ Len(reqs') = IF done' THEN Len(reqs) - 1 ELSE Len(reqs)
      /\ \A j \in 1 .. Len(reqs') : From(j) \in 1 .. Len(reqs) /\ reqs'[j] = reqs[From(j)]
    <2>1. CASE done'
        <3>1. reqs' = RemoveAtIndex(reqs, walk)
            BY <1>1, <2>1
        <3>2. /\ reqs' \in Seq(Request) /\ Len(reqs') = Len(reqs) - 1
              /\ \A j \in 1 .. Len(reqs) - 1 :
                    reqs'[j] = IF j < walk THEN reqs[j] ELSE reqs[j + 1]
            BY <1>3, <3>1, RemoveAtIndexProperties
        <3>3. \A j \in 1 .. Len(reqs') : From(j) \in 1 .. Len(reqs) /\ reqs'[j] = reqs[From(j)]
            BY <1>3, <2>1, <3>2
        <3> QED
            BY <2>1, <3>2, <3>3
    <2>2. CASE ~ done'
        BY <1>1, <1>3, <2>2
    <2> QED
        BY <2>1, <2>2
<1>6. walk' \in 0 .. Len(reqs')
    BY <1>1, <1>3, <1>5
<1>7. done' \in BOOLEAN
    BY <1>1 DEF IInv, TypeOK, PartialDone
<1>8. fifoHead' \in Positions
    BY <1>2 DEF IInv, TypeOK
<1>9. TypeOK'
    BY <1>2, <1>5, <1>6, <1>7, <1>8 DEF IInv, TypeOK
<1>10. HeadBehindTail' /\ ReadingFresh'
    BY <1>2 DEF IInv, TypeOK, HeadBehindTail, ReadingFresh
<1>11. AllRecorded'
    <2> SUFFICES ASSUME NEW j \in 1 .. Len(reqs')
                 PROVE  Recorded(reqs[j])'
        BY DEF AllRecorded
    <2>1. From(j) \in 1 .. Len(reqs) /\ reqs'[j] = reqs[From(j)]
        BY <1>5
    <2> HIDE DEF From
    <2> QED
        BY <1>2, <2>1 DEF IInv, AllRecorded, Recorded
<1>12. FedInOrder'
    <2> SUFFICES ASSUME NEW i \in 1 .. Len(reqs'), NEW j \in 1 .. Len(reqs'), i < j
                 PROVE  Before(reqs'[i], reqs'[j])
        BY DEF FedInOrder, Before
    <2>1. From(i) \in 1 .. Len(reqs) /\ reqs'[i] = reqs[From(i)]
        BY <1>5
    <2>2. From(j) \in 1 .. Len(reqs) /\ reqs'[j] = reqs[From(j)]
        BY <1>5
    <2>3. From(i) < From(j)
        BY <1>3
    <2> HIDE DEF From
    <2> QED
        BY <2>1, <2>2, <2>3 DEF IInv, FedInOrder
<1>13. OlderMoved'
    <2> SUFFICES ASSUME walk' # 0, done', NEW i \in 1 .. walk'
                 PROVE  Moved(reqs[i])'
        BY DEF OlderMoved
    <2>1. i \in 1 .. Len(reqs) /\ i < walk /\ i \in 1 .. Len(reqs') /\ reqs'[i] = reqs[i]
        BY <1>1, <1>3, <1>5
    <2>2. Before(reqs[i], reqs[walk])
        BY <1>3, <2>1 DEF IInv, FedInOrder
    <2>3. Moved(reqs[i])
        BY <1>3, <1>4, <2>1, <2>2, MovedInOrder
    <2> QED
        BY <1>2, <2>1, <2>3 DEF Moved
<1>14. reqs' # reqs => Moved(reqs[walk])
    BY <1>1, <1>4
<1> QED
    BY <1>9, <1>10, <1>11, <1>12, <1>13, <1>14 DEF IInv

\* Every step preserves the invariant, and only CheckDone shortens the queue.
LEMMA NextIInv ==
    IInv /\ [Next]_vars => IInv' /\ (Len(reqs') < Len(reqs) => Moved(reqs[walk]))
<1> SUFFICES ASSUME IInv, [Next]_vars
             PROVE  IInv' /\ (Len(reqs') < Len(reqs) => Moved(reqs[walk]))
    OBVIOUS
<1>0. Len(reqs) \in Nat
    BY LenProperties DEF IInv, TypeOK
<1>1. ASSUME NEW n \in 1 .. MaxBlocks, IssueNvmeDmaReq(n)
      PROVE  IInv' /\ reqs' = reqs
    BY <1>1, IssueIInv DEF IssueNvmeDmaReq
<1>2. ASSUME SetAutoDma
      PROVE  IInv' /\ ~ (Len(reqs') < Len(reqs))
    BY <1>2, SetAutoDmaIInv
<1>3. ASSUME Engine
      PROVE  IInv' /\ reqs' = reqs
    BY <1>3, EngineIInv DEF Engine, firmware
<1>4. ASSUME StartCheckDone
      PROVE  IInv' /\ reqs' = reqs
    BY <1>4, StartCheckDoneIInv DEF StartCheckDone
<1>5. ASSUME CheckDone
      PROVE  IInv' /\ (reqs' # reqs => Moved(reqs[walk]))
    BY <1>5, CheckDoneIInv
<1>6. ASSUME ReadHead
      PROVE  IInv' /\ reqs' = reqs
    BY <1>6, ReadHeadIInv DEF ReadHead
<1>7. ASSUME UNCHANGED vars
      PROVE  IInv' /\ reqs' = reqs
    <2>1. UNCHANGED <<hwHead, lag, fifoHead, fifoTail, overFlowCnt, reqs, toIssue, walk, done>>
        BY <1>7 DEF vars, engine, firmware
    <2>2. TypeOK'
        BY <2>1 DEF IInv, TypeOK
    <2> QED
        BY <2>1, <2>2, QuietIInv
<1>8. \/ IInv' /\ reqs' = reqs
      \/ IInv' /\ ~ (Len(reqs') < Len(reqs))
      \/ IInv' /\ (reqs' # reqs => Moved(reqs[walk]))
    BY <1>1, <1>2, <1>3, <1>4, <1>5, <1>6, <1>7 DEF Next
<1> QED
    BY <1>0, <1>8

\* The invariant holds in every state.
THEOREM HostDmaInductive == Spec => []IInv
<1>1. Init => IInv
    BY InitIInv
<1>2. IInv /\ [Next]_vars => IInv'
    BY NextIInv
<1> QED
    BY <1>1, <1>2, PTL DEF Spec

\* Every number the firmware keeps stays within its width.
THEOREM HostDmaTypeCorrect == Spec => []TypeOK
<1>1. IInv => TypeOK
    BY DEF IInv
<1> QED
    BY <1>1, HostDmaInductive, PTL

\* check_auto_*_dma_partial_done is exact for every width of the FIFO's
\* positions and overflow counts.
THEOREM PartialDoneIsExact == Spec => []PartialDoneExact
<1>1. IInv => PartialDoneExact
    BY Exact
<1> QED
    BY <1>1, HostDmaInductive, PTL

\* The loops of check_auto_*_dma_done, which compare a remembered head, end
\* only when the FIFO is empty.
THEOREM AutoDoneIsExact == Spec => []AutoDoneExact
<1>1. IInv => AutoDoneExact
    BY Exact
<1> QED
    BY <1>1, HostDmaInductive, PTL

\* CheckDoneNvmeDmaReq releases no request whose blocks are still in the FIFO,
\* the ones it infers from a newer request included.
THEOREM ReleasedRequestsHaveMoved == Spec => NoEarlyRelease
<1>1. IInv /\ [Next]_vars => [Len(reqs') < Len(reqs) => Moved(reqs[walk])]_vars
    BY NextIInv
<1> QED
    BY <1>1, HostDmaInductive, PTL DEF Spec, NoEarlyRelease
=============================================================================
