------------------------- MODULE LinkedLists_proofs -------------------------
(***************************************************************************)
(* What the list operators return.                                         *)
(***************************************************************************)
EXTENDS LinkedLists, SequenceTheorems, TLAPS

\* Removing a position shortens the list by one and closes the gap.
LEMMA RemoveAtIndexProperties ==
    ASSUME NEW S, NEW q \in Seq(S), NEW i \in 1 .. Len(q)
    PROVE  /\ RemoveAtIndex(q, i) \in Seq(S)
           /\ Len(RemoveAtIndex(q, i)) = Len(q) - 1
           /\ \A j \in 1 .. Len(q) - 1 :
                 RemoveAtIndex(q, i)[j] = IF j < i THEN q[j] ELSE q[j + 1]
<1>1. Len(q) - 1 \in Nat
    BY LenProperties
<1>2. \A j \in 1 .. Len(q) - 1 : (IF j < i THEN q[j] ELSE q[j + 1]) \in S
    BY LenProperties
<1>3. RemoveAtIndex(q, i) \in Seq(S)
    BY <1>1, <1>2 DEF RemoveAtIndex
<1>4. Len(RemoveAtIndex(q, i)) = Len(q) - 1
    BY <1>1 DEF RemoveAtIndex
<1> QED
    BY <1>3, <1>4 DEF RemoveAtIndex

\* Appending puts the new entry last and moves nothing.
LEMMA AppendEntry ==
    ASSUME NEW S, NEW q \in Seq(S), NEW e \in S
    PROVE  /\ Append(q, e) \in Seq(S)
           /\ Len(Append(q, e)) = Len(q) + 1
           /\ \A j \in 1 .. Len(q) + 1 :
                 Append(q, e)[j] = IF j <= Len(q) THEN q[j] ELSE e
    BY LenProperties

-----------------------------------------------------------------------------
(* Lists without repetitions, and which entries an operation leaves.        *)

Distinct(q) == \A i, j \in 1 .. Len(q) : q[i] = q[j] => i = j

\* Taking the head removes that entry and no other.
LEMMA TailList ==
    ASSUME NEW S, NEW q \in Seq(S), q # <<>>, Distinct(q)
    PROVE  /\ Head(q) \in S /\ InList(q, Head(q))
           /\ Tail(q) \in Seq(S) /\ Len(Tail(q)) = Len(q) - 1
           /\ Distinct(Tail(q))
           /\ \A x : InList(Tail(q), x) <=> InList(q, x) /\ x # Head(q)
<1>1. Len(q) \in Nat /\ Len(q) # 0
    BY EmptySeq, LenProperties
<1>2. Head(q) = q[1] /\ q[1] \in S
    BY <1>1, HeadTailProperties, ElementOfSeq
<1>3. /\ Tail(q) \in Seq(S) /\ Len(Tail(q)) = Len(q) - 1
      /\ \A i \in 1 .. Len(q) - 1 : Tail(q)[i] = q[i + 1]
    BY <1>1, HeadTailProperties
<1>4. Distinct(Tail(q))
    BY <1>1, <1>3 DEF Distinct
<1>5. ASSUME NEW x
      PROVE  InList(Tail(q), x) <=> InList(q, x) /\ x # Head(q)
    <2>1. ASSUME NEW i \in 1 .. Len(Tail(q)), Tail(q)[i] = x
          PROVE  InList(q, x) /\ x # Head(q)
        <3>1. i + 1 \in 1 .. Len(q) /\ q[i + 1] = x /\ 1 \in 1 .. Len(q) /\ i + 1 # 1
            BY <1>1, <1>3, <2>1
        <3> QED
            BY <1>2, <3>1 DEF InList, Distinct
    <2>2. ASSUME NEW i \in 1 .. Len(q), q[i] = x, x # Head(q)
          PROVE  InList(Tail(q), x)
        <3>1. i - 1 \in 1 .. Len(Tail(q)) /\ (i - 1) + 1 = i
            BY <1>1, <1>2, <1>3, <2>2
        <3>2. Tail(q)[i - 1] = x
            BY <1>3, <2>2, <3>1
        <3> QED
            BY <3>1, <3>2 DEF InList
    <2> QED
        BY <2>1, <2>2 DEF InList
<1> QED
    BY <1>1, <1>2, <1>3, <1>4, <1>5 DEF InList

\* Appending adds that entry and no other.
LEMMA AppendList ==
    ASSUME NEW S, NEW q \in Seq(S), NEW e \in S, Distinct(q), ~InList(q, e)
    PROVE  /\ Append(q, e) \in Seq(S)
           /\ Len(Append(q, e)) = Len(q) + 1
           /\ Distinct(Append(q, e))
           /\ \A x : InList(Append(q, e), x) <=> InList(q, x) \/ x = e
<1>1. Len(q) \in Nat
    BY LenProperties
<1>2. /\ Append(q, e) \in Seq(S)
      /\ Len(Append(q, e)) = Len(q) + 1
      /\ \A j \in 1 .. Len(q) + 1 : Append(q, e)[j] = IF j <= Len(q) THEN q[j] ELSE e
    BY AppendEntry
<1> DEFINE r == Append(q, e)
<1> HIDE DEF r
<1>3. /\ Len(r) = Len(q) + 1
      /\ \A j \in 1 .. Len(q) : r[j] = q[j]
      /\ r[Len(q) + 1] = e
    BY <1>1, <1>2 DEF r
<1>4. Distinct(r)
    <2> SUFFICES ASSUME NEW i \in 1 .. Len(r), NEW j \in 1 .. Len(r), r[i] = r[j]
                 PROVE  i = j
        BY DEF Distinct
    <2>1. CASE i <= Len(q) /\ j <= Len(q)
        <3>1. i \in 1 .. Len(q) /\ j \in 1 .. Len(q)
            BY <1>1, <1>3, <2>1
        <3> QED
            BY <1>3, <3>1 DEF Distinct
    <2>2. CASE i <= Len(q) /\ j > Len(q)
        <3>1. i \in 1 .. Len(q) /\ j = Len(q) + 1
            BY <1>1, <1>3, <2>2
        <3> QED
            BY <1>3, <3>1 DEF InList
    <2>3. CASE i > Len(q) /\ j <= Len(q)
        <3>1. j \in 1 .. Len(q) /\ i = Len(q) + 1
            BY <1>1, <1>3, <2>3
        <3> QED
            BY <1>3, <3>1 DEF InList
    <2>4. CASE i > Len(q) /\ j > Len(q)
        BY <1>1, <1>3, <2>4
    <2> QED
        BY <1>1, <1>3, <2>1, <2>2, <2>3, <2>4
<1>5. ASSUME NEW x
      PROVE  InList(r, x) <=> InList(q, x) \/ x = e
    <2>1. Len(q) + 1 \in 1 .. Len(r)
        BY <1>1, <1>3
    <2>2. ASSUME NEW i \in 1 .. Len(r), r[i] = x, x # e
          PROVE  InList(q, x)
        <3>1. i \in 1 .. Len(q)
            BY <1>1, <1>3, <2>2
        <3> QED
            BY <1>3, <2>2, <3>1 DEF InList
    <2>3. ASSUME NEW i \in 1 .. Len(q), q[i] = x
          PROVE  InList(r, x)
        <3>1. i \in 1 .. Len(r)
            BY <1>1, <1>3
        <3> QED
            BY <1>3, <2>3, <3>1 DEF InList
    <2> QED
        BY <1>3, <2>1, <2>2, <2>3 DEF InList
<1> QED
    BY <1>2, <1>4, <1>5 DEF r

\* Unlinking an entry removes it and no other.
LEMMA UnlinkList ==
    ASSUME NEW S, NEW q \in Seq(S), NEW b, Distinct(q)
    PROVE  /\ Unlink(q, b) \in Seq(S)
           /\ Distinct(Unlink(q, b))
           /\ \A x : InList(Unlink(q, b), x) <=> InList(q, x) /\ x # b
<1>1. CASE ~InList(q, b)
    BY <1>1 DEF Unlink, InList
<1>2. CASE InList(q, b)
    <2>1. PICK k \in 1 .. Len(q) : k = (CHOOSE i \in 1 .. Len(q) : q[i] = b) /\ q[k] = b
        BY <1>2 DEF InList
    <2> DEFINE r == RemoveAtIndex(q, k)
    <2>2. Unlink(q, b) = r
        BY <1>2, <2>1 DEF Unlink
    <2>3. Len(q) \in Nat
        BY LenProperties
    <2>4. /\ r \in Seq(S) /\ Len(r) = Len(q) - 1
          /\ \A j \in 1 .. Len(r) : r[j] = IF j < k THEN q[j] ELSE q[j + 1]
        BY RemoveAtIndexProperties
    <2> HIDE DEF r
    <2> DEFINE old(j) == IF j < k THEN j ELSE j + 1
    <2>5. \A j \in 1 .. Len(r) : old(j) \in 1 .. Len(q) /\ old(j) # k /\ r[j] = q[old(j)]
        BY <2>3, <2>4
    <2>6. \A i, j \in 1 .. Len(r) : old(i) = old(j) => i = j
        BY <2>3, <2>4
    <2>7. \A i \in 1 .. Len(q) : i # k => \E j \in 1 .. Len(r) : old(j) = i
        <3> SUFFICES ASSUME NEW i \in 1 .. Len(q), i # k
                     PROVE  \E j \in 1 .. Len(r) : old(j) = i
            OBVIOUS
        <3>1. CASE i < k
            <4>1. i \in 1 .. Len(r) /\ old(i) = i
                BY <2>3, <2>4, <3>1
            <4> QED
                BY <4>1
        <3>2. CASE i > k
            <4>1. i - 1 \in 1 .. Len(r) /\ old(i - 1) = i
                BY <2>3, <2>4, <3>2
            <4> QED
                BY <4>1
        <3> QED
            BY <3>1, <3>2
    <2> HIDE DEF old
    <2>8. Distinct(r)
        BY <2>5, <2>6 DEF Distinct
    <2>9. ASSUME NEW x
          PROVE  InList(r, x) <=> InList(q, x) /\ x # b
        <3>1. ASSUME NEW j \in 1 .. Len(r), r[j] = x
              PROVE  InList(q, x) /\ x # b
            <4>1. old(j) \in 1 .. Len(q) /\ old(j) # k /\ q[old(j)] = x
                BY <2>5, <3>1
            <4>2. x # b
                BY <2>1, <4>1 DEF Distinct
            <4> QED
                BY <4>1, <4>2 DEF InList
        <3>2. ASSUME NEW i \in 1 .. Len(q), q[i] = x, x # b
              PROVE  InList(r, x)
            <4>1. i # k
                BY <2>1, <3>2
            <4>2. PICK j \in 1 .. Len(r) : old(j) = i
                BY <2>7, <4>1
            <4> QED
                BY <2>5, <3>2, <4>2 DEF InList
        <3> QED
            BY <3>1, <3>2 DEF InList
    <2> QED
        BY <2>2, <2>4, <2>8, <2>9
<1> QED
    BY <1>1, <1>2
=============================================================================
