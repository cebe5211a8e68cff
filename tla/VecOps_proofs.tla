---------------------------- MODULE VecOps_proofs ----------------------------
(***************************************************************************)
(* What push and retain do to the occurrences of an element, for vectors   *)
(* of any length.  The induction over positions goes through finite sets:  *)
(* the library's induction theorems take a predicate as a parameter.       *)
(***************************************************************************)
EXTENDS VecOps, FiniteSetTheorems, TLAPS

(* A set that holds 0 and is closed under successor holds every natural.   *)
(* If b were missing, the intervals 0 .. n that end in a missing number    *)
(* would have a smallest one, and its predecessor would be missing too.    *)
LEMMA NatSetInduction ==
  ASSUME NEW S, 0 \in S, \A n \in Nat : n \in S => n + 1 \in S
  PROVE  \A n \in Nat : n \in S
<1> SUFFICES ASSUME NEW b \in Nat, b \notin S PROVE FALSE
  OBVIOUS
<1> DEFINE B == {n \in Nat : n \notin S}
           T == {0 .. n : n \in B}
<1>1. T \subseteq FiniteSubsetsOf(Nat)
  <2> SUFFICES ASSUME NEW n \in B PROVE 0 .. n \in FiniteSubsetsOf(Nat)
    OBVIOUS
  <2>1. IsFiniteSet(0 .. n) BY FS_Interval
  <2> QED BY <2>1 DEF FiniteSubsetsOf
<1>2. T # {} OBVIOUS
<1>3. PICK x \in T : \A y \in T : <<y, x>> \notin StrictSubsetOrdering(Nat)
  <2> HIDE DEF T
  <2> QED BY <1>1, <1>2, WFMin, FS_StrictSubsetOrderingWellFounded
<1>4. PICK k \in B : x = 0 .. k OBVIOUS
<1>5. k # 0 /\ k - 1 \in Nat /\ k - 1 \notin S
  <2>1. k # 0 OBVIOUS
  <2>2. k - 1 \in Nat BY <2>1
  <2>3. k - 1 \in S => (k - 1) + 1 \in S BY <2>2
  <2> QED BY <2>1, <2>2, <2>3
<1>6. 0 .. (k - 1) \in T BY <1>5
<1>7. <<0 .. (k - 1), x>> \in StrictSubsetOrdering(Nat)
  BY <1>4, <1>5 DEF StrictSubsetOrdering
<1> QED BY <1>3, <1>6, <1>7

(* The positions of an element form a finite set of naturals.              *)
LEMMA PositionsFinite ==
  ASSUME NEW S, NEW v \in Seq(S), NEW x
  PROVE  IsFiniteSet(Positions(v, x)) /\ Occurrences(v, x) \in Nat
<1>1. IsFiniteSet(1 .. Len(v)) BY FS_Interval
<1>2. Positions(v, x) \subseteq 1 .. Len(v) BY DEF Positions
<1>3. IsFiniteSet(Positions(v, x)) BY <1>1, <1>2, FS_Subset
<1> QED BY <1>3, FS_CardinalityType DEF Occurrences

(* An element occurs in a vector exactly when it is one of its elements.   *)
LEMMA OccursIff ==
  ASSUME NEW S, NEW v \in Seq(S), NEW x
  PROVE  Occurrences(v, x) = 0 <=> \A i \in 1 .. Len(v) : v[i] # x
<1>1. Occurrences(v, x) = 0 <=> Positions(v, x) = {}
  BY PositionsFinite, FS_EmptySet DEF Occurrences
<1> QED BY <1>1 DEF Positions

(* push adds one occurrence of the element pushed and of no other.         *)
LEMMA OccurrencesAppend ==
  ASSUME NEW S, NEW v \in Seq(S), NEW e \in S, NEW x
  PROVE  Occurrences(Append(v, e), x) = Occurrences(v, x) + (IF x = e THEN 1 ELSE 0)
<1> DEFINE w == Append(v, e)
           n == Len(v) + 1
<1>1. /\ Len(w) = n
      /\ w[n] = e
      /\ \A i \in 1 .. Len(v) : w[i] = v[i]
  OBVIOUS
<1>2. IsFiniteSet(Positions(v, x)) /\ n \notin Positions(v, x)
  <2>1. n \notin Positions(v, x) BY DEF Positions
  <2> QED BY <2>1, PositionsFinite
<1>3. CASE x = e
  <2>1. Positions(w, x) = Positions(v, x) \cup {n} BY <1>1, <1>3 DEF Positions
  <2> QED BY <2>1, <1>2, <1>3, FS_AddElement DEF Occurrences
<1>4. CASE x # e
  <2>1. Positions(w, x) = Positions(v, x) BY <1>1, <1>4 DEF Positions
  <2> QED BY <2>1, <1>4, PositionsFinite DEF Occurrences
<1> QED BY <1>3, <1>4

(* The recursive function of retain exists, and its values unfold.         *)
LEMMA RetainAllUnfolds ==
  ASSUME NEW S, NEW v \in Seq(S), NEW K
  PROVE  \E keep : /\ RetainAll(v, K) = keep[Len(v)]
                   /\ keep[0] = << >>
                   /\ \A k \in 1 .. Len(v) :
                        keep[k] = IF v[k] \in K THEN Append(keep[k - 1], v[k]) ELSE keep[k - 1]
<1> DEFINE n == Len(v)
           Kept(f, i) == IF i = 0 THEN << >>
                         ELSE IF v[i] \in K THEN Append(f[i - 1], v[i]) ELSE f[i - 1]
           IsKeep(f, k) == f = [i \in 0 .. k |-> Kept(f, i)]
           keep == CHOOSE f : IsKeep(f, n)
<1>1. RetainAll(v, K) = keep[n]
  BY Zenon DEF RetainAll
<1>2. \E f : IsKeep(f, n)
  <2> DEFINE Good == {k \in Nat : k <= n => \E f : IsKeep(f, k)}
  <2>1. 0 \in Good
    <3>1. IsKeep([i \in 0 .. 0 |-> << >>], 0) OBVIOUS
    <3> QED BY <3>1
  <2>2. \A k \in Nat : k \in Good => k + 1 \in Good
    <3> HIDE DEF IsKeep
    <3> SUFFICES ASSUME NEW k \in Nat, k + 1 <= n, NEW f, IsKeep(f, k)
                 PROVE  \E h : IsKeep(h, k + 1)
      OBVIOUS
    <3> USE DEF IsKeep
    <3>1. IsKeep(f, k) OBVIOUS
    <3> DEFINE g == [i \in 0 .. k + 1 |-> IF i = k + 1 THEN Kept(f, i) ELSE f[i]]
    <3>2. ASSUME NEW i \in 0 .. k + 1 PROVE g[i] = Kept(g, i)
      <4>1. CASE i = 0 BY <3>1, <4>1
      <4>2. CASE i # 0
        <5>1. i - 1 \in 0 .. k BY <4>2
        <5>2. g[i - 1] = f[i - 1] BY <5>1
        <5>3. g[i] = Kept(f, i)
          <6>1. CASE i = k + 1 BY <6>1
          <6>2. CASE i # k + 1
            <7>1. i \in 0 .. k BY <6>2
            <7>2. f[i] = Kept(f, i)
              <8> HIDE DEF Kept
              <8> QED BY <3>1, <7>1
            <7> QED BY <7>1, <7>2, <6>2
          <6> QED BY <6>1, <6>2
        <5> QED BY <5>2, <5>3, <4>2
      <4> QED BY <4>1, <4>2
    <3>3. IsKeep(g, k + 1)
      <4> HIDE DEF Kept
      <4> QED BY <3>2
    <3> QED BY <3>3
  <2>3. n \in Nat OBVIOUS
  <2> HIDE DEF Good
  <2>4. n \in Good BY <2>1, <2>2, <2>3, NatSetInduction
  <2> QED BY <2>4 DEF Good
<1>3. IsKeep(keep, n)
  <2> HIDE DEF IsKeep
  <2> QED BY <1>2
<1>4. \A i \in 0 .. n : keep[i] = Kept(keep, i)
  <2> HIDE DEF keep, Kept
  <2> QED BY <1>3
<1> HIDE DEF keep
<1>5. keep[0] = << >>
  BY <1>4
<1>6. \A k \in 1 .. n : keep[k] = IF v[k] \in K THEN Append(keep[k - 1], v[k]) ELSE keep[k - 1]
  BY <1>4
<1> QED BY <1>1, <1>5, <1>6

(* retain keeps every occurrence of what it is to keep and no other.       *)
LEMMA RetainAllOccurrences ==
  ASSUME NEW S, NEW v \in Seq(S), NEW K
  PROVE  /\ RetainAll(v, K) \in Seq(S)
         /\ \A x : Occurrences(RetainAll(v, K), x) = IF x \in K THEN Occurrences(v, x) ELSE 0
<1> DEFINE n == Len(v)
<1>4. PICK keep : /\ RetainAll(v, K) = keep[n]
                  /\ keep[0] = << >>
                  /\ \A k \in 1 .. n :
                       keep[k] = IF v[k] \in K THEN Append(keep[k - 1], v[k]) ELSE keep[k - 1]
  BY RetainAllUnfolds
<1> DEFINE Kth(k) == SubSeq(v, 1, k)
           Count(k, x) == IF x \in K THEN Occurrences(Kth(k), x) ELSE 0
           Right == {k \in Nat : k <= n => /\ keep[k] \in Seq(S)
                                           /\ \A x : Occurrences(keep[k], x) = Count(k, x)}
<1>5. 0 \in Right
  <2>1. keep[0] = << >> BY <1>4
  <2>2. Kth(0) = << >> OBVIOUS
  <2>3. << >> \in Seq(S) /\ Len(<< >>) = 0 OBVIOUS
  <2> HIDE DEF Kth
  <2>4. ASSUME NEW x PROVE Occurrences(<< >>, x) = 0
    <3>1. \A i \in 1 .. 0 : << >>[i] # x OBVIOUS
    <3> QED BY <2>3, <3>1, OccursIff
  <2>5. \A x : Count(0, x) = 0 BY <2>2, <2>4
  <2> HIDE DEF Count
  <2> QED BY <2>1, <2>3, <2>4, <2>5
<1>6. ASSUME NEW k \in Nat, k \in Right PROVE k + 1 \in Right
  <2> SUFFICES ASSUME k + 1 <= n
               PROVE  /\ keep[k + 1] \in Seq(S)
                      /\ \A x : Occurrences(keep[k + 1], x) = Count(k + 1, x)
    OBVIOUS
  <2>1. keep[k + 1] = IF v[k + 1] \in K THEN Append(keep[k], v[k + 1]) ELSE keep[k]
    BY <1>4
  <2>2. keep[k] \in Seq(S) /\ \A x : Occurrences(keep[k], x) = Count(k, x)
    BY <1>6
  <2>3. /\ v[k + 1] \in S
        /\ Kth(k) \in Seq(S)
        /\ Kth(k + 1) = Append(Kth(k), v[k + 1])
    OBVIOUS
  <2>4. \A x : Occurrences(Kth(k + 1), x) = Occurrences(Kth(k), x) + (IF x = v[k + 1] THEN 1 ELSE 0)
    <3> HIDE DEF Kth
    <3> TAKE x
    <3>1. Occurrences(Append(Kth(k), v[k + 1]), x)
            = Occurrences(Kth(k), x) + (IF x = v[k + 1] THEN 1 ELSE 0)
      BY <2>3, OccurrencesAppend
    <3> QED BY <2>3, <3>1
  <2>5. \A x : Occurrences(Kth(k), x) \in Nat
    <3> HIDE DEF Kth
    <3> QED BY <2>3, PositionsFinite
  <2>6. \A x : Occurrences(Append(keep[k], v[k + 1]), x)
                 = Occurrences(keep[k], x) + (IF x = v[k + 1] THEN 1 ELSE 0)
    BY <2>2, <2>3, OccurrencesAppend
  <2> HIDE DEF Kth
  <2>7. CASE v[k + 1] \notin K BY <2>1, <2>2, <2>4, <2>5, <2>7
  <2>8. CASE v[k + 1] \in K
    <3>1. keep[k + 1] = Append(keep[k], v[k + 1]) BY <2>1, <2>8
    <3>2. keep[k + 1] \in Seq(S) BY <3>1, <2>2, <2>3
    <3>3. \A x : Occurrences(keep[k + 1], x) = Count(k + 1, x)
      BY <3>1, <2>2, <2>4, <2>5, <2>6, <2>8
    <3> QED BY <3>2, <3>3
  <2> QED BY <2>7, <2>8
<1>7. n \in Right
  <2>1. n \in Nat OBVIOUS
  <2> HIDE DEF Right
  <2>2. \A k \in Nat : k \in Right => k + 1 \in Right BY <1>6
  <2> QED BY <2>1, <2>2, <1>5, NatSetInduction
<1>8. Kth(n) = v OBVIOUS
<1>9. keep[n] \in Seq(S) /\ \A x : Occurrences(keep[n], x) = Count(n, x)
  <2> HIDE DEF Count
  <2> QED BY <1>7
<1> QED
  <2> HIDE DEF Kth
  <2> QED BY <1>4, <1>8, <1>9

(* What retain leaves is a subsequence: the element at every position of   *)
(* the result stands at a position of the vector, in the same order.       *)
LEMMA RetainAllEmbeds ==
  ASSUME NEW S, NEW v \in Seq(S), NEW K
  PROVE  /\ RetainAll(v, K) \in Seq(S) /\ Len(RetainAll(v, K)) <= Len(v)
         /\ \E at \in [1 .. Len(RetainAll(v, K)) -> 1 .. Len(v)] :
              /\ \A i \in 1 .. Len(RetainAll(v, K)) : RetainAll(v, K)[i] = v[at[i]]
              /\ \A i, j \in 1 .. Len(RetainAll(v, K)) : i < j => at[i] < at[j]
<1> DEFINE n == Len(v)
<1>1. PICK keep : /\ RetainAll(v, K) = keep[n]
                  /\ keep[0] = << >>
                  /\ \A k \in 1 .. n :
                       keep[k] = IF v[k] \in K THEN Append(keep[k - 1], v[k]) ELSE keep[k - 1]
  BY RetainAllUnfolds
<1> DEFINE Embeds(w, at, k) ==
             /\ w \in Seq(S) /\ Len(w) <= k
             /\ at \in [1 .. Len(w) -> 1 .. k]
             /\ \A i \in 1 .. Len(w) : w[i] = v[at[i]]
             /\ \A i, j \in 1 .. Len(w) : i < j => at[i] < at[j]
           Right == {k \in Nat : k <= n => \E at : Embeds(keep[k], at, k)}
<1>2. 0 \in Right
  <2>1. Embeds(<< >>, << >>, 0)
    OBVIOUS
  <2> HIDE DEF Embeds
  <2>2. \E at : Embeds(keep[0], at, 0)
    BY <1>1, <2>1
  <2> QED BY <2>2
<1>3. ASSUME NEW k \in Nat, k \in Right PROVE k + 1 \in Right
  <2> SUFFICES ASSUME k + 1 <= n PROVE \E at : Embeds(keep[k + 1], at, k + 1)
    OBVIOUS
  <2>1. PICK at : Embeds(keep[k], at, k)
    BY <1>3
  <2> DEFINE w == keep[k]
             m == Len(w)
  <2>2. v[k + 1] \in S /\ m \in Nat
    BY <2>1
  <2>3. keep[k + 1] = IF v[k + 1] \in K THEN Append(w, v[k + 1]) ELSE w
    BY <1>1
  <2>4. CASE v[k + 1] \notin K
    <3>1. Embeds(w, at, k + 1)
      BY <2>1
    <3> QED BY <2>3, <2>4, <3>1
  <2>5. CASE v[k + 1] \in K
    <3> DEFINE z == Append(w, v[k + 1])
               new == [i \in 1 .. m + 1 |-> IF i = m + 1 THEN k + 1 ELSE at[i]]
    <3>1. /\ z \in Seq(S) /\ Len(z) = m + 1 /\ z[m + 1] = v[k + 1]
          /\ \A i \in 1 .. m : z[i] = w[i]
      BY <2>1, <2>2
    <3> HIDE DEF z
    <3>2. m \in Nat /\ at \in [1 .. m -> 1 .. k]
      BY <2>1, <2>2
    <3> HIDE DEF w, m
    <3>3. /\ new \in [1 .. m + 1 -> 1 .. k + 1] /\ new[m + 1] = k + 1
          /\ \A i \in 1 .. m : new[i] = at[i] /\ new[i] <= k
      BY <3>2
    <3> HIDE DEF new
    <3>4. \A i \in 1 .. m + 1 : i = m + 1 \/ i \in 1 .. m
      BY <3>2
    <3>5. \A i \in 1 .. m + 1 : z[i] = v[new[i]]
      BY <2>1, <3>1, <3>3, <3>4 DEF w, m
    <3>6. \A i, j \in 1 .. m + 1 : i < j => new[i] < new[j]
      BY <2>1, <3>2, <3>3, <3>4 DEF w, m
    <3>7. m <= k
      BY <2>1 DEF w, m
    <3>8. Embeds(z, new, k + 1)
      BY <3>1, <3>2, <3>3, <3>5, <3>6, <3>7
    <3> QED BY <2>3, <2>5, <3>8 DEF z
  <2> QED BY <2>4, <2>5
<1>4. n \in Right
  <2>1. n \in Nat
    OBVIOUS
  <2> HIDE DEF Right
  <2>2. \A k \in Nat : k \in Right => k + 1 \in Right
    BY <1>3
  <2> QED BY <1>2, <2>1, <2>2, NatSetInduction
<1>5. PICK at : Embeds(RetainAll(v, K), at, n)
  BY <1>1, <1>4
<1> QED BY <1>5

(* retain(|y| y != e) removes every occurrence of e and keeps the others.  *)
LEMMA RetainOccurrences ==
  ASSUME NEW S, NEW v \in Seq(S), NEW e
  PROVE  /\ Retain(v, e) \in Seq(S)
         /\ \A x : Occurrences(Retain(v, e), x) = IF x = e THEN 0 ELSE Occurrences(v, x)
<1> DEFINE K == {v[i] : i \in 1 .. Len(v)} \ {e}
<1>1. ASSUME NEW x, x # e, x \notin K PROVE Occurrences(v, x) = 0
  <2>1. \A i \in 1 .. Len(v) : v[i] # x
    BY <1>1
  <2> QED BY <2>1, OccursIff
<1>2. e \notin K
  OBVIOUS
<1> HIDE DEF K
<1>3. Retain(v, e) = RetainAll(v, K)
  BY DEF Retain, K
<1> QED BY <1>1, <1>2, <1>3, RetainAllOccurrences
==============================================================================
