----------------------------- MODULE Layout_proofs -----------------------------
(***************************************************************************)
(* No operation on the panes makes a session a tab of two panes, but for   *)
(* the two ways that TabsStayApart names, and a change of the layout keeps *)
(* the stacks of tabs, for any number of sessions, grids of any size and   *)
(* trees of any number of leaves.  The module goes through the operations  *)
(* of PaneLayout from the bottom up, with one lemma on what each makes of  *)
(* a tidy workspace.                                                       *)
(***************************************************************************)
EXTENDS PaneLayout, VecOps_proofs, SequenceTheorems

(***************************************************************************)
(* Vectors: what is in them, what retain, push and flatten leave in them.  *)
(***************************************************************************)

(* An element is among those of a vector exactly when it occurs in it.     *)
LEMMA InRange ==
  ASSUME NEW S, NEW v \in Seq(S)
  PROVE  /\ Range(v) = {v[i] : i \in 1 .. Len(v)}
         /\ Range(v) \subseteq S
         /\ v \in Seq(Range(v))
         /\ \A x : x \in Range(v) <=> Occurrences(v, x) # 0
         /\ DOMAIN v = 1 .. Len(v) /\ Len(v) \in Nat
         /\ v = <<>> <=> Range(v) = {}
<1>1. Range(v) = {v[i] : i \in 1 .. Len(v)} /\ v \in Seq(Range(v)) /\ Range(v) \subseteq S
  BY RangeEquality, SeqOfRange, RangeOfSeq
<1>2. \A x : x \in Range(v) <=> Occurrences(v, x) # 0
  BY <1>1, OccursIff
<1>3. v = <<>> <=> Range(v) = {}
  <2>1. v # <<>> => 1 \in 1 .. Len(v)
    OBVIOUS
  <2>2. Len(<<>>) = 0
    OBVIOUS
  <2> QED BY <1>1, <2>1, <2>2
<1>4. DOMAIN v = 1 .. Len(v) /\ Len(v) \in Nat
  OBVIOUS
<1> QED BY <1>1, <1>2, <1>3, <1>4

(* A vector is empty when it has no element.                               *)
LEMMA EmptyRange ==
  ASSUME NEW S, NEW v \in Seq(S)
  PROVE  v = <<>> <=> Range(v) = {}
BY Zenon, InRange

(* A vector of one element.                                                *)
LEMMA SingletonRange ==
  ASSUME NEW e
  PROVE  Range(<<e>>) = {e} /\ IsInjective(<<e>>)
<1>1. DOMAIN <<e>> = {1} /\ <<e>>[1] = e
  OBVIOUS
<1> QED BY <1>1 DEF Range, IsInjective

(* A function on 1 .. n is a vector of n elements.                         *)
LEMMA FunctionIsSeq ==
  ASSUME NEW S, NEW n \in Nat, NEW f \in [1 .. n -> S]
  PROVE  f \in Seq(S) /\ Len(f) = n /\ DOMAIN f = 1 .. n
OBVIOUS

(* What retain leaves are the elements it is to keep.                      *)
LEMMA RetainAllRange ==
  ASSUME NEW S, NEW v \in Seq(S), NEW K
  PROVE  /\ RetainAll(v, K) \in Seq(S)
         /\ Range(RetainAll(v, K)) = Range(v) \cap K
<1>1. RetainAll(v, K) \in Seq(S)
  BY RetainAllOccurrences
<1>2. ASSUME NEW x PROVE x \in Range(RetainAll(v, K)) <=> x \in Range(v) \cap K
  <2>1. x \in Range(RetainAll(v, K)) <=> Occurrences(RetainAll(v, K), x) # 0
    BY <1>1, InRange
  <2>2. x \in Range(v) <=> Occurrences(v, x) # 0
    BY InRange
  <2> QED BY <2>1, <2>2, RetainAllOccurrences
<1> QED BY <1>1, <1>2

(* retain leaves a vector without repetition without repetition.           *)
LEMMA RetainAllInjective ==
  ASSUME NEW S, NEW v \in Seq(S), NEW K, IsInjective(v)
  PROVE  IsInjective(RetainAll(v, K))
<1> DEFINE u == RetainAll(v, K)
<1>1. u \in Seq(S) /\ Len(u) <= Len(v)
  BY RetainAllEmbeds
<1>2. PICK at \in [1 .. Len(u) -> 1 .. Len(v)] :
         /\ \A i \in 1 .. Len(u) : u[i] = v[at[i]]
         /\ \A i, j \in 1 .. Len(u) : i < j => at[i] < at[j]
  BY RetainAllEmbeds
<1> HIDE DEF u
<1>3. SUFFICES ASSUME NEW i \in 1 .. Len(u), NEW j \in 1 .. Len(u), u[i] = u[j] PROVE i = j
  BY <1>1 DEF IsInjective, u
<1>4. at[i] = at[j]
  BY <1>2, <1>3 DEF IsInjective
<1>5. i \in Nat /\ j \in Nat /\ ~ i < j /\ ~ j < i
  <2>1. at[i] \in Nat
    BY <1>2
  <2> QED BY <1>1, <1>2, <1>4, <2>1
<1> QED BY <1>5

(* Nothing is removed from a vector of which everything is kept.           *)
LEMMA RetainAllWhole ==
  ASSUME NEW S, NEW v \in Seq(S), NEW K, Range(v) \subseteq K
  PROVE  RetainAll(v, K) = v
<1> DEFINE n == Len(v)
<1>1. PICK keep : /\ RetainAll(v, K) = keep[n]
                  /\ keep[0] = << >>
                  /\ \A k \in 1 .. n :
                       keep[k] = IF v[k] \in K THEN Append(keep[k - 1], v[k]) ELSE keep[k - 1]
  BY RetainAllUnfolds
<1> DEFINE Right == {k \in Nat : k <= n => keep[k] = SubSeq(v, 1, k)}
<1>2. 0 \in Right
  <2>1. SubSeq(v, 1, 0) = << >>
    BY SubSeqEmpty
  <2> QED BY <1>1, <2>1
<1>3. ASSUME NEW k \in Nat, k \in Right PROVE k + 1 \in Right
  <2> SUFFICES ASSUME k + 1 <= n PROVE keep[k + 1] = SubSeq(v, 1, k + 1)
    OBVIOUS
  <2>1. k + 1 \in 1 .. n /\ v[k + 1] \in K
    BY InRange
  <2>2. keep[k + 1] = Append(SubSeq(v, 1, k), v[k + 1])
    <3>1. keep[k + 1] = Append(keep[(k + 1) - 1], v[k + 1])
      BY <1>1, <2>1
    <3>2. (k + 1) - 1 = k /\ keep[k] = SubSeq(v, 1, k)
      BY <1>3
    <3> QED BY <3>1, <3>2
  <2>3. SubSeq(v, 1, k + 1) = Append(SubSeq(v, 1, k), v[k + 1])
    OBVIOUS
  <2> QED BY <2>2, <2>3
<1>4. n \in Right
  <2>1. n \in Nat
    OBVIOUS
  <2> HIDE DEF Right
  <2> QED BY <1>2, <1>3, <2>1, NatSetInduction
<1>5. SubSeq(v, 1, n) = v
  BY SubSeqFull
<1> QED BY <1>1, <1>4, <1>5

(* A vector without repetition of one element only.                        *)
LEMMA OneElement ==
  ASSUME NEW S, NEW v \in Seq(S), NEW x, IsInjective(v), Range(v) = {x}
  PROVE  v = <<x>>
<1>1. \A i \in 1 .. Len(v) : v[i] = x
  BY InRange
<1>2. Len(v) # 0
  <2>1. Range(v) # {}
    OBVIOUS
  <2>2. v # <<>>
    BY Zenon, <2>1, InRange
  <2> QED BY <2>2
<1>3. Len(v) = 1
  <2>1. 1 \in DOMAIN v
    BY <1>2, InRange
  <2>2. 2 \notin DOMAIN v
    BY <1>1, <2>1, InRange DEF IsInjective
  <2>3. 1 <= Len(v) /\ ~ 2 <= Len(v)
    BY <2>1, <2>2, InRange
  <2>4. \A n \in Nat : 1 <= n /\ ~ 2 <= n => n = 1
    OBVIOUS
  <2>5. Len(v) \in Nat
    BY InRange
  <2> QED BY <2>3, <2>4, <2>5, Zenon
<1> QED BY <1>1, <1>3

(* retain of everything but one element.                                   *)
LEMMA RetainFacts ==
  ASSUME NEW S, NEW v \in Seq(S), NEW e
  PROVE  /\ Retain(v, e) \in Seq(S)
         /\ Range(Retain(v, e)) = Range(v) \ {e}
         /\ IsInjective(v) => IsInjective(Retain(v, e))
<1>1. Retain(v, e) = RetainAll(v, Range(v) \ {e})
  <2>1. Range(v) = {v[i] : i \in 1 .. Len(v)}
    BY InRange
  <2> QED BY <2>1 DEF Retain
<1> QED BY <1>1, RetainAllRange, RetainAllInjective

(* A vector without repetition and more than one element keeps one when    *)
(* another is removed.                                                     *)
LEMMA SomethingIsLeft ==
  ASSUME NEW S, NEW v \in Seq(S), NEW e, IsInjective(v), Len(v) > 1
  PROVE  Range(v) \ {e} # {}
<1>1. 1 \in DOMAIN v /\ 2 \in DOMAIN v /\ v[1] # v[2]
  BY InRange DEF IsInjective
<1>2. v[1] \in Range(v) /\ v[2] \in Range(v)
  BY <1>1 DEF Range
<1> QED BY <1>1, <1>2

(* Concatenation.                                                          *)
LEMMA ConcatInjective ==
  ASSUME NEW S, NEW u \in Seq(S), NEW v \in Seq(S),
         IsInjective(u), IsInjective(v), Range(u) \cap Range(v) = {}
  PROVE  IsInjective(u \o v)
<1> DEFINE w == u \o v
<1>1. /\ w \in Seq(S) /\ Len(w) = Len(u) + Len(v)
      /\ \A i \in 1 .. Len(u) + Len(v) : w[i] = IF i <= Len(u) THEN u[i] ELSE v[i - Len(u)]
  BY ConcatProperties
<1>2. /\ DOMAIN w = 1 .. Len(u) + Len(v)
      /\ DOMAIN u = 1 .. Len(u) /\ Len(u) \in Nat /\ DOMAIN v = 1 .. Len(v) /\ Len(v) \in Nat
  BY <1>1, InRange
<1> HIDE DEF w
<1>3. SUFFICES ASSUME NEW i \in 1 .. Len(u) + Len(v), NEW j \in 1 .. Len(u) + Len(v), w[i] = w[j]
               PROVE  i = j
  BY <1>2 DEF IsInjective, w
<1>4. \A k \in 1 .. Len(u) + Len(v) :
        IF k <= Len(u) THEN k \in DOMAIN u /\ w[k] = u[k] /\ w[k] \in Range(u)
        ELSE k - Len(u) \in DOMAIN v /\ w[k] = v[k - Len(u)] /\ w[k] \in Range(v)
  <2> SUFFICES ASSUME NEW k \in 1 .. Len(u) + Len(v)
               PROVE  IF k <= Len(u) THEN k \in DOMAIN u /\ w[k] = u[k] /\ w[k] \in Range(u)
                      ELSE k - Len(u) \in DOMAIN v /\ w[k] = v[k - Len(u)] /\ w[k] \in Range(v)
    OBVIOUS
  <2>1. CASE k <= Len(u)
    <3>1. k \in DOMAIN u /\ w[k] = u[k]
      BY <1>1, <1>2, <2>1
    <3> QED BY <2>1, <3>1 DEF Range
  <2>2. CASE ~ k <= Len(u)
    <3>1. k - Len(u) \in DOMAIN v /\ w[k] = v[k - Len(u)]
      BY <1>1, <1>2, <2>2
    <3> QED BY <2>2, <3>1 DEF Range
  <2> QED BY <2>1, <2>2
<1>5. CASE i <= Len(u) /\ j <= Len(u)
  BY <1>3, <1>4, <1>5 DEF IsInjective
<1>6. CASE ~ i <= Len(u) /\ ~ j <= Len(u)
  <2>1. i - Len(u) = j - Len(u)
    BY <1>3, <1>4, <1>6 DEF IsInjective
  <2> QED BY <2>1, <1>2
<1>7. CASE i <= Len(u) <=> ~ j <= Len(u)
  BY <1>3, <1>4, <1>7
<1> QED BY <1>5, <1>6, <1>7

(* A set of naturals that is not empty has a least element.                *)
LEMMA LeastOne ==
  ASSUME NEW B, B \subseteq Nat, B # {}
  PROVE  \E j \in B : \A k \in B : j <= k
<1> SUFFICES ASSUME \A j \in B : \E k \in B : ~ j <= k PROVE FALSE
  OBVIOUS
<1> DEFINE None == {n \in Nat : \A k \in 0 .. n : k \notin B}
<1>1. 0 \in None
  <2>1. 0 \notin B
    OBVIOUS
  <2> QED BY <2>1
<1>2. ASSUME NEW n \in Nat, n \in None PROVE n + 1 \in None
  <2>1. n + 1 \notin B
    BY <1>2
  <2> QED BY <1>2, <2>1
<1>3. \A n \in Nat : n \in None
  <2> HIDE DEF None
  <2> QED BY <1>1, <1>2, NatSetInduction
<1>4. PICK b \in B : TRUE
  OBVIOUS
<1> QED BY <1>3, <1>4

(* A recursive function over 0 .. n whose values stay in T exists.         *)
Iterates(f, T, n, base, step) ==
  /\ f \in [0 .. n -> T] /\ f[0] = base
  /\ \A i \in 1 .. n : f[i] = step[i][f[i - 1]]

(* It is built up from 0: the induction is over the set of the lengths it  *)
(* can be built for.                                                       *)
LEMMA Iteration ==
  ASSUME NEW T, NEW n \in Nat, NEW base \in T, NEW step \in [1 .. n -> [T -> T]]
  PROVE  \E f : Iterates(f, T, n, base, step)
<1> USE DEF Iterates
<1> DEFINE IsIt(f, k) == Iterates(f, T, k, base, step)
           Good == {k \in Nat : k <= n => \E f : IsIt(f, k)}
<1>1. 0 \in Good
  <2>1. IsIt([i \in 0 .. 0 |-> base], 0)
    OBVIOUS
  <2> QED BY <2>1
<1>2. ASSUME NEW k \in Nat, k \in Good PROVE k + 1 \in Good
  <2> SUFFICES ASSUME k + 1 <= n PROVE \E f : IsIt(f, k + 1)
    OBVIOUS
  <2>1. PICK f : IsIt(f, k)
    BY <1>2
  <2> DEFINE g == [i \in 0 .. k + 1 |-> IF i = k + 1 THEN step[k + 1][f[k]] ELSE f[i]]
  <2>2. f[k] \in T /\ step[k + 1][f[k]] \in T
    <3>1. f[k] \in T
      BY <2>1
    <3>2. k + 1 \in 1 .. n
      OBVIOUS
    <3> QED BY <3>1, <3>2
  <2>3. g \in [0 .. k + 1 -> T]
    BY <2>1, <2>2
  <2>4. g[0] = base
    BY <2>1
  <2>5. ASSUME NEW i \in 1 .. k + 1 PROVE g[i] = step[i][g[i - 1]]
    <3>1. CASE i = k + 1
      <4>1. i \in 0 .. k + 1 /\ i - 1 = k /\ k \in 0 .. k + 1 /\ k # k + 1
        BY <3>1
      <4>2. g[i] = step[k + 1][f[k]] /\ g[k] = f[k]
        BY <3>1, <4>1
      <4> QED BY <3>1, <4>1, <4>2
    <3>2. CASE i # k + 1
      <4>1. i \in 1 .. k /\ i \in 0 .. k + 1 /\ i - 1 \in 0 .. k + 1 /\ i - 1 # k + 1
        BY <3>2
      <4>2. g[i] = f[i] /\ g[i - 1] = f[i - 1]
        BY <3>2, <4>1
      <4> QED BY <2>1, <4>1, <4>2
    <3> QED BY <3>1, <3>2
  <2>6. IsIt(g, k + 1)
    BY <2>3, <2>4, <2>5
  <2> QED BY <2>6
<1>3. n \in Good
  <2> HIDE DEF Good
  <2> QED BY <1>1, <1>2, NatSetInduction
<1> QED BY <1>3

(* FlattenSeq appends one sequence after the other.                        *)
LEMMA FlattenUnfolds ==
  ASSUME NEW S, NEW qs \in Seq(Seq(S))
  PROVE  \E flat : /\ FlattenSeq(qs) = flat[Len(qs)]
                   /\ flat[0] = << >>
                   /\ \A i \in 1 .. Len(qs) : flat[i] = flat[i - 1] \o qs[i]
<1> DEFINE n == Len(qs)
           IsFlat(f) == f = [i \in 1 .. n |-> IF i = 1 THEN qs[i] ELSE f[i - 1] \o qs[i]]
           flat == CHOOSE f : IsFlat(f)
<1>1. n \in Nat /\ \A i \in 1 .. n : qs[i] \in Seq(S)
  OBVIOUS
<1>2. CASE n = 0
  <2>1. FlattenSeq(qs) = << >>
    BY <1>2 DEF FlattenSeq
  <2> DEFINE none == [i \in 0 .. 0 |-> << >>]
  <2>2. none[0] = << >> /\ \A i \in 1 .. n : FALSE
    BY <1>2
  <2> QED BY <1>2, <2>1, <2>2
<1>3. CASE n # 0
  <2>1. FlattenSeq(qs) = flat[n]
    BY <1>3, Zenon DEF FlattenSeq
  <2>2. \E f : IsFlat(f)
    <3> DEFINE step == [i \in 1 .. n |-> [s \in Seq(S) |-> s \o qs[i]]]
    <3>1. step \in [1 .. n -> [Seq(S) -> Seq(S)]]
      BY <1>1
    <3>2. \A i \in 1 .. n : \A s \in Seq(S) : step[i][s] = s \o qs[i]
      OBVIOUS
    <3>3. << >> \in Seq(S)
      OBVIOUS
    <3> HIDE DEF step, n
    <3>4. PICK f : Iterates(f, Seq(S), n, << >>, step)
      BY <1>1, <3>1, <3>3, Iteration
    <3> USE DEF Iterates
    <3> DEFINE g == [i \in 1 .. n |-> f[i]]
    <3>5. ASSUME NEW i \in 1 .. n PROVE g[i] = IF i = 1 THEN qs[i] ELSE g[i - 1] \o qs[i]
      <4>1. f[i] = f[i - 1] \o qs[i]
        <5>1. i - 1 \in 0 .. n /\ f[i - 1] \in Seq(S)
          BY <1>1, <3>4
        <5> QED BY <3>2, <3>4, <5>1
      <4>2. CASE i = 1
        <5>1. << >> \o qs[i] = qs[i]
          BY <1>1, ConcatEmptySeq
        <5>2. f[i - 1] = << >>
          BY <3>4, <4>2
        <5>3. g[i] = f[i]
          OBVIOUS
        <5> QED BY <4>1, <4>2, <5>1, <5>2, <5>3, Zenon
      <4>3. CASE i # 1
        <5>1. i - 1 \in 1 .. n
          BY <1>1, <4>3
        <5> QED BY <4>1, <4>3, <5>1
      <4> QED BY <4>2, <4>3
    <3>6. IsFlat(g)
      BY <3>5 DEF n
    <3> QED BY <3>6
  <2>3. IsFlat(flat)
    <3> HIDE DEF IsFlat
    <3> QED BY <2>2
  <2> HIDE DEF flat
  <2>4. \A i \in 1 .. n : flat[i] = IF i = 1 THEN qs[i] ELSE flat[i - 1] \o qs[i]
    BY <2>3
  <2> DEFINE all == [i \in 0 .. n |-> IF i = 0 THEN << >> ELSE flat[i]]
  <2>5. all[0] = << >> /\ all[n] = flat[n]
    BY <1>1, <1>3
  <2>6. ASSUME NEW i \in 1 .. n PROVE all[i] = all[i - 1] \o qs[i]
    <3>1. all[i] = flat[i]
      BY <1>1
    <3>2. CASE i = 1
      <4>1. << >> \o qs[i] = qs[i]
        BY <1>1, ConcatEmptySeq
      <4>2. all[i - 1] = << >>
        BY <2>5, <3>2
      <4> QED BY <2>4, <3>1, <3>2, <4>1, <4>2
    <3>3. CASE i # 1
      <4>1. i - 1 \in 1 .. n /\ all[i - 1] = flat[i - 1]
        BY <1>1, <3>3
      <4> QED BY <2>4, <3>1, <3>3, <4>1
    <3> QED BY <3>2, <3>3
  <2> HIDE DEF all
  <2> QED BY <2>1, <2>5, <2>6
<1> QED BY <1>2, <1>3

(* Its elements are those of the sequences; it repeats none if no sequence *)
(* does and no two have one in common.                                     *)
LEMMA FlattenFacts ==
  ASSUME NEW S, NEW qs \in Seq(Seq(S))
  PROVE  /\ FlattenSeq(qs) \in Seq(S)
         /\ Range(FlattenSeq(qs)) = UNION {Range(qs[i]) : i \in 1 .. Len(qs)}
         /\ /\ \A i \in 1 .. Len(qs) : IsInjective(qs[i])
            /\ \A i, j \in 1 .. Len(qs) : i # j => Range(qs[i]) \cap Range(qs[j]) = {}
            => IsInjective(FlattenSeq(qs))
<1> DEFINE n == Len(qs)
           Distinct == /\ \A i \in 1 .. n : IsInjective(qs[i])
                       /\ \A i, j \in 1 .. n : i # j => Range(qs[i]) \cap Range(qs[j]) = {}
           Upto(k) == UNION {Range(qs[i]) : i \in 1 .. k}
           Fine(s, k) == s \in Seq(S) /\ Range(s) = Upto(k) /\ (Distinct => IsInjective(s))
<1>1. n \in Nat /\ \A i \in 1 .. n : qs[i] \in Seq(S)
  OBVIOUS
<1>2. PICK flat : /\ FlattenSeq(qs) = flat[n]
                  /\ flat[0] = << >>
                  /\ \A i \in 1 .. n : flat[i] = flat[i - 1] \o qs[i]
  BY FlattenUnfolds
<1> DEFINE Right == {k \in Nat : k <= n => Fine(flat[k], k)}
<1>3. 0 \in Right
  <2>1. << >> \in Seq(S) /\ Range(<< >>) = {}
    <3>1. << >> \in Seq(S)
      OBVIOUS
    <3> QED BY <3>1, InRange
  <2>2. IsInjective(<< >>)
    BY DEF IsInjective
  <2>3. Upto(0) = {}
    OBVIOUS
  <2> HIDE DEF Upto, Distinct
  <2> QED BY <1>2, <2>1, <2>2, <2>3
<1>4. ASSUME NEW k \in Nat, k \in Right PROVE k + 1 \in Right
  <2> SUFFICES ASSUME k + 1 <= n PROVE Fine(flat[k + 1], k + 1)
    <3> HIDE DEF Fine
    <3> QED OBVIOUS
  <2> DEFINE u == flat[k]
             v == qs[k + 1]
  <2>1. k + 1 \in 1 .. n /\ flat[k + 1] = u \o v
    <3>1. k + 1 \in 1 .. n /\ (k + 1) - 1 = k
      BY <1>1
    <3> QED BY <1>2, <3>1
  <2>2. k <= n
    BY <1>1
  <2>3. Fine(u, k)
    BY <1>4, <2>2
  <2>4. v \in Seq(S)
    BY <1>1, <2>1
  <2>5. Upto(k + 1) = Upto(k) \cup Range(v)
    <3>1. 1 .. k + 1 = (1 .. k) \cup {k + 1}
      OBVIOUS
    <3> QED BY <3>1
  <2>6. Distinct => Range(u) \cap Range(v) = {}
    <3> SUFFICES ASSUME Distinct, NEW x, x \in Range(u), x \in Range(v) PROVE FALSE
      OBVIOUS
    <3>1. PICK i \in 1 .. k : x \in Range(qs[i])
      BY <2>3
    <3>2. i \in 1 .. n /\ i # k + 1
      BY <1>1
    <3> QED BY <2>1, <3>1, <3>2
  <2>7. Distinct => IsInjective(v)
    BY <2>1
  <2> HIDE DEF u, v, Upto, Distinct
  <2>8. u \o v \in Seq(S) /\ Range(u \o v) = Upto(k) \cup Range(v)
    BY <2>3, <2>4, RangeConcatenation, ConcatProperties
  <2>9. Distinct => IsInjective(u \o v)
    BY <2>3, <2>4, <2>6, <2>7, ConcatInjective
  <2> QED BY <2>1, <2>5, <2>8, <2>9
<1>5. n \in Right
  <2> HIDE DEF Right
  <2> QED BY <1>1, <1>3, <1>4, NatSetInduction
<1>6. Fine(flat[n], n)
  <2> HIDE DEF Fine
  <2> QED BY <1>1, <1>5
<1> QED BY <1>2, <1>6

(* Sequences of one element, and then empty ones.                          *)
LEMMA FlattenSingles ==
  ASSUME NEW S, NEW e \in Seq(S), NEW qs \in Seq(Seq(S)), Len(e) <= Len(qs),
         \A i \in 1 .. Len(qs) : qs[i] = IF i <= Len(e) THEN <<e[i]>> ELSE << >>
  PROVE  FlattenSeq(qs) = e
<1> DEFINE n == Len(qs)
           m == Len(e)
<1>1. n \in Nat /\ m \in Nat /\ m <= n
  OBVIOUS
<1>2. PICK flat : /\ FlattenSeq(qs) = flat[n]
                  /\ flat[0] = << >>
                  /\ \A i \in 1 .. n : flat[i] = flat[i - 1] \o qs[i]
  BY FlattenUnfolds
<1> DEFINE Right == {k \in Nat : k <= n => flat[k] = IF k <= m THEN SubSeq(e, 1, k) ELSE e}
<1>3. 0 \in Right
  <2>1. SubSeq(e, 1, 0) = << >> /\ 0 <= m
    BY <1>1, SubSeqEmpty
  <2> HIDE DEF m, n
  <2> QED BY <1>2, <2>1
<1>4. ASSUME NEW k \in Nat, k \in Right PROVE k + 1 \in Right
  <2> SUFFICES ASSUME k + 1 <= n PROVE flat[k + 1] = IF k + 1 <= m THEN SubSeq(e, 1, k + 1) ELSE e
    OBVIOUS
  <2>1. k + 1 \in 1 .. n /\ flat[k + 1] = flat[k] \o qs[k + 1]
    <3>1. k + 1 \in 1 .. n /\ (k + 1) - 1 = k
      BY <1>1
    <3> QED BY <1>2, <3>1
  <2>2. flat[k] = IF k <= m THEN SubSeq(e, 1, k) ELSE e
    <3>1. k <= n
      BY <1>1
    <3> QED BY <1>4, <3>1
  <2>3. CASE k + 1 <= m
    <3>1. qs[k + 1] = <<e[k + 1]>>
      BY <2>1, <2>3
    <3>2. 1 \in 1 .. Len(e) /\ k + 1 \in 1 .. Len(e) /\ k <= m /\ (k + 1) - 1 = k
      BY <1>1, <2>3
    <3>3. SubSeq(e, 1, k + 1) = SubSeq(e, 1, (k + 1) - 1) \o <<e[k + 1]>>
      BY <3>2, SubSeqRecursiveSecond
    <3> QED BY <2>1, <2>2, <2>3, <3>1, <3>2, <3>3
  <2>4. CASE ~ k + 1 <= m
    <3>1. qs[k + 1] = << >>
      BY <2>1, <2>4
    <3>2. flat[k] = e
      <4>1. CASE k <= m
        <5>1. k = m
          BY <1>1, <2>4, <4>1
        <5> QED BY <2>2, <4>1, <5>1, SubSeqFull
      <4>2. CASE ~ k <= m
        BY <2>2, <4>2
      <4> QED BY <4>1, <4>2
    <3>3. e \o << >> = e
      BY ConcatEmptySeq
    <3> QED BY <2>1, <2>4, <3>1, <3>2, <3>3
  <2> QED BY <2>3, <2>4
<1>5. n \in Right
  <2> HIDE DEF Right
  <2> QED BY <1>1, <1>3, <1>4, NatSetInduction
<1>6. flat[n] = IF n <= m THEN SubSeq(e, 1, n) ELSE e
  BY <1>1, <1>5
<1>7. CASE n <= m
  <2>1. n = m
    BY <1>1, <1>7
  <2> QED BY <1>2, <1>6, <1>7, <2>1, SubSeqFull
<1>8. CASE ~ n <= m
  BY <1>2, <1>6, <1>8
<1> QED BY <1>7, <1>8

(* The first occurrences: the same elements, none twice.                   *)
LEMMA OnceFacts ==
  ASSUME NEW S, NEW q \in Seq(S)
  PROVE  Once(q) \in Seq(S) /\ Range(Once(q)) = Range(q) /\ IsInjective(Once(q))
<1> DEFINE n == Len(q)
           all == [i \in DOMAIN q |-> i]
           firsts == {i \in DOMAIN q : \A j \in 1 .. i - 1 : q[j] # q[i]}
           at == RetainAll(all, firsts)
<1>1. n \in Nat /\ DOMAIN q = 1 .. n /\ all \in Seq(1 .. n) /\ Range(all) = 1 .. n
  <2>1. n \in Nat /\ DOMAIN q = 1 .. n
    BY InRange
  <2>2. all = [i \in 1 .. n |-> i]
    BY <2>1
  <2>3. all \in Seq(1 .. n) /\ Range(all) = 1 .. n
    BY <2>1, <2>2 DEF Range
  <2> QED BY <2>1, <2>3
<1>2. IsInjective(all)
  BY DEF IsInjective
<1>3. at \in Seq(1 .. n) /\ Range(at) = firsts /\ IsInjective(at)
  <2>1. at \in Seq(1 .. n) /\ Range(at) = Range(all) \cap firsts
    BY <1>1, RetainAllRange
  <2>2. IsInjective(at)
    BY <1>1, <1>2, RetainAllInjective
  <2> QED BY <1>1, <2>1, <2>2
<1>4. Once(q) = [k \in DOMAIN at |-> q[at[k]]]
  BY DEF Once
<1> HIDE DEF at
<1>5. /\ DOMAIN at = 1 .. Len(at) /\ Len(at) \in Nat
      /\ \A k \in DOMAIN at : at[k] \in firsts
      /\ \A i \in firsts : \E k \in DOMAIN at : at[k] = i
  <2>1. DOMAIN at = 1 .. Len(at) /\ Len(at) \in Nat /\ Range(at) = firsts
    BY <1>3, InRange
  <2> QED BY <2>1 DEF Range
<1>6. Once(q) \in Seq(S)
  <2>1. \A k \in DOMAIN at : q[at[k]] \in S
    BY <1>1, <1>5
  <2> QED BY <1>4, <1>5, <2>1
<1>7. Range(Once(q)) = Range(q)
  <2>1. Range(Once(q)) = {q[at[k]] : k \in DOMAIN at}
    BY <1>4 DEF Range
  <2>2. {q[at[k]] : k \in DOMAIN at} = {q[i] : i \in firsts}
    BY <1>5
  <2>3. ASSUME NEW i \in 1 .. n PROVE \E j \in firsts : q[j] = q[i]
    <3> DEFINE B == {j \in 1 .. n : q[j] = q[i]}
    <3>1. PICK j \in B : \A k \in B : j <= k
      <4>1. B \subseteq Nat /\ B # {}
        OBVIOUS
      <4> HIDE DEF B
      <4> QED BY <4>1, LeastOne
    <3>2. j \in firsts
      BY <1>1, <3>1
    <3> QED BY <3>1, <3>2
  <2>4. {q[i] : i \in firsts} = {q[i] : i \in 1 .. n}
    BY <1>1, <2>3
  <2> QED BY <2>1, <2>2, <2>4, InRange
<1>8. IsInjective(Once(q))
  <2> SUFFICES ASSUME NEW a \in DOMAIN at, NEW b \in DOMAIN at, q[at[a]] = q[at[b]] PROVE a = b
    BY <1>4 DEF IsInjective
  <2>1. at[a] \in firsts /\ at[b] \in firsts
    BY <1>5
  <2>2. at[a] = at[b]
    BY <1>1, <2>1
  <2> QED BY <1>3, <2>2 DEF IsInjective
<1> QED BY <1>6, <1>7, <1>8

(***************************************************************************)
(* The workspace, field by field, and the operators that read or assign    *)
(* one field.                                                              *)
(***************************************************************************)

(* The types of a workspace's fields.                                      *)
PaneRec == [id : Nat, at : Nat]

(* A stack, a group or one that waits, and the fields of the workspace.    *)
StackRec == [tabs : Seq(Nat), active : Nat]
PaneSeqs == Seq(PaneRec)
StackSeqs == Seq(StackRec)
IdSeqs == Seq(Nat)
Groupings == UNION {[D -> StackRec] : D \in SUBSET Nat}
Modes == {"grid", "split"}
Workspace ==
  [mode : Modes, panes : PaneSeqs, overflow : IdSeqs, focus : Nat, next : Nat,
   groups : Groupings, hidden : StackSeqs, list : IdSeqs]

(* The panes of a layout: one at least, with numbers of their own, which   *)
(* are the indices of the cells in a grid, and in a tree below the next    *)
(* number to be given.                                                     *)
Shape(w) ==
  /\ w \in Workspace
  /\ w.panes # <<>>
  /\ \A i, j \in DOMAIN w.panes : w.panes[i].id = w.panes[j].id => i = j
  /\ \A i \in DOMAIN w.panes : w.panes[i].id # 0
  /\ w.mode = "grid" => \A i \in DOMAIN w.panes : w.panes[i].id = i
  /\ w.mode = "split" => w.overflow = <<>> /\ \A i \in DOMAIN w.panes : w.panes[i].id < w.next

(* A grouping is a function from pane numbers to stacks.                   *)
LEMMA GroupingFacts ==
  ASSUME NEW g
  PROVE  g \in Groupings <=> /\ g = [p \in DOMAIN g |-> g[p]]
                             /\ DOMAIN g \subseteq Nat
                             /\ \A p \in DOMAIN g : g[p] \in StackRec
<1>1. ASSUME g \in Groupings
      PROVE  g = [p \in DOMAIN g |-> g[p]] /\ DOMAIN g \subseteq Nat /\ \A p \in DOMAIN g : g[p] \in StackRec
  <2>1. PICK D \in SUBSET Nat : g \in [D -> StackRec]
    BY <1>1 DEF Groupings
  <2> QED BY <2>1
<1>2. ASSUME g = [p \in DOMAIN g |-> g[p]], DOMAIN g \subseteq Nat, \A p \in DOMAIN g : g[p] \in StackRec
      PROVE  g \in Groupings
  <2> DEFINE D == DOMAIN g
  <2>1. D \in SUBSET Nat /\ g \in [D -> StackRec]
    BY <1>2
  <2> HIDE DEF D
  <2> QED BY <2>1 DEF Groupings
<1> QED BY <1>1, <1>2

(* Each field of a workspace has its type.                                 *)
LEMMA WorkspaceFields ==
  ASSUME NEW w \in Workspace
  PROVE  /\ w.mode \in {"grid", "split"} /\ w.panes \in PaneSeqs /\ w.overflow \in IdSeqs
         /\ w.focus \in Nat /\ w.next \in Nat /\ w.groups \in Groupings
         /\ w.hidden \in StackSeqs /\ w.list \in IdSeqs
BY DEF Workspace, Modes

(* A sequence of panes, by its indices.                                    *)
LEMMA PaneSeqFacts ==
  ASSUME NEW q \in PaneSeqs
  PROVE  /\ DOMAIN q = 1 .. Len(q) /\ Len(q) \in Nat
         /\ \A i \in DOMAIN q : q[i] \in PaneRec /\ q[i].id \in Nat /\ q[i].at \in Nat
                                /\ q[i] = Pane(q[i].id, q[i].at)
         /\ q = <<>> <=> Len(q) = 0
         /\ q \in Seq(PaneRec)
<1>1. q \in Seq(PaneRec)
  BY DEF PaneSeqs
<1>2. DOMAIN q = 1 .. Len(q) /\ Len(q) \in Nat /\ (q = <<>> <=> Len(q) = 0)
  BY <1>1
<1>3. ASSUME NEW i \in DOMAIN q
      PROVE  q[i] \in PaneRec /\ q[i].id \in Nat /\ q[i].at \in Nat /\ q[i] = Pane(q[i].id, q[i].at)
  <2>1. q[i] \in PaneRec
    BY <1>1, <1>2
  <2> QED BY <2>1 DEF PaneRec, Pane
<1> QED BY <1>1, <1>2, <1>3

(* What the operators that read the panes return.                          *)
LEMMA View ==
  ASSUME NEW w, Shape(w)
  PROVE  /\ PaneIds(w) \subseteq Nat \ {0}
         /\ \A i \in DOMAIN w.panes : w.panes[i].id \in PaneIds(w) /\ At(w, w.panes[i].id) = w.panes[i].at
         /\ \A p \in PaneIds(w) : \E i \in DOMAIN w.panes : w.panes[i].id = p /\ w.panes[i].at = At(w, p)
         /\ \A p : At(w, p) \in Nat
         /\ \A p : p \notin PaneIds(w) => At(w, p) = 0
         /\ InPanes(w) = {At(w, p) : p \in PaneIds(w)} \ {0}
<1>1. w \in Workspace /\ w.panes \in PaneSeqs
  BY WorkspaceFields DEF Shape
<1>2. \A i \in DOMAIN w.panes : w.panes[i].id \in Nat /\ w.panes[i].at \in Nat
  BY <1>1, PaneSeqFacts
<1>3. PaneIds(w) \subseteq Nat \ {0}
  BY <1>2 DEF PaneIds, Shape
<1>4. ASSUME NEW i \in DOMAIN w.panes
      PROVE  w.panes[i].id \in PaneIds(w) /\ At(w, w.panes[i].id) = w.panes[i].at
  <2> DEFINE p == w.panes[i].id
             e == CHOOSE e \in Range(w.panes) : e.id = p
  <2>1. p \in PaneIds(w)
    BY DEF PaneIds
  <2>2. w.panes[i] \in Range(w.panes)
    BY DEF Range
  <2>3. e \in Range(w.panes) /\ e.id = p
    BY <2>2
  <2>4. PICK j \in DOMAIN w.panes : e = w.panes[j]
    BY <2>3 DEF Range
  <2>5. i = j
    BY <2>3, <2>4 DEF Shape
  <2> QED BY <2>1, <2>4, <2>5 DEF At
<1>5. \A p \in PaneIds(w) : \E i \in DOMAIN w.panes : w.panes[i].id = p /\ w.panes[i].at = At(w, p)
  BY <1>4 DEF PaneIds
<1>6. \A p : p \notin PaneIds(w) => At(w, p) = 0
  BY DEF At, Nobody
<1>7. \A p : At(w, p) \in Nat
  BY <1>2, <1>5, <1>6
<1>8. InPanes(w) = {At(w, p) : p \in PaneIds(w)} \ {0}
  BY <1>4, <1>5 DEF InPanes, Nobody
<1> QED BY <1>3, <1>4, <1>5, <1>6, <1>7, <1>8

(* The pane of a session that is shown.                                    *)
LEMMA SlotFacts ==
  ASSUME NEW w, Shape(w), NEW s \in InPanes(w)
  PROVE  SlotOf(w, s) \in PaneIds(w) /\ At(w, SlotOf(w, s)) = s
<1> DEFINE I == {i \in 1 .. Len(w.panes) : w.panes[i].at = s}
<1>1. w.panes \in PaneSeqs /\ DOMAIN w.panes = 1 .. Len(w.panes) /\ Len(w.panes) \in Nat
  BY WorkspaceFields, PaneSeqFacts DEF Shape
<1>2. I # {} /\ I \subseteq Nat
  BY <1>1 DEF InPanes
<1>3. Min(I) \in I
  <2> HIDE DEF I
  <2> QED BY <1>2, LeastOne DEF Min
<1>4. SlotOf(w, s) = w.panes[Min(I)].id
  BY <1>2 DEF SlotOf, SelectInSeq
<1>5. PICK m \in DOMAIN w.panes : w.panes[m].at = s /\ SlotOf(w, s) = w.panes[m].id
  BY <1>1, <1>3, <1>4
<1> QED BY <1>5, View

(* The first pane that is empty, or that is not.                           *)
LEMMA FirstPaneFacts ==
  ASSUME NEW w, Shape(w), NEW empty \in BOOLEAN
  PROVE  /\ FirstPane(w, empty) = 0 => \A p \in PaneIds(w) : (At(w, p) = 0) # empty
         /\ FirstPane(w, empty) # 0 => /\ FirstPane(w, empty) \in PaneIds(w)
                                       /\ (At(w, FirstPane(w, empty)) = 0) = empty
         /\ FirstPane(w, empty) # 0 =>
              \E i \in DOMAIN w.panes : /\ w.panes[i].id = FirstPane(w, empty)
                                        /\ (w.panes[i].at = 0) = empty
                                        /\ \A j \in 1 .. i - 1 : (w.panes[j].at = 0) # empty
<1> DEFINE I == {i \in 1 .. Len(w.panes) : (w.panes[i].at = Nobody) = empty}
<1>1. w.panes \in PaneSeqs /\ DOMAIN w.panes = 1 .. Len(w.panes) /\ Len(w.panes) \in Nat
  BY WorkspaceFields, PaneSeqFacts DEF Shape
<1>2. CASE I = {}
  <2>1. FirstPane(w, empty) = 0
    BY <1>2 DEF FirstPane, SelectInSeq, NoPane
  <2>2. ASSUME NEW p \in PaneIds(w) PROVE (At(w, p) = 0) # empty
    <3>1. PICK i \in DOMAIN w.panes : w.panes[i].id = p /\ w.panes[i].at = At(w, p)
      BY View
    <3>2. i \notin I
      BY <1>2
    <3> QED BY <1>1, <3>1, <3>2 DEF Nobody
  <2> QED BY <2>1, <2>2
<1>3. CASE I # {}
  <2>1. Min(I) \in I /\ \A j \in I : Min(I) <= j
    <3>1. I \subseteq Nat
      OBVIOUS
    <3> HIDE DEF I
    <3> QED BY <1>3, <3>1, LeastOne DEF Min
  <2> DEFINE m == Min(I)
  <2>2. m \in DOMAIN w.panes /\ (w.panes[m].at = 0) = empty /\ m # 0
    BY <1>1, <2>1 DEF Nobody
  <2>3. FirstPane(w, empty) = w.panes[m].id
    BY <1>3, <2>2 DEF FirstPane, SelectInSeq
  <2>4. \A j \in 1 .. m - 1 : (w.panes[j].at = 0) # empty
    <3> SUFFICES ASSUME NEW j \in 1 .. m - 1, (w.panes[j].at = 0) = empty PROVE FALSE
      OBVIOUS
    <3>1. j \in I
      BY <1>1, <2>2 DEF Nobody
    <3>2. m <= j
      BY <2>1, <3>1
    <3> QED BY <1>1, <2>2, <3>2
  <2> HIDE DEF m
  <2>5. FirstPane(w, empty) # 0
    BY <2>2, <2>3 DEF Shape
  <2> QED BY <2>2, <2>3, <2>4, <2>5, View
<1> QED BY <1>2, <1>3

(* What a session is put into a pane, and nothing else, changes.           *)
LEMMA PutFacts ==
  ASSUME NEW w, Shape(w), NEW p \in PaneIds(w), NEW s \in Nat
  PROVE  LET v == Put(w, p, s) IN
         /\ Shape(v)
         /\ v.mode = w.mode /\ v.overflow = w.overflow /\ v.focus = w.focus /\ v.next = w.next
         /\ v.groups = w.groups /\ v.hidden = w.hidden /\ v.list = w.list
         /\ Len(v.panes) = Len(w.panes) /\ PaneIds(v) = PaneIds(w)
         /\ At(v, p) = s
         /\ \A q : q # p => At(v, q) = At(w, q)
<1> DEFINE v == Put(w, p, s)
           ps == [i \in DOMAIN w.panes |-> IF w.panes[i].id = p THEN Pane(p, s) ELSE w.panes[i]]
<1>1. w \in Workspace /\ w.panes \in PaneSeqs /\ DOMAIN w.panes = 1 .. Len(w.panes) /\ Len(w.panes) \in Nat
  BY WorkspaceFields, PaneSeqFacts DEF Shape
<1>2. v = [w EXCEPT !.panes = ps]
  BY DEF Put
<1>3. /\ ps \in PaneSeqs /\ DOMAIN ps = DOMAIN w.panes /\ Len(ps) = Len(w.panes)
      /\ \A i \in DOMAIN ps : ps[i].id = w.panes[i].id /\ ps[i].at = IF w.panes[i].id = p THEN s ELSE w.panes[i].at
  <2>1. \A i \in DOMAIN w.panes : ps[i] \in PaneRec
    BY <1>1, View, PaneSeqFacts DEF PaneRec, Pane
  <2>2. ps \in Seq(PaneRec) /\ Len(ps) = Len(w.panes)
    <3>1. ps \in [1 .. Len(w.panes) -> PaneRec]
      BY <1>1, <2>1
    <3> HIDE DEF ps
    <3> QED BY <1>1, <3>1, FunctionIsSeq
  <2>3. \A i \in DOMAIN ps : ps[i].id = w.panes[i].id /\ ps[i].at = IF w.panes[i].id = p THEN s ELSE w.panes[i].at
    BY DEF Pane
  <2> QED BY <2>2, <2>3 DEF PaneSeqs
<1> HIDE DEF ps
<1>4. /\ v \in Workspace /\ v.panes = ps
      /\ v.mode = w.mode /\ v.overflow = w.overflow /\ v.focus = w.focus /\ v.next = w.next
      /\ v.groups = w.groups /\ v.hidden = w.hidden /\ v.list = w.list
  BY <1>1, <1>2, <1>3 DEF Workspace
<1> HIDE DEF v
<1>5. Shape(v)
  <2>1. ps # <<>>
    BY <1>1, <1>3, PaneSeqFacts DEF Shape
  <2> QED BY <1>3, <1>4, <2>1 DEF Shape
<1>6. PaneIds(v) = PaneIds(w)
  BY <1>3, <1>4 DEF PaneIds
<1>7. ASSUME NEW q PROVE At(v, q) = IF q = p THEN s ELSE At(w, q)
  <2>1. CASE q \notin PaneIds(w)
    <3>1. At(v, q) = 0 /\ At(w, q) = 0
      BY <1>5, <1>6, <2>1, View
    <3> QED BY <2>1, <3>1
  <2>2. CASE q \in PaneIds(w)
    <3>1. PICK i \in DOMAIN w.panes : w.panes[i].id = q /\ w.panes[i].at = At(w, q)
      BY <2>2, View
    <3>2. i \in DOMAIN v.panes /\ v.panes[i].id = q
      BY <1>3, <1>4, <3>1
    <3>3. At(v, q) = v.panes[i].at
      BY <1>5, <3>2, View
    <3> QED BY <1>3, <1>4, <3>1, <3>2, <3>3
  <2> QED BY <2>1, <2>2
<1> QED BY <1>3, <1>4, <1>5, <1>6, <1>7 DEF v

(* The operators that read the panes read nothing else.                    *)
LEMMA SamePanes ==
  ASSUME NEW w, NEW v, v.panes = w.panes
  PROVE  /\ PaneIds(v) = PaneIds(w) /\ InPanes(v) = InPanes(w)
         /\ \A p : At(v, p) = At(w, p)
         /\ \A s : SlotOf(v, s) = SlotOf(w, s)
         /\ FirstPane(v, TRUE) = FirstPane(w, TRUE) /\ FirstPane(v, FALSE) = FirstPane(w, FALSE)
BY DEF PaneIds, InPanes, At, SlotOf, FirstPane

(* One field is assigned: the others, and the panes, are as they were.     *)
LEMMA SetOverflow ==
  ASSUME NEW w, Shape(w), NEW o \in IdSeqs, w.mode = "split" => o = <<>>
  PROVE  LET v == [w EXCEPT !.overflow = o] IN
         /\ Shape(v) /\ v.overflow = o
         /\ v.mode = w.mode /\ v.panes = w.panes /\ v.focus = w.focus /\ v.next = w.next
         /\ v.groups = w.groups /\ v.hidden = w.hidden /\ v.list = w.list
         /\ PaneIds(v) = PaneIds(w) /\ InPanes(v) = InPanes(w) /\ \A p : At(v, p) = At(w, p)
<1> DEFINE v == [w EXCEPT !.overflow = o]
<1>1. w \in Workspace
  BY DEF Shape
<1>2. /\ v \in Workspace /\ v.overflow = o
      /\ v.mode = w.mode /\ v.panes = w.panes /\ v.focus = w.focus /\ v.next = w.next
      /\ v.groups = w.groups /\ v.hidden = w.hidden /\ v.list = w.list
  BY <1>1 DEF Workspace
<1> HIDE DEF v
<1>3. Shape(v)
  BY <1>2 DEF Shape
<1>4. PaneIds(v) = PaneIds(w) /\ InPanes(v) = InPanes(w) /\ \A p : At(v, p) = At(w, p)
  BY <1>2, SamePanes
<1> QED BY <1>2, <1>3, <1>4 DEF v

(* The same of the focus.                                                  *)
LEMMA SetFocus ==
  ASSUME NEW w, Shape(w), NEW f \in Nat
  PROVE  LET v == [w EXCEPT !.focus = f] IN
         /\ Shape(v) /\ v.focus = f
         /\ v.mode = w.mode /\ v.panes = w.panes /\ v.overflow = w.overflow /\ v.next = w.next
         /\ v.groups = w.groups /\ v.hidden = w.hidden /\ v.list = w.list
         /\ PaneIds(v) = PaneIds(w) /\ InPanes(v) = InPanes(w) /\ \A p : At(v, p) = At(w, p)
<1> DEFINE v == [w EXCEPT !.focus = f]
<1>1. w \in Workspace
  BY DEF Shape
<1>2. /\ v \in Workspace /\ v.focus = f
      /\ v.mode = w.mode /\ v.panes = w.panes /\ v.overflow = w.overflow /\ v.next = w.next
      /\ v.groups = w.groups /\ v.hidden = w.hidden /\ v.list = w.list
  BY <1>1 DEF Workspace
<1> HIDE DEF v
<1>3. Shape(v)
  BY <1>2 DEF Shape
<1>4. PaneIds(v) = PaneIds(w) /\ InPanes(v) = InPanes(w) /\ \A p : At(v, p) = At(w, p)
  BY <1>2, SamePanes
<1> QED BY <1>2, <1>3, <1>4 DEF v

(* The same of the groups.                                                 *)
LEMMA SetGroups ==
  ASSUME NEW w, Shape(w), NEW g \in Groupings
  PROVE  LET v == [w EXCEPT !.groups = g] IN
         /\ Shape(v) /\ v.groups = g
         /\ v.mode = w.mode /\ v.panes = w.panes /\ v.overflow = w.overflow /\ v.focus = w.focus
         /\ v.next = w.next /\ v.hidden = w.hidden /\ v.list = w.list
         /\ PaneIds(v) = PaneIds(w) /\ InPanes(v) = InPanes(w) /\ \A p : At(v, p) = At(w, p)
<1> DEFINE v == [w EXCEPT !.groups = g]
<1>1. w \in Workspace
  BY DEF Shape
<1>2. /\ v \in Workspace /\ v.groups = g
      /\ v.mode = w.mode /\ v.panes = w.panes /\ v.overflow = w.overflow /\ v.focus = w.focus
      /\ v.next = w.next /\ v.hidden = w.hidden /\ v.list = w.list
  BY <1>1 DEF Workspace
<1> HIDE DEF v
<1>3. Shape(v)
  BY <1>2 DEF Shape
<1>4. PaneIds(v) = PaneIds(w) /\ InPanes(v) = InPanes(w) /\ \A p : At(v, p) = At(w, p)
  BY <1>2, SamePanes
<1> QED BY <1>2, <1>3, <1>4 DEF v

(* The same of the hidden stacks.                                          *)
LEMMA SetHidden ==
  ASSUME NEW w, Shape(w), NEW h \in StackSeqs
  PROVE  LET v == [w EXCEPT !.hidden = h] IN
         /\ Shape(v) /\ v.hidden = h
         /\ v.mode = w.mode /\ v.panes = w.panes /\ v.overflow = w.overflow /\ v.focus = w.focus
         /\ v.next = w.next /\ v.groups = w.groups /\ v.list = w.list
         /\ PaneIds(v) = PaneIds(w) /\ InPanes(v) = InPanes(w) /\ \A p : At(v, p) = At(w, p)
<1> DEFINE v == [w EXCEPT !.hidden = h]
<1>1. w \in Workspace
  BY DEF Shape
<1>2. /\ v \in Workspace /\ v.hidden = h
      /\ v.mode = w.mode /\ v.panes = w.panes /\ v.overflow = w.overflow /\ v.focus = w.focus
      /\ v.next = w.next /\ v.groups = w.groups /\ v.list = w.list
  BY <1>1 DEF Workspace
<1> HIDE DEF v
<1>3. Shape(v)
  BY <1>2 DEF Shape
<1>4. PaneIds(v) = PaneIds(w) /\ InPanes(v) = InPanes(w) /\ \A p : At(v, p) = At(w, p)
  BY <1>2, SamePanes
<1> QED BY <1>2, <1>3, <1>4 DEF v

(* The same of the list of the sessions.                                   *)
LEMMA SetList ==
  ASSUME NEW w, Shape(w), NEW l \in IdSeqs
  PROVE  LET v == [w EXCEPT !.list = l] IN
         /\ Shape(v) /\ v.list = l
         /\ v.mode = w.mode /\ v.panes = w.panes /\ v.overflow = w.overflow /\ v.focus = w.focus
         /\ v.next = w.next /\ v.groups = w.groups /\ v.hidden = w.hidden
         /\ PaneIds(v) = PaneIds(w) /\ InPanes(v) = InPanes(w) /\ \A p : At(v, p) = At(w, p)
<1> DEFINE v == [w EXCEPT !.list = l]
<1>1. w \in Workspace
  BY DEF Shape
<1>2. /\ v \in Workspace /\ v.list = l
      /\ v.mode = w.mode /\ v.panes = w.panes /\ v.overflow = w.overflow /\ v.focus = w.focus
      /\ v.next = w.next /\ v.groups = w.groups /\ v.hidden = w.hidden
  BY <1>1 DEF Workspace
<1> HIDE DEF v
<1>3. Shape(v)
  BY <1>2 DEF Shape
<1>4. PaneIds(v) = PaneIds(w) /\ InPanes(v) = InPanes(w) /\ \A p : At(v, p) = At(w, p)
  BY <1>2, SamePanes
<1> QED BY <1>2, <1>3, <1>4 DEF v

(* What retain and push do to a vector of sessions.                        *)
LEMMA IdSeqFacts ==
  ASSUME NEW q \in IdSeqs, NEW e
  PROVE  /\ q \in Seq(Nat) /\ Range(q) \subseteq Nat
         /\ Retain(q, e) \in IdSeqs /\ Range(Retain(q, e)) = Range(q) \ {e}
         /\ q = <<>> <=> Range(q) = {}
         /\ e \in Nat => Append(q, e) \in IdSeqs /\ Range(Append(q, e)) = Range(q) \cup {e}
<1>1. q \in Seq(Nat) /\ Range(q) \subseteq Nat /\ (q = <<>> <=> Range(q) = {})
  BY InRange DEF IdSeqs
<1>2. Retain(q, e) \in IdSeqs /\ Range(Retain(q, e)) = Range(q) \ {e}
  BY <1>1, RetainFacts DEF IdSeqs
<1>3. ASSUME e \in Nat PROVE Append(q, e) \in IdSeqs /\ Range(Append(q, e)) = Range(q) \cup {e}
  <2>1. Append(q, e) \in Seq(Nat) /\ Append(q, e) = q \o <<e>>
    BY <1>1, <1>3, AppendIsConcat, AppendProperties
  <2>2. <<e>> \in Seq(Nat) /\ Range(<<e>>) = {e}
    <3>1. <<e>> \in Seq(Nat)
      BY <1>3
    <3> QED BY <3>1, SingletonRange
  <2>3. Range(q \o <<e>>) = Range(q) \cup {e}
    <3> DEFINE one == <<e>>
    <3>1. one \in Seq(Nat) /\ Range(one) = {e}
      BY <2>2
    <3> HIDE DEF one
    <3>2. Range(q \o one) = Range(q) \cup {e}
      BY <1>1, <3>1, RangeConcatenation
    <3> QED BY <3>2 DEF one
  <2> QED BY <2>1, <2>3 DEF IdSeqs
<1> QED BY <1>1, <1>2, <1>3

(* The fields of a stack.                                                  *)
LEMMA StackFacts ==
  ASSUME NEW g \in StackRec
  PROVE  /\ g.tabs \in Seq(Nat) /\ g.active \in Nat /\ Range(g.tabs) \subseteq Nat
         /\ g = Stack(g.tabs, g.active)
<1>1. g.tabs \in Seq(Nat) /\ g.active \in Nat /\ g = Stack(g.tabs, g.active)
  BY DEF StackRec, Stack
<1> QED BY <1>1, InRange

(* A stack of given tabs and a given active one.                           *)
LEMMA StackOf ==
  ASSUME NEW q \in Seq(Nat), NEW a \in Nat
  PROVE  Stack(q, a) \in StackRec /\ Stack(q, a).tabs = q /\ Stack(q, a).active = a
BY DEF StackRec, Stack

(* A group is given to a pane, or taken away.                              *)
LEMMA WithGroupFacts ==
  ASSUME NEW w, Shape(w), NEW p \in Nat, NEW g \in StackRec
  PROVE  LET v == WithGroup(w, p, g) IN
         /\ Shape(v)
         /\ v.mode = w.mode /\ v.panes = w.panes /\ v.overflow = w.overflow /\ v.focus = w.focus
         /\ v.next = w.next /\ v.hidden = w.hidden /\ v.list = w.list
         /\ PaneIds(v) = PaneIds(w) /\ InPanes(v) = InPanes(w) /\ \A x : At(v, x) = At(w, x)
         /\ DOMAIN v.groups = DOMAIN w.groups \cup {p}
         /\ v.groups[p] = g /\ \A x \in DOMAIN w.groups : x # p => v.groups[x] = w.groups[x]
<1> DEFINE gs == [q \in DOMAIN w.groups \cup {p} |-> IF q = p THEN g ELSE w.groups[q]]
<1>1. w.groups \in Groupings
  BY WorkspaceFields DEF Shape
<1>2. gs \in Groupings
  BY <1>1, GroupingFacts
<1>3. WithGroup(w, p, g) = [w EXCEPT !.groups = gs]
  BY DEF WithGroup
<1>4. /\ DOMAIN gs = DOMAIN w.groups \cup {p} /\ gs[p] = g
      /\ \A x \in DOMAIN w.groups : x # p => gs[x] = w.groups[x]
  OBVIOUS
<1> HIDE DEF gs
<1> QED BY <1>2, <1>3, <1>4, SetGroups

(* WithoutGroup changes nothing but the groups.                            *)
LEMMA WithoutGroupFacts ==
  ASSUME NEW w, Shape(w), NEW p
  PROVE  LET v == WithoutGroup(w, p) IN
         /\ Shape(v)
         /\ v.mode = w.mode /\ v.panes = w.panes /\ v.overflow = w.overflow /\ v.focus = w.focus
         /\ v.next = w.next /\ v.hidden = w.hidden /\ v.list = w.list
         /\ PaneIds(v) = PaneIds(w) /\ InPanes(v) = InPanes(w) /\ \A x : At(v, x) = At(w, x)
         /\ DOMAIN v.groups = DOMAIN w.groups \ {p}
         /\ \A x \in DOMAIN w.groups : x # p => v.groups[x] = w.groups[x]
<1> DEFINE gs == [q \in DOMAIN w.groups \ {p} |-> w.groups[q]]
<1>1. w.groups \in Groupings
  BY WorkspaceFields DEF Shape
<1>2. gs \in Groupings
  BY <1>1, GroupingFacts
<1>3. WithoutGroup(w, p) = [w EXCEPT !.groups = gs]
  BY DEF WithoutGroup, Restrict
<1>4. /\ DOMAIN gs = DOMAIN w.groups \ {p}
      /\ \A x \in DOMAIN w.groups : x # p => gs[x] = w.groups[x]
  OBVIOUS
<1> HIDE DEF gs
<1> QED BY <1>2, <1>3, <1>4, SetGroups

(* v is w but for the session that pane p shows, now s, the overflow list  *)
(* and the focus.                                                          *)
Takes(v, w, p, s) ==
  /\ Shape(v)
  /\ v.mode = w.mode /\ v.next = w.next /\ v.groups = w.groups /\ v.hidden = w.hidden /\ v.list = w.list
  /\ Len(v.panes) = Len(w.panes) /\ PaneIds(v) = PaneIds(w)
  /\ At(v, p) = s
  /\ \A q : q # p => At(v, q) = At(w, q)

(* set_pane_active_session.                                                *)
LEMMA ReplaceFacts ==
  ASSUME NEW w, Shape(w), NEW p \in PaneIds(w), NEW s \in Nat
  PROVE  LET v == Replace(w, p, s) IN
         /\ Takes(v, w, p, s)
         /\ v.focus \in {w.focus, p}
         /\ Range(v.overflow) = IF w.mode = "grid" THEN Range(w.overflow) \ {s} ELSE {}
<1> USE DEF Takes
<1> DEFINE u == Put(w, p, s)
<1>1. /\ Shape(u)
      /\ u.mode = w.mode /\ u.overflow = w.overflow /\ u.focus = w.focus /\ u.next = w.next
      /\ u.groups = w.groups /\ u.hidden = w.hidden /\ u.list = w.list
      /\ Len(u.panes) = Len(w.panes) /\ PaneIds(u) = PaneIds(w)
      /\ At(u, p) = s
      /\ \A q : q # p => At(u, q) = At(w, q)
  BY PutFacts
<1>2. w.mode \in {"grid", "split"} /\ w.overflow \in IdSeqs /\ p \in Nat
  BY WorkspaceFields, View DEF Shape
<1> HIDE DEF u
<1>3. CASE w.mode = "grid"
  <2> DEFINE o == Retain(w.overflow, s)
  <2>1. Replace(w, p, s) = [u EXCEPT !.overflow = o]
    BY <1>1, <1>3 DEF Replace, u, Workspace, Shape
  <2>2. o \in IdSeqs /\ Range(o) = Range(w.overflow) \ {s}
    BY <1>2, IdSeqFacts
  <2> HIDE DEF o
  <2> QED BY <1>1, <1>3, <2>1, <2>2, SetOverflow
<1>4. CASE w.mode = "split"
  <2>1. Replace(w, p, s) = [u EXCEPT !.focus = p]
    BY <1>4 DEF Replace, u
  <2>2. Range(u.overflow) = {}
    BY <1>1, <1>2, <1>4, IdSeqFacts DEF Shape
  <2> QED BY <1>1, <1>2, <1>4, <2>1, <2>2, SetFocus
<1> QED BY <1>2, <1>3, <1>4

(* assign_session_to_index and _to_slot, on an empty pane.                 *)
LEMMA AssignFacts ==
  ASSUME NEW w, Shape(w), NEW p \in PaneIds(w), NEW s \in Nat, At(w, p) = 0
  PROVE  LET v == Assign(w, p, s) IN
         /\ Takes(v, w, p, s)
         /\ v.focus = w.focus
         /\ Range(v.overflow) = Range(w.overflow) \ {s}
<1> USE DEF Takes
<1> DEFINE u == Put(w, p, s)
           o == Retain(w.overflow, s)
<1>1. /\ Shape(u)
      /\ u.mode = w.mode /\ u.overflow = w.overflow /\ u.focus = w.focus /\ u.next = w.next
      /\ u.groups = w.groups /\ u.hidden = w.hidden /\ u.list = w.list
      /\ Len(u.panes) = Len(w.panes) /\ PaneIds(u) = PaneIds(w)
      /\ At(u, p) = s
      /\ \A q : q # p => At(u, q) = At(w, q)
  BY PutFacts
<1>2. w.overflow \in IdSeqs
  BY WorkspaceFields DEF Shape
<1>3. Assign(w, p, s) = [u EXCEPT !.overflow = o]
  BY DEF Assign, Nobody
<1>4. o \in IdSeqs /\ Range(o) = Range(w.overflow) \ {s}
  BY <1>2, IdSeqFacts
<1>5. w.mode = "split" => o = <<>>
  BY <1>2, <1>4, IdSeqFacts DEF Shape
<1> HIDE DEF u, o
<1> QED BY <1>1, <1>3, <1>4, <1>5, SetOverflow

(* swap_hidden_into_index, on a cell that shows another session.           *)
LEMMA SwapHiddenFacts ==
  ASSUME NEW w, Shape(w), w.mode = "grid", NEW p \in PaneIds(w), NEW s \in Range(w.overflow), At(w, p) # 0
  PROVE  LET v == SwapHidden(w, s, p) IN
         /\ Takes(v, w, p, s)
         /\ v.focus = p
         /\ Range(v.overflow) = (Range(w.overflow) \ {s}) \cup {At(w, p)}
<1> USE DEF Takes
<1> DEFINE u == Put(w, p, s)
           a == At(w, p)
           o == [i \in DOMAIN w.overflow |-> IF w.overflow[i] = s THEN a ELSE w.overflow[i]]
           u2 == [u EXCEPT !.overflow = o]
<1>0. w.overflow \in IdSeqs /\ s \in Nat /\ p \in Nat /\ a \in Nat
  BY WorkspaceFields, View, IdSeqFacts DEF Shape
<1>1. /\ Shape(u)
      /\ u.mode = w.mode /\ u.overflow = w.overflow /\ u.focus = w.focus /\ u.next = w.next
      /\ u.groups = w.groups /\ u.hidden = w.hidden /\ u.list = w.list
      /\ Len(u.panes) = Len(w.panes) /\ PaneIds(u) = PaneIds(w)
      /\ At(u, p) = s
      /\ \A q : q # p => At(u, q) = At(w, q)
  BY <1>0, PutFacts
<1>2. w.overflow \in Seq(Nat) /\ Range(w.overflow) = {w.overflow[i] : i \in 1 .. Len(w.overflow)}
      /\ DOMAIN w.overflow = 1 .. Len(w.overflow) /\ Len(w.overflow) \in Nat
  BY <1>0, InRange DEF IdSeqs
<1> HIDE DEF a
<1>3. o \in IdSeqs /\ Range(o) = (Range(w.overflow) \ {s}) \cup {a}
  <2>1. o \in [1 .. Len(w.overflow) -> Nat]
    BY <1>0, <1>2
  <2>2. o \in Seq(Nat)
    BY <1>2, <2>1, FunctionIsSeq
  <2>3. \A i \in DOMAIN w.overflow : o[i] = IF w.overflow[i] = s THEN a ELSE w.overflow[i]
    OBVIOUS
  <2>4. Range(o) = {o[i] : i \in DOMAIN w.overflow}
    BY DEF Range
  <2>5. \E i \in DOMAIN w.overflow : w.overflow[i] = s
    BY <1>2
  <2> HIDE DEF o
  <2>6. ASSUME NEW x PROVE x \in Range(o) <=> x \in (Range(w.overflow) \ {s}) \cup {a}
    BY <1>2, <2>3, <2>4, <2>5
  <2> QED BY <2>2, <2>6 DEF IdSeqs
<1>4. SwapHidden(w, s, p) = [u2 EXCEPT !.focus = p]
  <2>1. u.overflow = w.overflow
    BY <1>1
  <2> QED BY <2>1 DEF SwapHidden, Nobody, a, Workspace
<1> HIDE DEF u, o
<1>5. /\ Shape(u2) /\ u2.overflow = o
      /\ u2.mode = u.mode /\ u2.panes = u.panes /\ u2.next = u.next /\ u2.groups = u.groups
      /\ u2.hidden = u.hidden /\ u2.list = u.list
      /\ PaneIds(u2) = PaneIds(u) /\ \A q : At(u2, q) = At(u, q)
  BY <1>1, <1>3, SetOverflow
<1> HIDE DEF u2
<1> QED BY <1>0, <1>1, <1>3, <1>4, <1>5, SetFocus DEF a

(* remove_session of the layout.                                           *)
LEMMA LayoutRemoveFacts ==
  ASSUME NEW w, Shape(w), w.focus \in PaneIds(w) \cup {0}, NEW s \in Nat
  PROVE  LET v == LayoutRemove(w, s) IN
         /\ Shape(v)
         /\ v.mode = w.mode /\ v.next = w.next /\ v.groups = w.groups /\ v.hidden = w.hidden /\ v.list = w.list
         /\ v.focus \in PaneIds(w) \cup {0}
         /\ Range(v.overflow) = IF s \in InPanes(w) THEN Range(w.overflow) ELSE Range(w.overflow) \ {s}
         /\ Len(v.panes) = Len(w.panes) /\ PaneIds(v) = PaneIds(w)
         /\ \A q : At(v, q) = IF s \in InPanes(w) /\ q = SlotOf(w, s) THEN 0 ELSE At(w, q)
<1>1. CASE s \in InPanes(w)
  <2> DEFINE p == SlotOf(w, s)
             u == Put(w, p, Nobody)
  <2>1. p \in PaneIds(w) /\ p \in Nat
    BY <1>1, SlotFacts, View
  <2>2. /\ Shape(u)
        /\ u.mode = w.mode /\ u.overflow = w.overflow /\ u.focus = w.focus /\ u.next = w.next
        /\ u.groups = w.groups /\ u.hidden = w.hidden /\ u.list = w.list
        /\ Len(u.panes) = Len(w.panes) /\ PaneIds(u) = PaneIds(w)
        /\ At(u, p) = 0
        /\ \A q : q # p => At(u, q) = At(w, q)
    BY <2>1, PutFacts DEF Nobody
  <2>3. CASE w.focus = p
    <3>1. LayoutRemove(w, s) = [u EXCEPT !.focus = FirstPane(u, FALSE)]
      BY <1>1, <2>3 DEF LayoutRemove
    <3> DEFINE f == FirstPane(u, FALSE)
               v == [u EXCEPT !.focus = f]
    <3> HIDE DEF u
    <3>2. f \in PaneIds(u) \cup {0}
      BY <2>2, FirstPaneFacts
    <3> HIDE DEF f
    <3>3. f \in PaneIds(w) \cup {0} /\ f \in Nat
      <4>1. PaneIds(u) \subseteq Nat
        BY <2>2, View
      <4> QED BY <2>2, <3>2, <4>1
    <3>4. /\ Shape(v) /\ v.focus = f
          /\ v.mode = u.mode /\ v.panes = u.panes /\ v.overflow = u.overflow /\ v.next = u.next
          /\ v.groups = u.groups /\ v.hidden = u.hidden /\ v.list = u.list
          /\ PaneIds(v) = PaneIds(u) /\ \A q : At(v, q) = At(u, q)
      BY <2>2, <3>3, SetFocus
    <3>5. LayoutRemove(w, s) = v
      BY <3>1 DEF f
    <3> HIDE DEF p, v
    <3> QED BY <1>1, <2>2, <3>3, <3>4, <3>5 DEF p
  <2>4. CASE w.focus # p
    <3>1. LayoutRemove(w, s) = u
      BY <1>1, <2>4 DEF LayoutRemove
    <3> HIDE DEF p, u
    <3> QED BY <1>1, <2>2, <3>1 DEF p
  <2> QED BY <2>3, <2>4
<1>2. CASE s \notin InPanes(w)
  <2> DEFINE o == Retain(w.overflow, s)
  <2>1. w.overflow \in IdSeqs
    BY WorkspaceFields DEF Shape
  <2>2. LayoutRemove(w, s) = [w EXCEPT !.overflow = o]
    BY <1>2 DEF LayoutRemove
  <2>3. o \in IdSeqs /\ Range(o) = Range(w.overflow) \ {s}
    BY <2>1, IdSeqFacts
  <2>4. w.mode = "split" => o = <<>>
    BY <2>1, <2>3, IdSeqFacts DEF Shape
  <2> HIDE DEF o
  <2> QED BY <1>2, <2>2, <2>3, <2>4, SetOverflow
<1> QED BY <1>1, <1>2

(* The operations that change nothing but the focus.                       *)
OnlyFocus(v, w) == \E f \in PaneIds(w) \cup {0, w.focus} : v = [w EXCEPT !.focus = f]

(* They are: focus_session of the layout, the search for something to      *)
(* focus, the focus of the first pane, and nothing at all.                 *)
LEMMA FocusOps ==
  ASSUME NEW w, Shape(w)
  PROVE  /\ \A s : OnlyFocus(LayoutFocus(w, s), w)
         /\ OnlyFocus(FocusSomething(w), w)
         /\ OnlyFocus(FocusFirst(w), w)
         /\ OnlyFocus(w, w)
<1>1. w = [w EXCEPT !.focus = w.focus]
  BY DEF Shape, Workspace
<1>2. OnlyFocus(w, w)
  BY <1>1 DEF OnlyFocus
<1>3. \A s : OnlyFocus(LayoutFocus(w, s), w)
  BY <1>2, SlotFacts DEF LayoutFocus, OnlyFocus
<1>4. FirstPane(w, FALSE) \in PaneIds(w) \cup {0}
  BY FirstPaneFacts
<1>5. OnlyFocus(FocusSomething(w), w) /\ OnlyFocus(FocusFirst(w), w)
  BY <1>2, <1>4 DEF FocusSomething, FocusFirst, OnlyFocus
<1> QED BY <1>2, <1>3, <1>5

(* What is the same after them.                                            *)
LEMMA OnlyFocusFacts ==
  ASSUME NEW w, Shape(w), NEW v, OnlyFocus(v, w)
  PROVE  /\ Shape(v)
         /\ v.mode = w.mode /\ v.panes = w.panes /\ v.overflow = w.overflow /\ v.next = w.next
         /\ v.groups = w.groups /\ v.hidden = w.hidden /\ v.list = w.list
         /\ v.focus \in PaneIds(w) \cup {0, w.focus}
         /\ PaneIds(v) = PaneIds(w) /\ InPanes(v) = InPanes(w) /\ \A p : At(v, p) = At(w, p)
<1>1. PICK f \in PaneIds(w) \cup {0, w.focus} : v = [w EXCEPT !.focus = f]
  BY DEF OnlyFocus
<1>2. f \in Nat
  BY View, WorkspaceFields DEF Shape
<1> QED BY <1>1, <1>2, SetFocus

(***************************************************************************)
(* What every workspace has, and what a tidy one has besides. Most         *)
(* operations change one pane; OnePane says once what they have to keep    *)
(* for the workspace to stay tidy.                                         *)
(***************************************************************************)

(* The sessions that are tabs of a pane.                                   *)
Tabs(w, p) == IF p \in DOMAIN w.groups THEN Range(w.groups[p].tabs) ELSE {At(w, p)} \ {0}

(* The sessions that are tabs of a group.                                  *)
GroupTabs(w) == UNION {Range(w.groups[p].tabs) : p \in DOMAIN w.groups}

(* Stacks that repeat no tab and have an active one.                       *)
Stacked(h) == \A i \in DOMAIN h : IsInjective(h[i].tabs) /\ h[i].active \in Range(h[i].tabs)

(* What every workspace has, the untidy ones too.                          *)
Sound(w) ==
  /\ Shape(w)
  /\ w.focus \in PaneIds(w) \cup {0}
  /\ InPanes(w) \cup Range(w.overflow) \subseteq Range(w.list)
  /\ IsInjective(w.list) /\ 0 \notin Range(w.list)
  /\ DOMAIN w.groups \subseteq PaneIds(w)
  /\ \A p \in DOMAIN w.groups : Range(w.groups[p].tabs) \subseteq Range(w.list)

(* The hidden stacks hold listed sessions.                                 *)
HiddenListed(w) == \A i \in DOMAIN w.hidden : Range(w.hidden[i].tabs) \subseteq Range(w.list)

(* What a tidy one has besides: groups of two tabs at least, and a grid    *)
(* whose overflow list has nothing that is shown, nor, with more than one  *)
(* cell, a tab of a group.                                                 *)
Neat(w) ==
  /\ \A p \in DOMAIN w.groups : IsInjective(w.groups[p].tabs) /\ Len(w.groups[p].tabs) > 1
  /\ Stacked(w.hidden)
  /\ w.mode = "grid" =>
       \A x \in Range(w.overflow) : x \notin InPanes(w) /\ (Len(w.panes) > 1 => x \notin GroupTabs(w))

(* An empty Single layout has no hidden session.                           *)
FullOrNone(w) == w.mode = "grid" /\ Len(w.panes) = 1 /\ At(w, 1) = 0 => w.overflow = <<>>

(* A tidy workspace, in the middle of a call and after it.                 *)
Core(w) == Sound(w) /\ Neat(w) /\ Tidy(w)
Good(w) == Core(w) /\ HiddenListed(w) /\ FullOrNone(w)

(* Tidy, of the sets of tabs.                                              *)
LEMMA TidyView ==
  ASSUME NEW w, Shape(w)
  PROVE  /\ \A p : Range(TabsOf(w, p)) = Tabs(w, p)
         /\ \A p : p \in DOMAIN w.groups => TabsOf(w, p) = w.groups[p].tabs
         /\ \A p : p \notin DOMAIN w.groups => TabsOf(w, p) = IF At(w, p) = 0 THEN <<>> ELSE <<At(w, p)>>
         /\ Tidy(w) <=> /\ \A p, q \in PaneIds(w) : p # q => Tabs(w, p) \cap Tabs(w, q) = {}
                        /\ \A p \in DOMAIN w.groups : /\ At(w, p) = w.groups[p].active
                                                      /\ w.groups[p].active \in Range(w.groups[p].tabs)
<1>1. ASSUME NEW p PROVE Range(TabsOf(w, p)) = Tabs(w, p)
  <2>1. Range(<<>>) = {}
    BY DEF Range
  <2>2. Range(<<At(w, p)>>) = {At(w, p)}
    BY SingletonRange
  <2> QED BY <2>1, <2>2 DEF TabsOf, Tabs, Grouped, Nobody
<1>2. \A p : p \in DOMAIN w.groups => TabsOf(w, p) = w.groups[p].tabs
  BY DEF TabsOf, Grouped
<1>3. \A p : p \notin DOMAIN w.groups => TabsOf(w, p) = IF At(w, p) = 0 THEN <<>> ELSE <<At(w, p)>>
  BY DEF TabsOf, Grouped, Nobody
<1>4. Tidy(w) <=> /\ \A p, q \in PaneIds(w) : p # q => Tabs(w, p) \cap Tabs(w, q) = {}
                  /\ \A p \in DOMAIN w.groups : /\ At(w, p) = w.groups[p].active
                                                /\ w.groups[p].active \in Range(w.groups[p].tabs)
  BY <1>1 DEF Tidy
<1> QED BY <1>1, <1>2, <1>3, <1>4

(* What Core says of tabs and of what the panes show.                      *)
LEMMA CoreView ==
  ASSUME NEW w, Core(w)
  PROVE  /\ Shape(w)
         /\ w.mode \in {"grid", "split"} /\ w.groups \in Groupings
         /\ \A p : Tabs(w, p) \subseteq Range(w.list)
         /\ \A p : At(w, p) # 0 => At(w, p) \in Tabs(w, p) /\ p \in PaneIds(w) /\ At(w, p) \in InPanes(w)
         /\ \A p, x : x \in Tabs(w, p) => p \in PaneIds(w)
         /\ \A p \in DOMAIN w.groups : At(w, p) # 0 /\ At(w, p) = w.groups[p].active
         /\ \A p, q, x : x \in Tabs(w, p) /\ x \in Tabs(w, q) => p = q
         /\ \A p, x : x \in Tabs(w, p) /\ x \in InPanes(w) => x = At(w, p)
         /\ \A x : x \in InPanes(w) => x = At(w, SlotOf(w, x)) /\ SlotOf(w, x) \in PaneIds(w)
         /\ \A p \in DOMAIN w.groups : w.groups[p] \in StackRec
<1>1. Shape(w) /\ Tidy(w) /\ Sound(w)
  BY DEF Core, Sound
<1>2. w.mode \in {"grid", "split"} /\ w.groups \in Groupings
  BY <1>1, WorkspaceFields DEF Shape
<1>3. \A p \in DOMAIN w.groups : w.groups[p] \in StackRec
  BY <1>2, GroupingFacts
<1>4. /\ \A p, q \in PaneIds(w) : p # q => Tabs(w, p) \cap Tabs(w, q) = {}
      /\ \A p \in DOMAIN w.groups : /\ At(w, p) = w.groups[p].active
                                    /\ w.groups[p].active \in Range(w.groups[p].tabs)
  BY <1>1, TidyView
<1>5. /\ \A p \in PaneIds(w) : At(w, p) # 0 => At(w, p) \in InPanes(w)
      /\ \A p : p \notin PaneIds(w) => At(w, p) = 0
  BY <1>1, View
<1>6. \A p : Tabs(w, p) \subseteq Range(w.list)
  BY <1>1, <1>5 DEF Tabs, Sound
<1>7. \A p \in DOMAIN w.groups : At(w, p) # 0
  BY <1>1, <1>4 DEF Sound
<1>8. \A p : At(w, p) # 0 => At(w, p) \in Tabs(w, p)
  BY <1>4 DEF Tabs
<1>9. \A p, x : x \in Tabs(w, p) => p \in PaneIds(w)
  BY <1>1, <1>5 DEF Tabs, Sound
<1>10. \A p, q, x : x \in Tabs(w, p) /\ x \in Tabs(w, q) => p = q
  BY <1>4, <1>9
<1>11. \A x : x \in InPanes(w) => x = At(w, SlotOf(w, x)) /\ SlotOf(w, x) \in PaneIds(w) /\ x # 0
  BY <1>1, SlotFacts, View
<1>12. \A p, x : x \in Tabs(w, p) /\ x \in InPanes(w) => x = At(w, p)
  BY <1>8, <1>10, <1>11
<1> QED BY <1>1, <1>2, <1>3, <1>4, <1>5, <1>6, <1>7, <1>8, <1>9, <1>10, <1>11, <1>12

(* pane_id_for_session.                                                    *)
LEMMA PaneOfFacts ==
  ASSUME NEW w, Core(w), NEW s
  PROVE  /\ PaneOf(w, s) = 0 => s \notin InPanes(w) /\ \A p : s \notin Tabs(w, p)
         /\ PaneOf(w, s) # 0 => PaneOf(w, s) \in PaneIds(w) /\ s \in Tabs(w, PaneOf(w, s))
<1> DEFINE g == {p \in DOMAIN w.groups : s \in Range(w.groups[p].tabs)}
<1>1. CASE g # {}
  <2>1. PaneOf(w, s) \in g
    BY <1>1 DEF PaneOf
  <2>2. PaneOf(w, s) \in PaneIds(w) /\ s \in Tabs(w, PaneOf(w, s))
    BY <2>1 DEF Tabs, Core, Sound
  <2>3. 0 \notin PaneIds(w)
    BY CoreView, View
  <2> QED BY <2>2, <2>3
<1>2. CASE g = {} /\ s \in InPanes(w)
  <2>1. PaneOf(w, s) = SlotOf(w, s)
    BY <1>2 DEF PaneOf
  <2>2. s # 0
    BY <1>2 DEF InPanes, Nobody
  <2>3. 0 \notin PaneIds(w)
    BY CoreView, View
  <2> QED BY <1>2, <2>1, <2>2, <2>3, CoreView
<1>3. CASE g = {} /\ s \notin InPanes(w)
  <2>1. PaneOf(w, s) = 0
    BY <1>3 DEF PaneOf, NoPane
  <2>2. ASSUME NEW p, s \in Tabs(w, p) PROVE FALSE
    <3>1. p \notin DOMAIN w.groups
      BY <1>3, <2>2 DEF Tabs
    <3> QED BY <1>3, <2>2, <3>1, CoreView DEF Tabs
  <2> QED BY <1>3, <2>1, <2>2
<1> QED BY <1>1, <1>2, <1>3

(* One pane changes: what it shows, or its group.  The tabs it gains, S,   *)
(* are of no other pane; what gets into the overflow list was its own, or  *)
(* new.                                                                    *)
OnePaneChanges(w, v, p, S) ==
  /\ Shape(v) /\ p \in PaneIds(w)
  /\ v.mode = w.mode /\ Len(v.panes) = Len(w.panes) /\ PaneIds(v) = PaneIds(w)
  /\ v.focus \in PaneIds(w) \cup {0}
  /\ Range(w.list) \subseteq Range(v.list) /\ IsInjective(v.list) /\ 0 \notin Range(v.list)
  /\ v.hidden = w.hidden
  /\ DOMAIN v.groups \ {p} = DOMAIN w.groups \ {p}
  /\ \A q \in DOMAIN w.groups : q # p => v.groups[q] = w.groups[q]
  /\ \A q : q # p => At(v, q) = At(w, q)
  /\ p \in DOMAIN v.groups => /\ v.groups[p].active = At(v, p)
                              /\ v.groups[p].active \in Range(v.groups[p].tabs)
                              /\ IsInjective(v.groups[p].tabs) /\ Len(v.groups[p].tabs) > 1
  /\ S \subseteq Range(v.list) /\ \A s \in S : \A q : q # p => s \notin Tabs(w, q)
  /\ Tabs(v, p) \subseteq Tabs(w, p) \cup S
  /\ v.mode = "grid" =>
       \A x \in Range(v.overflow) :
         /\ x \in Range(v.list) /\ x # At(v, p)
         /\ x \in Range(w.overflow) \/ x \in Tabs(w, p) \/ x \notin Range(w.list)
         /\ p \in DOMAIN v.groups /\ Len(w.panes) > 1 => x \notin Range(v.groups[p].tabs)

(* Such a change keeps a workspace tidy.                                   *)
LEMMA OnePane ==
  ASSUME NEW w, Core(w), NEW v, NEW p, NEW S, OnePaneChanges(w, v, p, S)
  PROVE  Core(v) /\ \A q : q # p => Tabs(v, q) = Tabs(w, q)
<1> USE DEF OnePaneChanges
<1>1. Sound(w) /\ Neat(w) /\ Tidy(w)
  BY DEF Core
<1>2. ASSUME NEW q, q # p PROVE Tabs(v, q) = Tabs(w, q)
  BY <1>2 DEF Tabs
<1>3. \A q \in DOMAIN v.groups : q # p => q \in DOMAIN w.groups /\ v.groups[q] = w.groups[q]
  OBVIOUS
<1>4. At(v, p) # 0 => At(v, p) \in Tabs(v, p)
  BY DEF Tabs
<1>5. Tabs(v, p) \subseteq Range(v.list)
  BY CoreView
<1>6. InPanes(v) = {At(v, q) : q \in PaneIds(w)} \ {0} /\ InPanes(w) = {At(w, q) : q \in PaneIds(w)} \ {0}
  BY <1>1, View DEF Sound
<1>7. InPanes(v) \subseteq Range(v.list)
  <2> SUFFICES ASSUME NEW q \in PaneIds(w), At(v, q) # 0 PROVE At(v, q) \in Range(v.list)
    BY <1>6
  <2>1. CASE q = p
    BY <1>4, <1>5, <2>1
  <2>2. CASE q # p
    BY <1>1, <1>6, <2>2 DEF Sound
  <2> QED BY <2>1, <2>2
<1>8. w.mode \in {"grid", "split"} /\ v.overflow \in IdSeqs
  BY WorkspaceFields DEF Shape, Core, Sound
<1>9. Range(v.overflow) \subseteq Range(v.list)
  <2>1. CASE v.mode = "grid"
    BY <2>1
  <2>2. CASE v.mode = "split"
    BY <1>8, <2>2, IdSeqFacts DEF Shape
  <2> QED BY <1>8, <2>1, <2>2
<1>10. Sound(v)
  <2>1. DOMAIN v.groups \subseteq PaneIds(v)
    BY <1>1, <1>3 DEF Sound
  <2>2. ASSUME NEW q \in DOMAIN v.groups PROVE Range(v.groups[q].tabs) \subseteq Range(v.list)
    <3>1. CASE q = p
      BY <1>5, <3>1 DEF Tabs
    <3>2. CASE q # p
      BY <1>1, <1>3, <3>2 DEF Sound
    <3> QED BY <3>1, <3>2
  <2> QED BY <1>7, <1>9, <2>1, <2>2 DEF Sound
<1>11. Tidy(v)
  <2>1. ASSUME NEW q \in PaneIds(v), NEW r \in PaneIds(v), q # r, NEW x, x \in Tabs(v, q), x \in Tabs(v, r)
        PROVE  FALSE
    <3>1. CASE q # p /\ r # p
      BY <1>2, <2>1, <3>1, CoreView
    <3>2. CASE q = p
      BY <1>2, <2>1, <3>2, CoreView
    <3>3. CASE r = p
      BY <1>2, <2>1, <3>3, CoreView
    <3> QED BY <3>1, <3>2, <3>3
  <2>2. ASSUME NEW q \in DOMAIN v.groups
        PROVE  At(v, q) = v.groups[q].active /\ v.groups[q].active \in Range(v.groups[q].tabs)
    <3>1. CASE q = p
      BY <3>1
    <3>2. CASE q # p
      BY <1>1, <1>3, <3>2, TidyView DEF Sound
    <3> QED BY <3>1, <3>2
  <2> QED BY <2>1, <2>2, TidyView
<1>12. Neat(v)
  <2>1. \A q \in DOMAIN v.groups : IsInjective(v.groups[q].tabs) /\ Len(v.groups[q].tabs) > 1
    BY <1>1, <1>3 DEF Neat
  <2>2. ASSUME v.mode = "grid", NEW x \in Range(v.overflow)
        PROVE  x \notin InPanes(v) /\ (Len(v.panes) > 1 => x \notin GroupTabs(v))
    <3>1. x # At(v, p) /\ (x \in Range(w.overflow) \/ x \in Tabs(w, p) \/ x \notin Range(w.list))
      BY <2>2
    <3>2. ASSUME NEW q \in PaneIds(w), q # p, At(w, q) # 0 PROVE x # At(w, q)
      <4>1. CASE x \in Range(w.overflow)
        BY <1>1, <1>6, <2>2, <3>2, <4>1 DEF Neat
      <4>2. CASE x \in Tabs(w, p)
        BY <3>2, <4>2, CoreView
      <4>3. CASE x \notin Range(w.list)
        BY <3>2, <4>3, CoreView
      <4> QED BY <3>1, <4>1, <4>2, <4>3
    <3>3. x \notin InPanes(v)
      <4> SUFFICES ASSUME NEW q \in PaneIds(w), At(v, q) # 0, x = At(v, q) PROVE FALSE
        BY <1>6
      <4> QED BY <3>1, <3>2
    <3>4. ASSUME Len(v.panes) > 1, NEW q \in DOMAIN v.groups, x \in Range(v.groups[q].tabs) PROVE FALSE
      <4>1. q # p
        BY <2>2, <3>4
      <4>2. q \in DOMAIN w.groups /\ x \in Range(w.groups[q].tabs)
        BY <1>3, <3>4, <4>1
      <4>3. x \in Tabs(w, q)
        BY <4>2 DEF Tabs
      <4>4. x \notin Tabs(w, p) /\ x \in Range(w.list)
        BY <4>1, <4>3, CoreView
      <4>5. x \in Range(w.overflow) /\ x \in GroupTabs(w)
        BY <3>1, <4>2, <4>4 DEF GroupTabs
      <4> QED BY <1>1, <2>2, <3>4, <4>5 DEF Neat
    <3> QED BY <3>3, <3>4 DEF GroupTabs
  <2> QED BY <1>1, <2>1, <2>2 DEF Neat
<1> QED BY <1>2, <1>10, <1>11, <1>12 DEF Core

(* Nothing changes but the focus.                                          *)
LEMMA FocusKeeps ==
  ASSUME NEW w, NEW v, OnlyFocus(v, w)
  PROVE  /\ Sound(w) => Sound(v) /\ (Tidy(v) <=> Tidy(w)) /\ \A p : Tabs(v, p) = Tabs(w, p)
         /\ Sound(w) => (Neat(w) => Neat(v)) /\ (FullOrNone(w) => FullOrNone(v)) /\ (HiddenListed(w) => HiddenListed(v))
         /\ Core(w) => Core(v)
         /\ Good(w) => Good(v)
<1> SUFFICES ASSUME Sound(w)
             PROVE  /\ Sound(v) /\ (Tidy(v) <=> Tidy(w)) /\ \A p : Tabs(v, p) = Tabs(w, p)
                    /\ (Neat(w) => Neat(v)) /\ (FullOrNone(w) => FullOrNone(v)) /\ (HiddenListed(w) => HiddenListed(v))
  BY DEF Core, Good
<1>1. /\ Shape(v)
      /\ v.mode = w.mode /\ v.panes = w.panes /\ v.overflow = w.overflow /\ v.next = w.next
      /\ v.groups = w.groups /\ v.hidden = w.hidden /\ v.list = w.list
      /\ v.focus \in PaneIds(w) \cup {0, w.focus}
      /\ PaneIds(v) = PaneIds(w) /\ InPanes(v) = InPanes(w) /\ \A p : At(v, p) = At(w, p)
  BY OnlyFocusFacts DEF Sound
<1>2. Sound(v)
  BY <1>1 DEF Sound
<1>3. \A p : Tabs(v, p) = Tabs(w, p)
  BY <1>1 DEF Tabs
<1>4. Tidy(v) <=> Tidy(w)
  BY <1>1, <1>3, TidyView DEF Sound
<1>5. (Neat(w) => Neat(v)) /\ (FullOrNone(w) => FullOrNone(v)) /\ (HiddenListed(w) => HiddenListed(v))
  BY <1>1 DEF Neat, FullOrNone, HiddenListed, GroupTabs
<1> QED BY <1>2, <1>3, <1>4, <1>5

(***************************************************************************)
(* A session leaves its group, and the groups are cleaned up.              *)
(***************************************************************************)

(* What is said of the head of a sequence.                                 *)
LEMMA HeadFacts ==
  ASSUME NEW q \in Seq(Nat), q # <<>>
  PROVE  Head(q) \in Range(q) /\ Head(q) \in Nat /\ Len(q) > 0
<1>1. Head(q) = q[1] /\ 1 \in 1 .. Len(q) /\ Head(q) \in Nat
  OBVIOUS
<1>2. Range(q) = {q[i] : i \in 1 .. Len(q)}
  BY InRange
<1> QED BY <1>1, <1>2

(* A sequence of less than two elements and not empty.                     *)
LEMMA LessThanTwo ==
  ASSUME NEW q \in Seq(Nat), Len(q) < 2, NEW a \in Range(q)
  PROVE  Range(q) = {a}
<1>1. Range(q) = {q[i] : i \in 1 .. Len(q)}
  BY InRange
<1>2. PICK i \in 1 .. Len(q) : a = q[i]
  BY <1>1
<1>3. Len(q) = 1 /\ i = 1 /\ 1 .. Len(q) = {1}
  BY <1>2
<1> QED BY <1>1, <1>2, <1>3

(* v is what remove_session_from_pane_group makes of w, for the session s  *)
(* and its pane p: s is a tab of no group, and a pane that loses its       *)
(* active tab shows another.                                               *)
Left(v, w, p, s) ==
  /\ Core(v)
  /\ v.mode = w.mode /\ v.next = w.next /\ v.hidden = w.hidden /\ v.list = w.list
  /\ Len(v.panes) = Len(w.panes) /\ PaneIds(v) = PaneIds(w)
  /\ Range(v.overflow) \subseteq Range(w.overflow)
  /\ s \notin GroupTabs(v)
  /\ p \in DOMAIN w.groups => s \notin InPanes(v) /\ \A q : s \notin Tabs(v, q)
  /\ \A q : Tabs(v, q) \subseteq Tabs(w, q)
  /\ \A q : q # p => Tabs(v, q) = Tabs(w, q)
  /\ \A q : q # p => At(v, q) = At(w, q)
  /\ \A q : At(w, q) # 0 => At(v, q) # 0
  /\ \A q : At(v, q) # At(w, q) => At(w, q) = s
  /\ DOMAIN v.groups \subseteq DOMAIN w.groups
  /\ FullOrNone(w) => FullOrNone(v)

(* remove_session_from_pane_group.                                         *)
LEMMA LeaveGroupFacts ==
  ASSUME NEW w, Core(w), NEW s \in Nat
  PROVE  Left(LeaveGroup(w, PaneOf(w, s), s), w, PaneOf(w, s), s)
<1> USE DEF Left
<1> DEFINE p == PaneOf(w, s)
           v == LeaveGroup(w, p, s)
<1>0. Shape(w) /\ Sound(w) /\ Neat(w) /\ Tidy(w)
  BY DEF Core, Sound
<1>1. CASE p \notin DOMAIN w.groups
  <2>1. v = w
    BY <1>1 DEF LeaveGroup, Grouped
  <2>2. ASSUME s \in GroupTabs(w) PROVE FALSE
    <3>1. PICK q \in DOMAIN w.groups : s \in Range(w.groups[q].tabs)
      BY <2>2 DEF GroupTabs
    <3>2. s \in Tabs(w, q)
      BY <3>1 DEF Tabs
    <3>3. p # 0
      BY <3>2, PaneOfFacts
    <3>4. s \in Tabs(w, p)
      BY <3>3, PaneOfFacts
    <3>5. p = q
      BY <3>2, <3>4, CoreView
    <3> QED BY <1>1, <3>1, <3>5
  <2> HIDE DEF v, p
  <2> QED BY <1>1, <2>1, <2>2 DEF v, p
<1>2. CASE p \in DOMAIN w.groups
  <2> DEFINE g == w.groups[p]
             tabs == Retain(g.tabs, s)
             takesOver == g.active = s /\ tabs # <<>> /\ CanReplace(w, p, Head(tabs))
             w1 == IF takesOver THEN Replace(w, p, Head(tabs)) ELSE w
             a == IF takesOver THEN Head(tabs) ELSE g.active
  <2>1. /\ g \in StackRec /\ g.tabs \in Seq(Nat) /\ g.active \in Nat /\ g.active \in Range(g.tabs)
        /\ IsInjective(g.tabs) /\ Len(g.tabs) > 1 /\ At(w, p) = g.active /\ At(w, p) # 0
    <3>1. g \in StackRec
      BY <1>2, CoreView
    <3>2. g.tabs \in Seq(Nat) /\ g.active \in Nat
      BY <3>1, StackFacts
    <3>3. IsInjective(g.tabs) /\ Len(g.tabs) > 1
      BY <1>0, <1>2 DEF Neat
    <3>4. At(w, p) = g.active /\ At(w, p) # 0 /\ g.active \in Range(g.tabs)
      BY <1>2, CoreView, TidyView, <1>0
    <3> QED BY <3>1, <3>2, <3>3, <3>4
  <2>2. p \in PaneIds(w) /\ p \in Nat
    <3>1. p \in PaneIds(w)
      BY <1>0, <1>2 DEF Sound
    <3> QED BY <3>1, <1>0, View
  <2>3. /\ tabs \in Seq(Nat) /\ Range(tabs) = Range(g.tabs) \ {s} /\ IsInjective(tabs) /\ Range(tabs) # {}
        /\ tabs # <<>> /\ Head(tabs) \in Range(tabs) /\ Head(tabs) \in Nat
    <3> HIDE DEF g
    <3>1. tabs \in Seq(Nat) /\ Range(tabs) = Range(g.tabs) \ {s} /\ IsInjective(tabs)
      BY <2>1, RetainFacts
    <3>2. Range(tabs) # {}
      BY <2>1, <3>1, SomethingIsLeft
    <3> HIDE DEF tabs
    <3>3. tabs # <<>>
      BY <3>1, <3>2, InRange
    <3> QED BY <3>1, <3>2, <3>3, HeadFacts
  <2>4. Tabs(w, p) = Range(g.tabs)
    BY <1>2 DEF Tabs
  <2>5. g.active = s => CanReplace(w, p, Head(tabs))
    <3> SUFFICES ASSUME g.active = s, Head(tabs) \in InPanes(w) PROVE FALSE
      BY <2>2 DEF CanReplace
    <3>1. Head(tabs) \in Tabs(w, p) /\ Head(tabs) # s
      BY <2>3, <2>4
    <3> QED BY <2>1, <3>1, CoreView
  <2>6. takesOver <=> g.active = s
    BY <2>3, <2>5
  <2>7. a \in Range(tabs) /\ a \in Nat /\ a # s
    BY <2>1, <2>3, <2>6
  <2>8. /\ Shape(w1) /\ w1.mode = w.mode /\ w1.next = w.next /\ w1.groups = w.groups
        /\ w1.hidden = w.hidden /\ w1.list = w.list /\ w1.focus \in {w.focus, p}
        /\ Range(w1.overflow) \subseteq Range(w.overflow)
        /\ (w.mode = "grid" => a \notin Range(w1.overflow))
        /\ Len(w1.panes) = Len(w.panes) /\ PaneIds(w1) = PaneIds(w)
        /\ At(w1, p) = a /\ \A q : q # p => At(w1, q) = At(w, q)
    <3>1. CASE takesOver
      <4>1. w1 = Replace(w, p, a) /\ a \in Nat
        BY <3>1, <2>3
      <4> HIDE DEF w1, a, takesOver, tabs, g, p, v
      <4>2. Takes(w1, w, p, a) /\ w1.focus \in {w.focus, p}
        BY <1>0, <2>2, <4>1, ReplaceFacts
      <4>3. Range(w1.overflow) = IF w.mode = "grid" THEN Range(w.overflow) \ {a} ELSE {}
        BY <1>0, <2>2, <4>1, ReplaceFacts
      <4> QED BY <4>2, <4>3 DEF Takes
    <3>2. CASE ~ takesOver
      <4>1. w1 = w /\ a = g.active
        BY <3>2
      <4>2. a \in InPanes(w)
        BY <2>1, <4>1, CoreView
      <4> HIDE DEF w1, takesOver, tabs, g
      <4> QED BY <1>0, <2>1, <4>1, <4>2 DEF Neat
    <3> QED BY <3>1, <3>2
  <2>9. v = IF Len(tabs) < 2 THEN WithoutGroup(w1, p) ELSE WithGroup(w1, p, Stack(tabs, a))
    BY <1>2 DEF LeaveGroup, Grouped
  <2>10. Stack(tabs, a) \in StackRec /\ Stack(tabs, a).tabs = tabs /\ Stack(tabs, a).active = a
    <3> HIDE DEF tabs, a
    <3> QED BY <2>3, <2>7, StackOf
  <2> DEFINE st == Stack(tabs, a)
  <2> HIDE DEF p, w1, a, tabs, g, takesOver, st, v
  <2>11. /\ Shape(v) /\ v.mode = w.mode /\ v.next = w.next
         /\ v.hidden = w.hidden /\ v.list = w.list /\ v.focus \in {w.focus, p}
         /\ v.overflow = w1.overflow
         /\ Len(v.panes) = Len(w.panes) /\ PaneIds(v) = PaneIds(w)
         /\ At(v, p) = a /\ \A q : q # p => At(v, q) = At(w, q)
         /\ DOMAIN v.groups \ {p} = DOMAIN w.groups \ {p}
         /\ \A q \in DOMAIN w.groups : q # p => v.groups[q] = w.groups[q]
         /\ (p \in DOMAIN v.groups => v.groups[p].tabs = tabs /\ v.groups[p].active = a /\ Len(tabs) > 1)
         /\ Tabs(v, p) = Range(tabs)
    <3>1. CASE Len(tabs) < 2
      <4>1. v = WithoutGroup(w1, p)
        BY <2>9, <3>1
      <4>2. /\ Shape(v)
            /\ v.mode = w1.mode /\ v.panes = w1.panes /\ v.overflow = w1.overflow /\ v.focus = w1.focus
            /\ v.next = w1.next /\ v.hidden = w1.hidden /\ v.list = w1.list
            /\ PaneIds(v) = PaneIds(w1) /\ InPanes(v) = InPanes(w1) /\ \A x : At(v, x) = At(w1, x)
            /\ DOMAIN v.groups = DOMAIN w1.groups \ {p}
            /\ \A x \in DOMAIN w1.groups : x # p => v.groups[x] = w1.groups[x]
        BY <2>8, <4>1, WithoutGroupFacts
      <4>3. Range(tabs) = {a}
        BY <2>3, <2>7, <3>1, LessThanTwo
      <4>4. a # 0
        BY <1>0, <1>2, <2>3, <2>7 DEF Sound, g
      <4>5. Tabs(v, p) = Range(tabs)
        BY <2>8, <4>2, <4>3, <4>4 DEF Tabs
      <4> QED BY <2>8, <4>2, <4>5
    <3>2. CASE ~ Len(tabs) < 2
      <4>1. v = WithGroup(w1, p, st)
        BY <2>9, <3>2 DEF st
      <4>2. /\ Shape(v)
            /\ v.mode = w1.mode /\ v.panes = w1.panes /\ v.overflow = w1.overflow /\ v.focus = w1.focus
            /\ v.next = w1.next /\ v.hidden = w1.hidden /\ v.list = w1.list
            /\ PaneIds(v) = PaneIds(w1) /\ InPanes(v) = InPanes(w1) /\ \A x : At(v, x) = At(w1, x)
            /\ DOMAIN v.groups = DOMAIN w1.groups \cup {p}
            /\ v.groups[p] = st /\ \A x \in DOMAIN w1.groups : x # p => v.groups[x] = w1.groups[x]
        BY <2>2, <2>8, <2>10, <4>1, WithGroupFacts DEF st
      <4>3. v.groups[p].tabs = tabs /\ v.groups[p].active = a
        BY <2>10, <4>2 DEF st
      <4>4. Len(tabs) > 1
        BY <2>3, <3>2, InRange
      <4>5. Tabs(v, p) = Range(tabs)
        BY <4>2, <4>3 DEF Tabs
      <4> QED BY <2>8, <4>2, <4>3, <4>4, <4>5
    <3> QED BY <3>1, <3>2
  <2>12. Tabs(v, p) \subseteq Tabs(w, p) /\ s \notin Tabs(v, p)
    BY <2>3, <2>4, <2>11
  <2>13. v.mode = "grid" =>
           \A x \in Range(v.overflow) :
             /\ x \in Range(v.list) /\ x # At(v, p) /\ x \in Range(w.overflow)
             /\ p \in DOMAIN v.groups /\ Len(w.panes) > 1 => x \notin Range(v.groups[p].tabs)
    <3> SUFFICES ASSUME v.mode = "grid", NEW x \in Range(v.overflow)
                 PROVE  /\ x \in Range(v.list) /\ x # At(v, p) /\ x \in Range(w.overflow)
                        /\ p \in DOMAIN v.groups /\ Len(w.panes) > 1 => x \notin Range(v.groups[p].tabs)
      OBVIOUS
    <3>1. x \in Range(w.overflow) /\ x \in Range(v.list) /\ x # At(v, p)
      BY <1>0, <2>8, <2>11 DEF Sound
    <3>2. Len(w.panes) > 1 => x \notin Range(g.tabs)
      BY <1>0, <1>2, <2>11, <3>1 DEF Neat, GroupTabs, g
    <3> QED BY <2>3, <2>11, <3>1, <3>2
  <2>14. v.focus \in PaneIds(w) \cup {0}
    BY <1>0, <2>2, <2>11 DEF Sound
  <2>15. Core(v) /\ \A q : q # p => Tabs(v, q) = Tabs(w, q)
    <3>1. IsInjective(v.list) /\ 0 \notin Range(v.list) /\ Range(w.list) \subseteq Range(v.list)
      BY <1>0, <2>11 DEF Sound
    <3>2. p \in DOMAIN v.groups => /\ v.groups[p].active = At(v, p)
                                   /\ v.groups[p].active \in Range(v.groups[p].tabs)
                                   /\ IsInjective(v.groups[p].tabs) /\ Len(v.groups[p].tabs) > 1
      BY <2>3, <2>7, <2>11
    <3> DEFINE S == {}
    <3>3. /\ S \subseteq Range(v.list) /\ \A x \in S : \A q : q # p => x \notin Tabs(w, q)
          /\ Tabs(v, p) \subseteq Tabs(w, p) \cup S
      BY <2>12
    <3> HIDE DEF S
    <3>4. OnePaneChanges(w, v, p, S)
      BY <2>2, <2>11, <2>13, <2>14, <3>1, <3>2, <3>3 DEF OnePaneChanges
    <3> QED BY <3>4, OnePane
  <2>16. \A q : s \notin Tabs(v, q)
    <3> SUFFICES ASSUME NEW q, q # p, s \in Tabs(v, q) PROVE FALSE
      BY <2>12
    <3>1. s \in Tabs(w, q)
      BY <2>15
    <3>2. p # 0
      BY <3>1, PaneOfFacts DEF p
    <3>3. s \in Tabs(w, p)
      BY <3>2, PaneOfFacts DEF p
    <3> QED BY <3>1, <3>3, CoreView
  <2>17. s \notin GroupTabs(v) /\ s \notin InPanes(v)
    <3>1. s \notin GroupTabs(v)
      BY <2>16 DEF GroupTabs, Tabs
    <3>2. s \notin InPanes(v)
      <4> SUFFICES ASSUME s \in InPanes(v) PROVE FALSE
        OBVIOUS
      <4>1. s = At(v, SlotOf(v, s))
        BY <2>15, CoreView
      <4>2. s # 0
        BY DEF InPanes, Nobody
      <4> QED BY <2>15, <2>16, <4>1, <4>2, CoreView
    <3> QED BY <3>1, <3>2
  <2>18. a # 0 /\ \A q : At(w, q) # 0 => At(v, q) # 0
    <3>1. a # 0
      BY <1>0, <1>2, <2>3, <2>7 DEF Sound, g
    <3> QED BY <3>1, <2>11
  <2>19. \A q : At(v, q) # At(w, q) => At(w, q) = s
    <3>1. a # g.active => g.active = s
      BY DEF a, takesOver
    <3> QED BY <2>1, <2>11, <3>1
  <2>20. FullOrNone(w) => FullOrNone(v)
    <3>1. w.overflow = <<>> => v.overflow = <<>>
      <4>1. w.overflow \in IdSeqs /\ v.overflow \in IdSeqs
        BY <1>0, <2>11, WorkspaceFields DEF Shape
      <4> QED BY <2>8, <2>11, <4>1, IdSeqFacts
    <3> QED BY <2>11, <2>18, <3>1 DEF FullOrNone
  <2>21. DOMAIN v.groups \subseteq DOMAIN w.groups
    BY <1>2, <2>11
  <2>22. Range(v.overflow) \subseteq Range(w.overflow)
    BY <2>8, <2>11
  <2>23. \A q : Tabs(v, q) \subseteq Tabs(w, q)
    BY <2>12, <2>15
  <2> QED BY <2>11, <2>15, <2>16, <2>17, <2>18, <2>19, <2>20, <2>21, <2>22, <2>23 DEF p, v
<1> QED BY <1>1, <1>2

(* Stacks of which no two have a tab in common, each of a tab at least.    *)
Disjoint(q) ==
  /\ q \in StackSeqs
  /\ Stacked(q)
  /\ \A i, j \in DOMAIN q : \A x \in Range(q[i].tabs) : x \in Range(q[j].tabs) => i = j

(* A sequence of stacks, by its indices.                                   *)
LEMMA StackSeqFacts ==
  ASSUME NEW q \in StackSeqs
  PROVE  /\ q \in Seq(StackRec) /\ DOMAIN q = 1 .. Len(q) /\ Len(q) \in Nat
         /\ Range(q) = {q[i] : i \in DOMAIN q}
         /\ \A i \in DOMAIN q : /\ q[i] \in StackRec /\ q[i].tabs \in Seq(Nat) /\ q[i].active \in Nat
                                /\ q[i] = Stack(q[i].tabs, q[i].active)
                                /\ (q[i].tabs = <<>> <=> Range(q[i].tabs) = {})
                                /\ Range(q[i].tabs) \subseteq Nat
         /\ \A st \in Range(q) : st \in StackRec
<1>1. q \in Seq(StackRec)
  BY DEF StackSeqs
<1>2. DOMAIN q = 1 .. Len(q) /\ Len(q) \in Nat
  BY <1>1
<1>3. Range(q) = {q[i] : i \in DOMAIN q}
  BY DEF Range
<1>4. ASSUME NEW i \in DOMAIN q
      PROVE  /\ q[i] \in StackRec /\ q[i].tabs \in Seq(Nat) /\ q[i].active \in Nat
             /\ q[i] = Stack(q[i].tabs, q[i].active)
             /\ (q[i].tabs = <<>> <=> Range(q[i].tabs) = {})
             /\ Range(q[i].tabs) \subseteq Nat
  <2>1. q[i] \in StackRec
    BY <1>1
  <2>2. q[i].tabs \in Seq(Nat) /\ q[i].active \in Nat /\ q[i] = Stack(q[i].tabs, q[i].active)
        /\ Range(q[i].tabs) \subseteq Nat
    BY <2>1, StackFacts
  <2> DEFINE t == q[i].tabs
  <2>3. t \in Seq(Nat)
    BY <2>2
  <2> HIDE DEF t
  <2>4. t = <<>> <=> Range(t) = {}
    BY <2>3, InRange
  <2> QED BY <2>1, <2>2, <2>4 DEF t
<1> QED BY <1>1, <1>2, <1>3, <1>4

(* What is kept of the tabs of a stack.                                    *)
LEMMA KeptTabsFacts ==
  ASSUME NEW st \in StackRec, NEW S
  PROVE  LET k == KeptTabs(st, S) IN
         /\ k \in StackRec /\ k.tabs \in Seq(Nat)
         /\ Range(k.tabs) = Range(st.tabs) \cap S
         /\ IsInjective(st.tabs) => IsInjective(k.tabs)
         /\ st.active \in Range(st.tabs) /\ k.tabs # <<>> => k.active \in Range(k.tabs)
         /\ st.active \in Range(st.tabs) /\ Range(st.tabs) \subseteq S => k = st
<1> DEFINE t == RetainAll(st.tabs, S)
           a == IF st.active \in S \/ t = <<>> THEN st.active ELSE Head(t)
           k == KeptTabs(st, S)
<1>1. st.tabs \in Seq(Nat) /\ st.active \in Nat /\ st = Stack(st.tabs, st.active)
  BY StackFacts
<1>2. t \in Seq(Nat) /\ Range(t) = Range(st.tabs) \cap S
  BY <1>1, RetainAllRange
<1>3. IsInjective(st.tabs) => IsInjective(t)
  BY <1>1, RetainAllInjective
<1>4. Range(st.tabs) \subseteq S => t = st.tabs
  BY <1>1, RetainAllWhole
<1>5. k = Stack(t, a)
  BY DEF KeptTabs
<1> HIDE DEF t, k
<1>6. t # <<>> => Head(t) \in Range(t) /\ Head(t) \in Nat
  BY <1>2, HeadFacts
<1>7. a \in Nat
  BY <1>1, <1>6
<1>8. st.active \in Range(st.tabs) /\ t # <<>> => a \in Range(t)
  BY <1>2, <1>6
<1>9. st.active \in Range(st.tabs) /\ Range(st.tabs) \subseteq S => a = st.active
  OBVIOUS
<1> HIDE DEF a
<1>10. k \in StackRec /\ k.tabs = t /\ k.active = a
  BY <1>2, <1>5, <1>7, StackOf
<1>11. st.active \in Range(st.tabs) /\ Range(st.tabs) \subseteq S => k = st
  BY <1>1, <1>4, <1>5, <1>9
<1> QED BY <1>2, <1>3, <1>8, <1>10, <1>11 DEF k

(* The stacks that have a tab.                                             *)
LEMMA NonEmptyFacts ==
  ASSUME NEW k \in StackSeqs,
         \A i \in DOMAIN k : /\ IsInjective(k[i].tabs)
                             /\ k[i].tabs # <<>> => k[i].active \in Range(k[i].tabs),
         \A i, j \in DOMAIN k : \A x \in Range(k[i].tabs) : x \in Range(k[j].tabs) => i = j
  PROVE  /\ Disjoint(NonEmpty(k))
         /\ Range(NonEmpty(k)) = {st \in Range(k) : st.tabs # <<>>}
         /\ Held(NonEmpty(k)) = Held(k)
<1> DEFINE K == {st \in Range(k) : st.tabs # <<>>}
           u == RetainAll(k, K)
<1>1. k \in Seq(StackRec) /\ DOMAIN k = 1 .. Len(k)
  BY StackSeqFacts
<1>2. NonEmpty(k) = u
  BY DEF NonEmpty
<1>3. K \subseteq Range(k)
  OBVIOUS
<1> HIDE DEF K
<1>4. u \in Seq(StackRec) /\ Range(u) = K
  <2>1. u \in Seq(StackRec) /\ Range(u) = Range(k) \cap K
    BY <1>1, RetainAllRange
  <2> HIDE DEF u
  <2> QED BY <1>3, <2>1
<1>5. PICK at \in [1 .. Len(u) -> 1 .. Len(k)] :
         /\ \A i \in 1 .. Len(u) : u[i] = k[at[i]]
         /\ \A i, j \in 1 .. Len(u) : i < j => at[i] < at[j]
  BY <1>1, RetainAllEmbeds
<1> HIDE DEF u
<1>6. u \in StackSeqs /\ DOMAIN u = 1 .. Len(u) /\ Len(u) \in Nat
  BY <1>4, StackSeqFacts DEF StackSeqs
<1>7. ASSUME NEW i \in DOMAIN u PROVE IsInjective(u[i].tabs) /\ u[i].active \in Range(u[i].tabs)
  <2>1. at[i] \in DOMAIN k /\ u[i] = k[at[i]]
    BY <1>1, <1>5, <1>6
  <2>2. u[i] \in Range(u)
    BY DEF Range
  <2>3. u[i].tabs # <<>>
    BY <1>4, <2>2 DEF K
  <2> QED BY <2>1, <2>3
<1>8. ASSUME NEW i \in DOMAIN u, NEW j \in DOMAIN u, NEW x \in Range(u[i].tabs), x \in Range(u[j].tabs)
      PROVE  i = j
  <2>1. at[i] \in DOMAIN k /\ u[i] = k[at[i]] /\ at[j] \in DOMAIN k /\ u[j] = k[at[j]]
    BY <1>1, <1>5, <1>6
  <2>2. at[i] = at[j]
    BY <1>8, <2>1
  <2>3. ~ (i < j) /\ ~ (j < i)
    BY <1>1, <1>5, <1>6, <2>1, <2>2
  <2> QED BY <1>6, <2>3
<1>9. Disjoint(u)
  BY <1>6, <1>7, <1>8 DEF Disjoint, Stacked
<1>10. Held(u) = Held(k)
  <2>1. Held(u) = UNION {Range(st.tabs) : st \in Range(u)}
    BY DEF Held, Range
  <2>2. Held(k) = UNION {Range(st.tabs) : st \in Range(k)}
    BY DEF Held, Range
  <2>3. ASSUME NEW st \in Range(k), st.tabs = <<>> PROVE Range(st.tabs) = {}
    <3>1. PICK i \in DOMAIN k : st = k[i]
      BY DEF Range
    <3> QED BY <2>3, <3>1, StackSeqFacts
  <2>4. ASSUME NEW x PROVE x \in Held(u) <=> x \in Held(k)
    <3>1. x \in Held(u) <=> \E st \in Range(k) : st.tabs # <<>> /\ x \in Range(st.tabs)
      BY <1>4, <2>1 DEF K
    <3>2. x \in Held(k) <=> \E st \in Range(k) : x \in Range(st.tabs)
      BY <2>2
    <3> QED BY <2>3, <3>1, <3>2
  <2> QED BY <2>4
<1> QED BY <1>2, <1>4, <1>9, <1>10 DEF K

(* What the stacks of h have that is not claimed, and in S.                *)
LEMMA UnclaimedFacts ==
  ASSUME NEW h \in StackSeqs, Stacked(h), NEW C, NEW S
  PROVE  /\ Disjoint(Unclaimed(h, C, S))
         /\ Held(Unclaimed(h, C, S)) = Held(h) \cap (S \ C)
         /\ Disjoint(h) /\ Held(h) \subseteq S \ C => Unclaimed(h, C, S) = h
<1> DEFINE Before(i) == Held(SubSeq(h, 1, i - 1))
           k == [i \in DOMAIN h |-> KeptTabs(h[i], S \ (C \cup Before(i)))]
<1>1. h \in Seq(StackRec) /\ DOMAIN h = 1 .. Len(h) /\ Len(h) \in Nat /\ Range(h) = {h[i] : i \in DOMAIN h}
  BY StackSeqFacts
<1>2. \A i \in DOMAIN h : h[i] \in StackRec /\ (h[i].tabs = <<>> <=> Range(h[i].tabs) = {})
  BY StackSeqFacts
<1>3. ASSUME NEW i \in DOMAIN h
      PROVE  Before(i) = UNION {Range(h[j].tabs) : j \in 1 .. i - 1}
  <2> DEFINE b == SubSeq(h, 1, i - 1)
  <2>1. DOMAIN b = 1 .. i - 1 /\ \A j \in 1 .. i - 1 : b[j] = h[j]
    BY <1>1
  <2> HIDE DEF b
  <2>2. Held(b) = UNION {Range(h[j].tabs) : j \in 1 .. i - 1}
    BY <2>1 DEF Held
  <2> QED BY <2>2 DEF b
<1>4. Unclaimed(h, C, S) = NonEmpty(k)
  BY DEF Unclaimed
<1>5. \A i \in DOMAIN h : k[i] = KeptTabs(h[i], S \ (C \cup Before(i)))
  OBVIOUS
<1>6. k = [i \in DOMAIN h |-> k[i]] /\ DOMAIN k = DOMAIN h
  OBVIOUS
<1> HIDE DEF k, Before
<1>7. ASSUME NEW i \in DOMAIN h
      PROVE  /\ k[i] \in StackRec
             /\ Range(k[i].tabs) = Range(h[i].tabs) \cap (S \ (C \cup Before(i)))
             /\ IsInjective(k[i].tabs)
             /\ k[i].tabs # <<>> => k[i].active \in Range(k[i].tabs)
             /\ Range(h[i].tabs) \subseteq S \ (C \cup Before(i)) => k[i] = h[i]
  <2> DEFINE T == S \ (C \cup Before(i))
  <2>1. IsInjective(h[i].tabs) /\ h[i].active \in Range(h[i].tabs)
    BY DEF Stacked
  <2>2. k[i] = KeptTabs(h[i], T)
    BY <1>5
  <2> HIDE DEF T
  <2>3. /\ k[i] \in StackRec
        /\ Range(k[i].tabs) = Range(h[i].tabs) \cap T
        /\ IsInjective(k[i].tabs)
        /\ k[i].tabs # <<>> => k[i].active \in Range(k[i].tabs)
        /\ Range(h[i].tabs) \subseteq T => k[i] = h[i]
    BY <1>2, <2>1, <2>2, KeptTabsFacts
  <2> QED BY <2>3 DEF T
<1>8. k \in StackSeqs
  <2>1. k \in [1 .. Len(h) -> StackRec]
    BY <1>1, <1>6, <1>7
  <2> QED BY <1>1, <2>1, FunctionIsSeq DEF StackSeqs
<1>9. ASSUME NEW i \in DOMAIN k, NEW j \in DOMAIN k, NEW x \in Range(k[i].tabs), x \in Range(k[j].tabs)
      PROVE  i = j
  <2>1. x \in Range(h[i].tabs) /\ x \in Range(h[j].tabs) /\ x \notin Before(i) /\ x \notin Before(j)
    BY <1>6, <1>7, <1>9
  <2>2. i \in 1 .. Len(h) /\ j \in 1 .. Len(h)
    BY <1>1, <1>6
  <2>3. ~ (i < j)
    <3>1. i < j => i \in 1 .. j - 1
      BY <2>2
    <3> QED BY <1>3, <1>6, <2>1, <3>1
  <2>4. ~ (j < i)
    <3>1. j < i => j \in 1 .. i - 1
      BY <2>2
    <3> QED BY <1>3, <1>6, <2>1, <3>1
  <2> QED BY <2>2, <2>3, <2>4
<1>10. Disjoint(NonEmpty(k)) /\ Held(NonEmpty(k)) = Held(k) /\ Range(NonEmpty(k)) = {st \in Range(k) : st.tabs # <<>>}
  BY <1>6, <1>7, <1>8, <1>9, NonEmptyFacts
<1>11. Held(k) = Held(h) \cap (S \ C)
  <2>1. Held(k) = UNION {Range(k[i].tabs) : i \in DOMAIN h} /\ Held(h) = UNION {Range(h[i].tabs) : i \in DOMAIN h}
    BY <1>6 DEF Held
  <2>2. Held(k) \subseteq Held(h) \cap (S \ C)
    BY <1>7, <2>1
  <2>3. ASSUME NEW x \in Held(h) \cap (S \ C) PROVE x \in Held(k)
    <3> DEFINE B == {i \in DOMAIN h : x \in Range(h[i].tabs)}
    <3>1. B # {} /\ B \subseteq Nat
      BY <1>1, <2>1
    <3>2. PICK i \in B : \A j \in B : i <= j
      BY <3>1, LeastOne
    <3>3. x \notin Before(i)
      <4>1. i \in DOMAIN h /\ \A j \in 1 .. i - 1 : j \in DOMAIN h /\ ~ (i <= j)
        BY <1>1
      <4> QED BY <1>3, <3>2, <4>1
    <3> QED BY <1>7, <2>1, <3>2, <3>3
  <2> QED BY <2>2, <2>3
<1>12. ASSUME Disjoint(h), Held(h) \subseteq S \ C PROVE NonEmpty(k) = h
  <2>1. ASSUME NEW i \in DOMAIN h PROVE k[i] = h[i] /\ h[i].tabs # <<>>
    <3>1. ASSUME NEW x \in Range(h[i].tabs) PROVE x \in S \ C /\ x \notin Before(i)
      <4>1. x \in Held(h)
        BY DEF Held
      <4>2. \A j \in 1 .. i - 1 : j \in DOMAIN h /\ j # i
        BY <1>1
      <4>3. \A j \in 1 .. i - 1 : x \notin Range(h[j].tabs)
        BY <1>12, <4>2 DEF Disjoint
      <4> QED BY <1>3, <1>12, <4>1, <4>3
    <3>2. h[i].active \in Range(h[i].tabs)
      BY DEF Stacked
    <3> QED BY <1>2, <1>7, <3>1, <3>2
  <2>2. k = h
    BY <1>1, <1>6, <2>1
  <2>3. Range(h) \subseteq {st \in Range(h) : st.tabs # <<>>}
    BY <1>1, <2>1
  <2> QED BY <1>1, <2>2, <2>3, RetainAllWhole DEF NonEmpty
<1> QED BY <1>4, <1>10, <1>11, <1>12

(* What is left of Tidy when a pane without a group may show a tab of      *)
(* another pane's group; and the groups of which no inactive tab is in B.  *)
Loose(w) ==
  /\ Sound(w) /\ Neat(w)
  /\ \A p \in DOMAIN w.groups : /\ At(w, p) = w.groups[p].active
                                /\ w.groups[p].active \in Range(w.groups[p].tabs)
  /\ \A p, q \in DOMAIN w.groups : \A x \in Range(w.groups[p].tabs) : x \in Range(w.groups[q].tabs) => p = q
  /\ \A p, q \in PaneIds(w) : At(w, p) = At(w, q) /\ At(w, p) # 0 => p = q

(* A tab of a group that is in B is the one its pane shows.                *)
OnlyActive(w, B) == \A p \in DOMAIN w.groups : \A x \in Range(w.groups[p].tabs) : x \in B => x = At(w, p)

(* A tidy workspace is one whose inactive tabs no pane shows.              *)
LEMMA CoreIsLoose ==
  ASSUME NEW w
  PROVE  Core(w) <=> Loose(w) /\ OnlyActive(w, InPanes(w))
<1>1. ASSUME Core(w) PROVE Loose(w) /\ OnlyActive(w, InPanes(w))
  <2>1. Sound(w) /\ Neat(w) /\ Shape(w)
    BY <1>1 DEF Core, Sound
  <2>2. ASSUME NEW p \in DOMAIN w.groups
        PROVE  At(w, p) = w.groups[p].active /\ w.groups[p].active \in Range(w.groups[p].tabs)
    BY <1>1, <2>1, TidyView DEF Core
  <2>3. ASSUME NEW p \in DOMAIN w.groups, NEW q \in DOMAIN w.groups, NEW x \in Range(w.groups[p].tabs),
               x \in Range(w.groups[q].tabs)
        PROVE  p = q
    <3>1. x \in Tabs(w, p) /\ x \in Tabs(w, q)
      BY <2>3 DEF Tabs
    <3> QED BY <1>1, <3>1, CoreView
  <2>4. ASSUME NEW p \in PaneIds(w), NEW q \in PaneIds(w), At(w, p) = At(w, q), At(w, p) # 0 PROVE p = q
    <3>1. At(w, p) \in Tabs(w, p) /\ At(w, p) \in Tabs(w, q)
      BY <1>1, <2>4, CoreView
    <3> QED BY <1>1, <3>1, CoreView
  <2>5. OnlyActive(w, InPanes(w))
    <3> SUFFICES ASSUME NEW p \in DOMAIN w.groups, NEW x \in Range(w.groups[p].tabs), x \in InPanes(w)
                 PROVE  x = At(w, p)
      BY DEF OnlyActive
    <3>1. x \in Tabs(w, p)
      BY DEF Tabs
    <3> QED BY <1>1, <3>1, CoreView
  <2> QED BY <2>1, <2>2, <2>3, <2>4, <2>5 DEF Loose
<1>2. ASSUME Loose(w), OnlyActive(w, InPanes(w)) PROVE Core(w)
  <2>1. Sound(w) /\ Neat(w) /\ Shape(w)
    BY <1>2 DEF Loose, Sound
  <2>2. ASSUME NEW p \in PaneIds(w), NEW q \in PaneIds(w), NEW x \in Tabs(w, p), x \in Tabs(w, q) PROVE p = q
    <3>1. ASSUME NEW r \in PaneIds(w), x \in Tabs(w, r), r \notin DOMAIN w.groups
          PROVE  x = At(w, r) /\ x \in InPanes(w) /\ x # 0
      <4>1. x = At(w, r) /\ x # 0
        BY <3>1 DEF Tabs
      <4> QED BY <2>1, <4>1, View
    <3>2. CASE p \in DOMAIN w.groups /\ q \in DOMAIN w.groups
      BY <1>2, <2>2, <3>2 DEF Loose, Tabs
    <3>3. CASE p \in DOMAIN w.groups /\ q \notin DOMAIN w.groups
      <4>1. x = At(w, q) /\ x # 0 /\ x \in InPanes(w)
        BY <2>2, <3>1, <3>3
      <4>2. x = At(w, p)
        BY <1>2, <3>3, <4>1 DEF OnlyActive, Tabs
      <4> QED BY <1>2, <4>1, <4>2 DEF Loose
    <3>4. CASE p \notin DOMAIN w.groups /\ q \in DOMAIN w.groups
      <4>1. x = At(w, p) /\ x # 0 /\ x \in InPanes(w)
        BY <2>2, <3>1, <3>4
      <4>2. x = At(w, q)
        BY <1>2, <2>2, <3>4, <4>1 DEF OnlyActive, Tabs
      <4> QED BY <1>2, <4>1, <4>2 DEF Loose
    <3>5. CASE p \notin DOMAIN w.groups /\ q \notin DOMAIN w.groups
      <4>1. x = At(w, p) /\ x = At(w, q) /\ x # 0
        BY <2>2, <3>1, <3>5
      <4> QED BY <1>2, <4>1 DEF Loose
    <3> QED BY <3>2, <3>3, <3>4, <3>5
  <2>3. Tidy(w)
    <3>1. \A p, q \in PaneIds(w) : p # q => Tabs(w, p) \cap Tabs(w, q) = {}
      BY <2>2
    <3> QED BY <1>2, <2>1, <3>1, TidyView DEF Loose
  <2> QED BY <2>1, <2>3 DEF Core
<1> QED BY <1>1, <1>2

(* v is what cleanup_pane_tab_groups makes of w: the groups stay, and the  *)
(* hidden stacks have what no pane does.                                   *)
TidiedUp(v, w) ==
  /\ Shape(v)
  /\ v.mode = w.mode /\ v.panes = w.panes /\ v.overflow = w.overflow /\ v.focus = w.focus
  /\ v.next = w.next /\ v.groups = w.groups /\ v.list = w.list
  /\ PaneIds(v) = PaneIds(w) /\ InPanes(v) = InPanes(w) /\ \A p : At(v, p) = At(w, p)
  /\ Disjoint(v.hidden) /\ Held(v.hidden) \subseteq Range(w.list)

(* cleanup_pane_tab_groups makes it.                                       *)
LEMMA CleanedUpFacts ==
  ASSUME NEW w, Shape(w), DOMAIN w.groups \subseteq PaneIds(w), Stacked(w.hidden),
         \A p \in DOMAIN w.groups : /\ Range(w.groups[p].tabs) \subseteq Range(w.list)
                                    /\ w.groups[p].active \in Range(w.groups[p].tabs)
                                    /\ Len(w.groups[p].tabs) > 1
  PROVE  /\ TidiedUp(CleanedUp(w), w)
         /\ /\ Disjoint(w.hidden) /\ Held(w.hidden) \subseteq Range(w.list)
            /\ \A p \in PaneIds(w) : Tabs(w, p) \cap Held(w.hidden) = {}
            => CleanedUp(w).hidden = w.hidden
<1> DEFINE L == Range(w.list)
           kept == [p \in DOMAIN w.groups \cap PaneIds(w) |-> KeptTabs(w.groups[p], L)]
           K == {p \in DOMAIN kept : Len(kept[p].tabs) > 1}
           C == UNION {Range(TabsOf(w, p)) : p \in PaneIds(w)}
           h == Unclaimed(w.hidden, C, L)
<1>1. /\ w \in Workspace /\ w.groups \in Groupings /\ w.hidden \in StackSeqs
      /\ w.groups = [p \in DOMAIN w.groups |-> w.groups[p]]
      /\ \A p \in DOMAIN w.groups : w.groups[p] \in StackRec
  <2>1. w \in Workspace /\ w.groups \in Groupings /\ w.hidden \in StackSeqs
    BY WorkspaceFields DEF Shape
  <2> QED BY <2>1, GroupingFacts
<1>2. \A p \in DOMAIN w.groups : KeptTabs(w.groups[p], L) = w.groups[p]
  BY <1>1, KeptTabsFacts
<1>3. kept = w.groups
  <2>1. DOMAIN w.groups \cap PaneIds(w) = DOMAIN w.groups
    OBVIOUS
  <2> QED BY <1>1, <1>2, <2>1
<1>4. Restrict(kept, K) = w.groups
  <2>1. \A p \in DOMAIN kept : Len(kept[p].tabs) > 1
    BY <1>3
  <2>2. K = DOMAIN w.groups
    BY <1>3, <2>1
  <2> HIDE DEF K, kept
  <2> QED BY <1>1, <1>3, <2>2 DEF Restrict
<1>5. CleanedGroups(w) = w
  <2>1. CleanedGroups(w) = [w EXCEPT !.groups = Restrict(kept, K)]
    BY DEF CleanedGroups
  <2>2. CleanedGroups(w) = [w EXCEPT !.groups = w.groups]
    BY <1>4, <2>1
  <2> QED BY <1>1, <2>2 DEF Workspace
<1> HIDE DEF kept, K
<1>6. CleanedUp(w) = [w EXCEPT !.hidden = h]
  BY <1>5 DEF CleanedUp, CleanedHidden
<1> HIDE DEF C
<1>7. /\ Disjoint(h) /\ Held(h) = Held(w.hidden) \cap (L \ C)
      /\ Disjoint(w.hidden) /\ Held(w.hidden) \subseteq L \ C => h = w.hidden
  BY <1>1, UnclaimedFacts
<1>8. C = UNION {Tabs(w, p) : p \in PaneIds(w)}
  BY TidyView DEF C
<1> HIDE DEF h
<1>9. h \in StackSeqs
  BY <1>7 DEF Disjoint
<1> DEFINE v == [w EXCEPT !.hidden = h]
<1>10. /\ Shape(v) /\ v.hidden = h
       /\ v.mode = w.mode /\ v.panes = w.panes /\ v.overflow = w.overflow /\ v.focus = w.focus
       /\ v.next = w.next /\ v.groups = w.groups /\ v.list = w.list
       /\ PaneIds(v) = PaneIds(w) /\ InPanes(v) = InPanes(w) /\ \A p : At(v, p) = At(w, p)
  BY <1>9, SetHidden
<1> HIDE DEF v
<1>11. TidiedUp(v, w)
  BY <1>7, <1>10 DEF TidiedUp
<1>12. CleanedUp(w) = v
  BY <1>6 DEF v
<1>13. ASSUME Disjoint(w.hidden), Held(w.hidden) \subseteq Range(w.list),
              \A p \in PaneIds(w) : Tabs(w, p) \cap Held(w.hidden) = {}
       PROVE  v.hidden = w.hidden
  BY <1>7, <1>8, <1>10, <1>13
<1> QED BY <1>11, <1>12, <1>13

(* What holds before the clean-up holds after it.                          *)
LEMMA CleanedKeeps ==
  ASSUME NEW w, NEW v, TidiedUp(v, w)
  PROVE  /\ \A p : Tabs(v, p) = Tabs(w, p)
         /\ HiddenListed(v)
         /\ Sound(w) => Sound(v)
         /\ Sound(w) => (Tidy(v) <=> Tidy(w))
         /\ FullOrNone(w) => FullOrNone(v)
         /\ Loose(w) => Loose(v)
         /\ Core(w) => Core(v)
         /\ Core(w) /\ FullOrNone(w) => Good(v)
         /\ \A B : OnlyActive(w, B) => OnlyActive(v, B)
         /\ GroupTabs(v) = GroupTabs(w)
<1> USE DEF TidiedUp
<1>1. \A p : Tabs(v, p) = Tabs(w, p)
  BY DEF Tabs
<1>2. HiddenListed(v)
  BY DEF HiddenListed, Held
<1>3. Sound(w) => Sound(v)
  BY DEF Sound
<1>4. Sound(w) => (Tidy(v) <=> Tidy(w))
  BY <1>1, TidyView DEF Sound
<1>5. FullOrNone(w) => FullOrNone(v)
  BY DEF FullOrNone
<1>6. Neat(w) => Neat(v)
  <2>1. Stacked(v.hidden)
    BY DEF Disjoint
  <2> QED BY <2>1 DEF Neat, GroupTabs
<1>7. Loose(w) => Loose(v)
  BY <1>3, <1>6 DEF Loose
<1>8. Core(w) => Core(v)
  BY <1>3, <1>4, <1>6 DEF Core
<1>9. \A B : OnlyActive(w, B) => OnlyActive(v, B)
  BY DEF OnlyActive
<1>10. GroupTabs(v) = GroupTabs(w)
  BY DEF GroupTabs
<1> QED BY <1>1, <1>2, <1>3, <1>4, <1>5, <1>7, <1>8, <1>9, <1>10 DEF Good

(* The clean-up of a workspace that may be untidy.                         *)
LEMMA CleanedLoose ==
  ASSUME NEW w, Loose(w)
  PROVE  TidiedUp(CleanedUp(w), w)
BY CleanedUpFacts DEF Loose, Sound, Neat

(***************************************************************************)
(* close_session. The tree promotes every session without a slot, which is *)
(* how a tab of a group may get a slot of its own: Loose is what is left   *)
(* of Tidy then.                                                           *)
(***************************************************************************)

(* A session that is in no group leaves the panes, the overflow list and   *)
(* the list of the sessions.                                               *)
Removed(w, s) == Unlisted(LayoutRemove(w, s), s)

(* What is left is as tidy as before.                                      *)
LEMMA RemovedFacts ==
  ASSUME NEW w, Loose(w), NEW s \in Nat, s \notin GroupTabs(w)
  PROVE  LET v == Removed(w, s) IN
         /\ Loose(v)
         /\ \A B : OnlyActive(w, B) => OnlyActive(v, B)
         /\ Core(w) => Core(v)
         /\ v.mode = w.mode /\ Len(v.panes) = Len(w.panes) /\ v.groups = w.groups
         /\ Range(v.list) = Range(w.list) \ {s}
         /\ InPanes(v) \subseteq InPanes(w)
<1> DEFINE u == LayoutRemove(w, s)
           l == Retain(u.list, s)
           v == Removed(w, s)
<1>1. Sound(w) /\ Neat(w) /\ Shape(w)
  BY DEF Loose, Sound
<1>2. /\ Shape(u)
      /\ u.mode = w.mode /\ u.next = w.next /\ u.groups = w.groups /\ u.hidden = w.hidden /\ u.list = w.list
      /\ u.focus \in PaneIds(w) \cup {0}
      /\ Range(u.overflow) = IF s \in InPanes(w) THEN Range(w.overflow) ELSE Range(w.overflow) \ {s}
      /\ Len(u.panes) = Len(w.panes) /\ PaneIds(u) = PaneIds(w)
      /\ \A q : At(u, q) = IF s \in InPanes(w) /\ q = SlotOf(w, s) THEN 0 ELSE At(w, q)
  BY <1>1, LayoutRemoveFacts DEF Sound
<1>3. u.list \in IdSeqs /\ l \in IdSeqs /\ Range(l) = Range(w.list) \ {s} /\ IsInjective(l)
  <2>1. u.list \in IdSeqs
    BY <1>2, WorkspaceFields DEF Shape
  <2>2. l \in IdSeqs /\ Range(l) = Range(u.list) \ {s}
    BY <2>1, IdSeqFacts
  <2>3. u.list \in Seq(Nat) /\ IsInjective(u.list)
    BY <1>1, <1>2, <2>1 DEF Sound, IdSeqs
  <2>4. IsInjective(l)
    BY <2>3, RetainFacts
  <2> HIDE DEF u, l
  <2> QED BY <1>2, <2>1, <2>2, <2>4
<1>4. v = [u EXCEPT !.list = l]
  BY DEF Removed, Unlisted
<1> HIDE DEF u, l, v
<1>5. /\ Shape(v) /\ v.list = l
      /\ v.mode = u.mode /\ v.panes = u.panes /\ v.overflow = u.overflow /\ v.focus = u.focus
      /\ v.next = u.next /\ v.groups = u.groups /\ v.hidden = u.hidden
      /\ PaneIds(v) = PaneIds(u) /\ InPanes(v) = InPanes(u) /\ \A p : At(v, p) = At(u, p)
  BY <1>2, <1>3, <1>4, SetList
<1>6. ASSUME NEW p, At(v, p) # 0 PROVE At(v, p) = At(w, p) /\ At(v, p) # s /\ p \in PaneIds(w)
  <2>1. At(v, p) = At(w, p) /\ ~ (s \in InPanes(w) /\ p = SlotOf(w, s))
    BY <1>2, <1>5, <1>6
  <2>2. p \in PaneIds(w) /\ At(w, p) \in InPanes(w)
    BY <1>1, <1>6, <2>1, View
  <2>3. ASSUME At(w, p) = s PROVE FALSE
    <3>1. s \in InPanes(w) /\ p # SlotOf(w, s)
      BY <2>1, <2>2, <2>3
    <3>2. SlotOf(w, s) \in PaneIds(w) /\ At(w, SlotOf(w, s)) = s
      BY <1>1, <3>1, SlotFacts
    <3> QED BY <1>6, <2>1, <2>2, <2>3, <3>1, <3>2 DEF Loose
  <2> QED BY <2>1, <2>2, <2>3
<1>7. InPanes(v) \subseteq InPanes(w) \ {s}
  <2>1. InPanes(v) = {At(v, p) : p \in PaneIds(v)} \ {0} /\ InPanes(w) = {At(w, p) : p \in PaneIds(w)} \ {0}
    BY <1>1, <1>5, View
  <2> QED BY <1>6, <2>1
<1>8. ASSUME NEW p \in DOMAIN w.groups PROVE At(v, p) = At(w, p) /\ s \notin Range(w.groups[p].tabs)
  <2>1. s \notin Range(w.groups[p].tabs)
    BY DEF GroupTabs
  <2>2. At(w, p) # s
    BY <2>1 DEF Loose
  <2>3. s \in InPanes(w) => At(w, SlotOf(w, s)) = s
    BY <1>1, SlotFacts
  <2> QED BY <1>2, <1>5, <2>1, <2>2, <2>3
<1>9. Range(v.overflow) \subseteq Range(w.overflow) \ {s}
  <2>1. CASE s \in InPanes(w) /\ w.mode = "grid"
    BY <1>1, <1>2, <1>5, <2>1 DEF Neat
  <2>2. CASE w.mode = "split"
    <3>1. v.overflow = <<>> /\ v.overflow \in IdSeqs
      BY <1>2, <1>5, <2>2, WorkspaceFields DEF Shape
    <3> QED BY <3>1, IdSeqFacts
  <2>3. CASE s \notin InPanes(w)
    BY <1>2, <1>5, <2>3
  <2>4. w.mode \in {"grid", "split"}
    BY <1>1, WorkspaceFields DEF Shape
  <2> QED BY <2>1, <2>2, <2>3, <2>4
<1>10. GroupTabs(v) = GroupTabs(w)
  BY <1>2, <1>5 DEF GroupTabs
<1>11. Sound(v)
  <2>1. \A p \in DOMAIN v.groups : Range(v.groups[p].tabs) \subseteq Range(v.list)
    BY <1>1, <1>2, <1>3, <1>5, <1>8 DEF Sound
  <2> QED BY <1>1, <1>2, <1>3, <1>5, <1>7, <1>9, <2>1 DEF Sound
<1>12. Neat(v)
  BY <1>1, <1>2, <1>5, <1>7, <1>9, <1>10 DEF Neat
<1>13. Loose(v)
  <2>1. \A p \in DOMAIN v.groups : /\ At(v, p) = v.groups[p].active
                                   /\ v.groups[p].active \in Range(v.groups[p].tabs)
    BY <1>2, <1>5, <1>8 DEF Loose
  <2>2. \A p, q \in DOMAIN v.groups : \A x \in Range(v.groups[p].tabs) : x \in Range(v.groups[q].tabs) => p = q
    BY <1>2, <1>5 DEF Loose
  <2>3. \A p, q \in PaneIds(v) : At(v, p) = At(v, q) /\ At(v, p) # 0 => p = q
    BY <1>2, <1>5, <1>6 DEF Loose
  <2> QED BY <1>11, <1>12, <2>1, <2>2, <2>3 DEF Loose
<1>14. \A B : OnlyActive(w, B) => OnlyActive(v, B)
  BY <1>2, <1>5, <1>8 DEF OnlyActive
<1>15. Core(w) => Core(v)
  <2> SUFFICES ASSUME Core(w) PROVE Core(v)
    OBVIOUS
  <2>1. OnlyActive(v, InPanes(w))
    BY <1>14, CoreIsLoose
  <2>2. OnlyActive(v, InPanes(v))
    BY <1>7, <2>1 DEF OnlyActive
  <2> QED BY <1>13, <2>2, CoreIsLoose
<1> QED BY <1>2, <1>3, <1>5, <1>7, <1>13, <1>14, <1>15 DEF v

(* A layout has a pane.                                                    *)
LEMMA PaneCount ==
  ASSUME NEW w, Shape(w)
  PROVE  Len(w.panes) \in Nat /\ Len(w.panes) # 0 /\ DOMAIN w.panes = 1 .. Len(w.panes)
<1>1. w.panes \in PaneSeqs /\ w.panes # <<>>
  BY WorkspaceFields DEF Shape
<1> QED BY <1>1, PaneSeqFacts

(* The pane of a layout that has no other.                                 *)
LEMMA OnlyPane ==
  ASSUME NEW w, Shape(w), Len(w.panes) = 1, NEW p \in PaneIds(w), NEW q \in PaneIds(w)
  PROVE  p = q
<1>1. PICK i \in DOMAIN w.panes : w.panes[i].id = p
  BY View
<1>2. PICK j \in DOMAIN w.panes : w.panes[j].id = q
  BY View
<1>3. DOMAIN w.panes = 1 .. Len(w.panes)
  BY WorkspaceFields, PaneSeqFacts DEF Shape
<1> QED BY <1>1, <1>2, <1>3

(* v is w with hidden sessions in some of its empty cells.                 *)
Promoted(v, w) ==
  /\ Core(v)
  /\ v.mode = w.mode /\ v.hidden = w.hidden /\ v.list = w.list /\ v.groups = w.groups
  /\ Len(v.panes) = Len(w.panes) /\ PaneIds(v) = PaneIds(w)
  /\ Range(v.overflow) \subseteq Range(w.overflow)
  /\ \A q : At(w, q) # 0 => At(v, q) = At(w, q)

(* What holds before a promotion holds after it, and two are one.          *)
LEMMA PromotedKeeps ==
  ASSUME NEW w, NEW v, Promoted(v, w)
  PROVE  /\ FullOrNone(w) => FullOrNone(v)
         /\ HiddenListed(w) => HiddenListed(v)
         /\ GroupTabs(v) = GroupTabs(w)
         /\ \A u : Promoted(u, v) => Promoted(u, w)
<1>1. FullOrNone(w) => FullOrNone(v)
  <2> SUFFICES ASSUME FullOrNone(w), v.mode = "grid", Len(v.panes) = 1, At(v, 1) = 0 PROVE v.overflow = <<>>
    BY DEF FullOrNone
  <2>1. At(w, 1) = 0 /\ w.mode = "grid" /\ Len(w.panes) = 1
    BY DEF Promoted
  <2>2. w.overflow = <<>>
    BY <2>1 DEF FullOrNone
  <2>3. Range(w.overflow) = {}
    BY <2>2 DEF Range
  <2>4. Range(v.overflow) = {} /\ v.overflow \in IdSeqs
    BY <2>3, WorkspaceFields DEF Promoted, Core, Sound, Shape
  <2> QED BY <2>4, IdSeqFacts
<1>2. HiddenListed(w) => HiddenListed(v)
  BY DEF HiddenListed, Promoted
<1>3. GroupTabs(v) = GroupTabs(w)
  BY DEF GroupTabs, Promoted
<1>4. \A u : Promoted(u, v) => Promoted(u, w)
  BY DEF Promoted
<1> QED BY <1>1, <1>2, <1>3, <1>4

(* The promotion of one hidden session into the first empty cell.          *)
LEMMA PromoteHeadFacts ==
  ASSUME NEW w, Core(w), w.mode = "grid", NEW s \in Range(w.list), Len(w.panes) > 1 => s \notin GroupTabs(w)
  PROVE  /\ Promoted(PromoteHead(w, s), w)
         /\ FirstPane(w, TRUE) # 0 /\ Head(w.overflow) = s /\ s \notin InPanes(w)
            => At(PromoteHead(w, s), FirstPane(w, TRUE)) = s
<1> DEFINE p == FirstPane(w, TRUE)
           v == Assign(w, p, s)
<1>1. Sound(w) /\ Neat(w) /\ Shape(w)
  BY DEF Core, Sound
<1>2. CASE ~ (p # 0 /\ Head(w.overflow) = s /\ s \notin InPanes(w))
  <2>1. PromoteHead(w, s) = w
    BY <1>2 DEF PromoteHead, NoPane
  <2> HIDE DEF p
  <2> QED BY <1>2, <2>1 DEF Promoted, p
<1>3. CASE p # 0 /\ Head(w.overflow) = s /\ s \notin InPanes(w)
  <2>1. p \in PaneIds(w) /\ At(w, p) = 0
    BY <1>1, <1>3, FirstPaneFacts
  <2>2. PromoteHead(w, s) = v
    BY <1>3 DEF PromoteHead, NoPane
  <2> HIDE DEF p
  <2>3. s \in Nat /\ s # 0
    BY <1>1, WorkspaceFields, IdSeqFacts DEF Shape, Sound
  <2>4. Takes(v, w, p, s) /\ v.focus = w.focus /\ Range(v.overflow) = Range(w.overflow) \ {s}
    BY <1>1, <2>1, <2>3, AssignFacts
  <2> HIDE DEF v
  <2>5. p \notin DOMAIN w.groups
    BY <2>1, CoreView
  <2> DEFINE S == {s}
  <2>6. ASSUME NEW q, q # p, s \in Tabs(w, q) PROVE FALSE
    <3>1. q \in PaneIds(w)
      BY <2>6, CoreView
    <3>2. q \in DOMAIN w.groups
      <4> SUFFICES ASSUME q \notin DOMAIN w.groups PROVE FALSE
        OBVIOUS
      <4>1. s = At(w, q)
        BY <2>6 DEF Tabs
      <4> QED BY <1>3, <2>3, <4>1, CoreView
    <3>3. s \in GroupTabs(w)
      BY <2>6, <3>2 DEF GroupTabs, Tabs
    <3>4. Len(w.panes) = 1
      <4> DEFINE n == Len(w.panes)
      <4>1. n \in Nat /\ n # 0
        BY <1>1, PaneCount
      <4>2. ~ n > 1
        BY <3>3
      <4> HIDE DEF n
      <4>3. n = 1
        BY <4>1, <4>2
      <4> QED BY <4>3 DEF n
    <3> QED BY <1>1, <2>1, <2>6, <3>1, <3>4, OnlyPane
  <2>7. Tabs(v, p) \subseteq S
    BY <2>4, <2>5 DEF Tabs, Takes
  <2>8. S \subseteq Range(v.list) /\ \A x \in S : \A q : q # p => x \notin Tabs(w, q)
    BY <2>4, <2>6 DEF Takes
  <2>9. \A x \in Range(v.overflow) : /\ x \in Range(v.list) /\ x # At(v, p)
                                     /\ x \in Range(w.overflow)
    BY <1>1, <2>4 DEF Takes, Sound
  <2> HIDE DEF S
  <2>10. OnePaneChanges(w, v, p, S)
    BY <1>1, <2>1, <2>4, <2>5, <2>7, <2>8, <2>9 DEF OnePaneChanges, Takes, Sound
  <2>11. Core(v)
    BY <2>10, OnePane
  <2>12. Promoted(v, w)
    BY <2>1, <2>4, <2>11 DEF Promoted, Takes
  <2> QED BY <2>2, <2>4, <2>12 DEF p, Takes
<1> QED BY <1>2, <1>3

(* add_session, one after the other: f has what becomes of w.              *)
AddsUp(f, w, q, T) ==
  /\ AddAll(w, q) = f[Len(q)] /\ f[0] = w
  /\ \A i \in 0 .. Len(q) : f[i] \in T
  /\ \A i \in 1 .. Len(q) : f[i] = LayoutAdd(f[i - 1], q[i])

(* There is such a function, as the recursive one of AddAll.               *)
LEMMA AddAllUnfolds ==
  ASSUME NEW w, NEW q, Len(q) \in Nat, NEW T, w \in T,
         \A v \in T : \A i \in 1 .. Len(q) : LayoutAdd(v, q[i]) \in T
  PROVE  \E f : AddsUp(f, w, q, T)
<1> DEFINE n == Len(q)
           IsIt(f) == f = [i \in 0 .. n |-> IF i = 0 THEN w ELSE LayoutAdd(f[i - 1], q[i])]
           found == CHOOSE f : IsIt(f)
<1>1. AddAll(w, q) = found[n]
  BY Zenon DEF AddAll
<1>2. n \in Nat
  OBVIOUS
<1>3. \E f : IsIt(f)
  <2> DEFINE step == [i \in 1 .. n |-> [v \in T |-> LayoutAdd(v, q[i])]]
  <2>1. step \in [1 .. n -> [T -> T]]
    OBVIOUS
  <2>2. \A i \in 1 .. n : \A v \in T : step[i][v] = LayoutAdd(v, q[i])
    OBVIOUS
  <2> HIDE DEF step, n
  <2>3. PICK f : Iterates(f, T, n, w, step)
    BY <1>2, <2>1, Iteration
  <2> USE DEF Iterates
  <2>4. ASSUME NEW i \in 0 .. n, i # 0 PROVE f[i] = LayoutAdd(f[i - 1], q[i])
    <3>1. i \in 1 .. n /\ i - 1 \in 0 .. n
      BY <1>2, <2>4
    <3>2. f[i - 1] \in T
      BY <2>3, <3>1
    <3> QED BY <2>2, <2>3, <3>1, <3>2
  <2>5. IsIt(f)
    BY <2>3, <2>4, Zenon
  <2> QED BY <2>5
<1>4. IsIt(found)
  <2> HIDE DEF IsIt
  <2> QED BY <1>3
<1> HIDE DEF found, n
<1>5. found[0] = w
  BY <1>2, <1>4
<1>6. ASSUME NEW i \in 1 .. n PROVE found[i] = LayoutAdd(found[i - 1], q[i])
  BY <1>2, <1>4
<1> DEFINE N == {i \in Nat : i <= n => found[i] \in T}
<1>7. 0 \in N
  BY <1>5
<1>8. ASSUME NEW i \in Nat, i \in N PROVE i + 1 \in N
  <2> SUFFICES ASSUME i + 1 <= n PROVE found[i + 1] \in T
    OBVIOUS
  <2>1. i + 1 \in 1 .. n /\ (i + 1) - 1 = i /\ found[i] \in T
    BY <1>2, <1>8
  <2>2. found[i + 1] = LayoutAdd(found[i], q[i + 1])
    BY <1>6, <2>1
  <2> QED BY <2>1, <2>2 DEF n
<1>9. \A i \in Nat : i \in N
  <2> HIDE DEF N
  <2> QED BY <1>7, <1>8, NatSetInduction
<1>10. \A i \in 0 .. n : found[i] \in T
  BY <1>2, <1>9
<1>11. AddsUp(found, w, q, T)
  BY <1>1, <1>5, <1>6, <1>10 DEF n, AddsUp
<1> QED BY <1>11

(* The promotion of the hidden sessions, one after the other.              *)
PromotesUp(f, w, T) ==
  LET n == Len(w.overflow) IN
  /\ PromoteGrid(w) = IF w.mode = "split" THEN w ELSE FocusSomething(f[n])
  /\ f[0] = w
  /\ \A i \in 0 .. n : f[i] \in T
  /\ \A i \in 1 .. n : f[i] = PromoteHead(f[i - 1], w.overflow[i])

(* There is such a function, as the recursive one of PromoteGrid.          *)
LEMMA PromoteGridUnfolds ==
  ASSUME NEW w, Len(w.overflow) \in Nat, NEW T, w \in T,
         \A v \in T : \A i \in 1 .. Len(w.overflow) : PromoteHead(v, w.overflow[i]) \in T
  PROVE  \E f : PromotesUp(f, w, T)
<1> DEFINE n == Len(w.overflow)
           IsIt(f) == f = [i \in 0 .. n |-> IF i = 0 THEN w ELSE PromoteHead(f[i - 1], w.overflow[i])]
           found == CHOOSE f : IsIt(f)
<1>1. PromoteGrid(w) = IF w.mode = "split" THEN w ELSE FocusSomething(found[n])
  BY Zenon DEF PromoteGrid
<1>2. n \in Nat
  OBVIOUS
<1>3. \E f : IsIt(f)
  <2> DEFINE step == [i \in 1 .. n |-> [v \in T |-> PromoteHead(v, w.overflow[i])]]
  <2>1. step \in [1 .. n -> [T -> T]]
    OBVIOUS
  <2>2. \A i \in 1 .. n : \A v \in T : step[i][v] = PromoteHead(v, w.overflow[i])
    OBVIOUS
  <2> HIDE DEF step, n
  <2>3. PICK f : Iterates(f, T, n, w, step)
    BY <1>2, <2>1, Iteration
  <2> USE DEF Iterates
  <2>4. ASSUME NEW i \in 0 .. n, i # 0 PROVE f[i] = PromoteHead(f[i - 1], w.overflow[i])
    <3>1. i \in 1 .. n /\ i - 1 \in 0 .. n
      BY <1>2, <2>4
    <3>2. f[i - 1] \in T
      BY <2>3, <3>1
    <3> QED BY <2>2, <2>3, <3>1, <3>2
  <2>5. IsIt(f)
    BY <2>3, <2>4, Zenon
  <2> QED BY <2>5
<1>4. IsIt(found)
  <2> HIDE DEF IsIt
  <2> QED BY <1>3
<1> HIDE DEF found, n
<1>5. found[0] = w
  BY <1>2, <1>4
<1>6. ASSUME NEW i \in 1 .. n PROVE found[i] = PromoteHead(found[i - 1], w.overflow[i])
  BY <1>2, <1>4
<1> DEFINE N == {i \in Nat : i <= n => found[i] \in T}
<1>7. 0 \in N
  BY <1>5
<1>8. ASSUME NEW i \in Nat, i \in N PROVE i + 1 \in N
  <2> SUFFICES ASSUME i + 1 <= n PROVE found[i + 1] \in T
    OBVIOUS
  <2>1. i + 1 \in 1 .. n /\ (i + 1) - 1 = i /\ found[i] \in T
    BY <1>2, <1>8
  <2>2. found[i + 1] = PromoteHead(found[i], w.overflow[i + 1])
    BY <1>6, <2>1
  <2> QED BY <2>1, <2>2 DEF n
<1>9. \A i \in Nat : i \in N
  <2> HIDE DEF N
  <2> QED BY <1>7, <1>8, NatSetInduction
<1>10. \A i \in 0 .. n : found[i] \in T
  BY <1>2, <1>9
<1>11. PromotesUp(found, w, T)
  BY Zenon, <1>1, <1>5, <1>6, <1>10 DEF PromotesUp, n
<1> QED BY <1>11

(* remove_session, one after the other.                                    *)
RemovesDown(f, w, q, T) ==
  /\ RemoveAll(w, q) = f[Len(q)] /\ f[0] = w
  /\ \A i \in 0 .. Len(q) : f[i] \in T
  /\ \A i \in 1 .. Len(q) : f[i] = RemoveSession(f[i - 1], q[i])

(* There is such a function, as the recursive one of RemoveAll.            *)
LEMMA RemoveAllUnfolds ==
  ASSUME NEW w, NEW q, Len(q) \in Nat, NEW T, w \in T,
         \A v \in T : \A i \in 1 .. Len(q) : RemoveSession(v, q[i]) \in T
  PROVE  \E f : RemovesDown(f, w, q, T)
<1> DEFINE n == Len(q)
           IsIt(f) == f = [i \in 0 .. n |-> IF i = 0 THEN w ELSE RemoveSession(f[i - 1], q[i])]
           found == CHOOSE f : IsIt(f)
<1>1. RemoveAll(w, q) = found[n]
  BY Zenon DEF RemoveAll
<1>2. n \in Nat
  OBVIOUS
<1>3. \E f : IsIt(f)
  <2> DEFINE step == [i \in 1 .. n |-> [v \in T |-> RemoveSession(v, q[i])]]
  <2>1. step \in [1 .. n -> [T -> T]]
    OBVIOUS
  <2>2. \A i \in 1 .. n : \A v \in T : step[i][v] = RemoveSession(v, q[i])
    OBVIOUS
  <2> HIDE DEF step, n
  <2>3. PICK f : Iterates(f, T, n, w, step)
    BY <1>2, <2>1, Iteration
  <2> USE DEF Iterates
  <2>4. ASSUME NEW i \in 0 .. n, i # 0 PROVE f[i] = RemoveSession(f[i - 1], q[i])
    <3>1. i \in 1 .. n /\ i - 1 \in 0 .. n
      BY <1>2, <2>4
    <3>2. f[i - 1] \in T
      BY <2>3, <3>1
    <3> QED BY <2>2, <2>3, <3>1, <3>2
  <2>5. IsIt(f)
    BY <2>3, <2>4, Zenon
  <2> QED BY <2>5
<1>4. IsIt(found)
  <2> HIDE DEF IsIt
  <2> QED BY <1>3
<1> HIDE DEF found, n
<1>5. found[0] = w
  BY <1>2, <1>4
<1>6. ASSUME NEW i \in 1 .. n PROVE found[i] = RemoveSession(found[i - 1], q[i])
  BY <1>2, <1>4
<1> DEFINE N == {i \in Nat : i <= n => found[i] \in T}
<1>7. 0 \in N
  BY <1>5
<1>8. ASSUME NEW i \in Nat, i \in N PROVE i + 1 \in N
  <2> SUFFICES ASSUME i + 1 <= n PROVE found[i + 1] \in T
    OBVIOUS
  <2>1. i + 1 \in 1 .. n /\ (i + 1) - 1 = i /\ found[i] \in T
    BY <1>2, <1>8
  <2>2. found[i + 1] = RemoveSession(found[i], q[i + 1])
    BY <1>6, <2>1
  <2> QED BY <2>1, <2>2 DEF n
<1>9. \A i \in Nat : i \in N
  <2> HIDE DEF N
  <2> QED BY <1>7, <1>8, NatSetInduction
<1>10. \A i \in 0 .. n : found[i] \in T
  BY <1>2, <1>9
<1>11. RemovesDown(found, w, q, T)
  BY <1>1, <1>5, <1>6, <1>10 DEF n, RemovesDown
<1> QED BY <1>11

(* promote_hidden_sessions_into_grid_slots: a grid of one cell that is     *)
(* empty gets a hidden session if there is one.                            *)
LEMMA PromoteGridFacts ==
  ASSUME NEW w, Core(w), HiddenListed(w)
  PROVE  /\ w.mode = "split" => PromoteGrid(w) = w
         /\ w.mode = "grid" => /\ Good(PromoteGrid(w))
                               /\ PromoteGrid(w).mode = "grid"
                               /\ PromoteGrid(w).list = w.list /\ PromoteGrid(w).groups = w.groups
<1>1. CASE w.mode = "split"
  BY <1>1, Zenon DEF PromoteGrid
<1>2. CASE w.mode = "grid"
  <2> DEFINE n == Len(w.overflow)
             T == {v \in Workspace : Promoted(v, w)}
  <2>0. Sound(w) /\ Neat(w) /\ Shape(w) /\ w \in Workspace
    BY DEF Core, Sound, Shape
  <2>1. /\ n \in Nat /\ w.overflow \in IdSeqs
        /\ \A i \in 1 .. n : w.overflow[i] \in Range(w.overflow) /\ w.overflow[i] \in Range(w.list)
    <3>1. w.overflow \in IdSeqs
      BY <2>0, WorkspaceFields
    <3>2. Range(w.overflow) = {w.overflow[i] : i \in 1 .. n} /\ n \in Nat
      BY <3>1, InRange DEF IdSeqs
    <3> QED BY <2>0, <3>1, <3>2 DEF Sound
  <2>2. w \in T
    BY <2>0 DEF Promoted
  <2>3. ASSUME NEW v \in T, NEW i \in 1 .. n
        PROVE  /\ PromoteHead(v, w.overflow[i]) \in T
               /\ Promoted(PromoteHead(v, w.overflow[i]), v)
    <3> DEFINE s == w.overflow[i]
               u == PromoteHead(v, s)
    <3>1. Promoted(v, w)
      OBVIOUS
    <3>2. s \in Range(w.overflow) /\ s \in Range(v.list)
      BY <2>1, <3>1 DEF Promoted
    <3>3. Len(v.panes) > 1 => s \notin GroupTabs(v)
      BY <1>2, <2>0, <3>1, <3>2, PromotedKeeps DEF Neat, Promoted
    <3>4. Core(v) /\ v.mode = "grid"
      BY <1>2, <3>1 DEF Promoted
    <3>5. Promoted(u, v)
      BY <3>2, <3>3, <3>4, PromoteHeadFacts
    <3>6. Promoted(u, w)
      BY <3>1, <3>5, PromotedKeeps
    <3>7. u \in Workspace
      BY <3>6 DEF Promoted, Core, Sound, Shape
    <3> QED BY <3>5, <3>6, <3>7
  <2>20. PICK f : PromotesUp(f, w, T)
    <3> HIDE DEF T
    <3> QED BY <2>1, <2>2, <2>3, PromoteGridUnfolds
  <2>4. /\ PromoteGrid(w) = (IF w.mode = "split" THEN w ELSE FocusSomething(f[n]))
        /\ f[0] = w
        /\ \A i \in 0 .. n : f[i] \in T
        /\ \A i \in 1 .. n : f[i] = PromoteHead(f[i - 1], w.overflow[i])
    BY Zenon, <2>20 DEF PromotesUp
  <2>5. PromoteGrid(w) = FocusSomething(f[n])
    BY <1>2, <2>4
  <2>6. Promoted(f[n], w)
    BY <2>1, <2>4
  <2>7. FullOrNone(f[n])
    <3>1. CASE FullOrNone(w)
      BY <2>6, <3>1, PromotedKeeps
    <3>2. CASE ~ FullOrNone(w)
      <4>1. Len(w.panes) = 1 /\ At(w, 1) = 0 /\ w.overflow # <<>>
        BY <3>2 DEF FullOrNone
      <4>2. n # 0
        BY <2>1, <4>1 DEF IdSeqs
      <4> DEFINE p == FirstPane(w, TRUE)
                 s == w.overflow[1]
      <4>3. PaneIds(w) = {1}
        <5>1. DOMAIN w.panes = {1}
          BY <2>0, <4>1, PaneCount
        <5>2. w.panes[1].id = 1
          BY <1>2, <2>0, <5>1 DEF Shape
        <5> QED BY <5>1, <5>2 DEF PaneIds
      <4>4. p = 1
        <5>1. p # 0
          BY <2>0, <4>1, <4>3, FirstPaneFacts
        <5> QED BY <2>0, <4>3, <5>1, FirstPaneFacts
      <4>5. Head(w.overflow) = s /\ s \in Range(w.overflow) /\ s \in Range(w.list) /\ s # 0
        <5>1. 1 \in 1 .. n
          BY <2>1, <4>2
        <5> QED BY <2>0, <2>1, <5>1 DEF IdSeqs, Sound
      <4>6. s \notin InPanes(w)
        BY <1>2, <2>0, <4>5 DEF Neat
      <4>7. At(PromoteHead(w, s), p) = s
        <5> HIDE DEF s
        <5>1. ~ Len(w.panes) > 1
          BY <4>1
        <5>2. p # 0
          <6> HIDE DEF p
          <6> QED BY <4>4
        <5>3. s \in Range(w.list) /\ Head(w.overflow) = s
          BY <4>5
        <5> HIDE DEF p
        <5> QED BY <1>2, <4>6, <5>1, <5>2, <5>3, PromoteHeadFacts DEF p
      <4>8. f[1] = PromoteHead(w, s)
        <5>1. 1 \in 1 .. n /\ 1 - 1 = 0
          BY <2>1, <4>2
        <5> QED BY <2>4, <5>1
      <4>9. FullOrNone(f[1])
        BY <4>4, <4>5, <4>7, <4>8 DEF FullOrNone
      <4> DEFINE N == {i \in Nat : 1 <= i /\ i <= n => FullOrNone(f[i])}
      <4>10. 0 \in N
        OBVIOUS
      <4>11. ASSUME NEW i \in Nat, i \in N PROVE i + 1 \in N
        <5> SUFFICES ASSUME i # 0, i + 1 <= n PROVE FullOrNone(f[i + 1])
          BY <4>9
        <5>1. i + 1 \in 1 .. n /\ (i + 1) - 1 = i /\ i \in 0 .. n /\ FullOrNone(f[i])
          BY <2>1, <4>11
        <5>2. f[i + 1] = PromoteHead(f[i], w.overflow[i + 1]) /\ f[i] \in T
          BY <2>4, <5>1
        <5>3. Promoted(f[i + 1], f[i])
          BY <2>3, <5>1, <5>2
        <5> QED BY <5>1, <5>3, PromotedKeeps
      <4>12. \A i \in Nat : i \in N
        <5> HIDE DEF N
        <5> QED BY <4>10, <4>11, NatSetInduction
      <4> QED BY <2>1, <4>2, <4>12
    <3> QED BY <3>1, <3>2
  <2> DEFINE g == f[n]
             r == FocusSomething(g)
  <2>8. Good(g) /\ Shape(g)
    BY <2>6, <2>7, PromotedKeeps DEF Good, Promoted, Core, Sound
  <2>9. g.mode = "grid" /\ g.list = w.list /\ g.groups = w.groups
    BY <1>2, <2>6 DEF Promoted
  <2> HIDE DEF g
  <2>10. OnlyFocus(r, g)
    BY <2>8, FocusOps
  <2> HIDE DEF r
  <2>11. Good(r) /\ r.mode = g.mode /\ r.list = g.list /\ r.groups = g.groups
    BY <2>8, <2>10, FocusKeeps, OnlyFocusFacts
  <2> QED BY <1>2, <2>5, <2>9, <2>11 DEF r, g
<1>3. w.mode \in {"grid", "split"}
  BY CoreView
<1> QED BY <1>1, <1>2, <1>3

(* v is w with listed sessions in some of the empty leaves of the tree.    *)
Seated(v, w) ==
  /\ Loose(v)
  /\ v.mode = w.mode /\ v.hidden = w.hidden /\ v.list = w.list /\ v.groups = w.groups
  /\ Len(v.panes) = Len(w.panes) /\ PaneIds(v) = PaneIds(w)
  /\ \A q : At(w, q) # 0 => At(v, q) = At(w, q)

(* What holds before sessions are seated holds after it, and two seatings  *)
(* are one.                                                                *)
LEMMA SeatedKeeps ==
  ASSUME NEW w, Loose(w), NEW v, Seated(v, w)
  PROVE  /\ HiddenListed(w) => HiddenListed(v)
         /\ GroupTabs(v) = GroupTabs(w)
         /\ \A B : OnlyActive(w, B) => OnlyActive(v, B)
         /\ \A u : Seated(u, v) => Seated(u, w)
<1>1. HiddenListed(w) => HiddenListed(v)
  BY DEF HiddenListed, Seated
<1>2. GroupTabs(v) = GroupTabs(w)
  BY DEF GroupTabs, Seated
<1>3. \A p \in DOMAIN w.groups : At(w, p) # 0
  BY DEF Loose, Sound
<1>4. \A B : OnlyActive(w, B) => OnlyActive(v, B)
  BY <1>3 DEF OnlyActive, Seated
<1>5. \A u : Seated(u, v) => Seated(u, w)
  BY DEF Seated
<1> QED BY <1>1, <1>2, <1>4, <1>5

(* add_session of the layout seats a listed session.                       *)
LEMMA LayoutAddSeats ==
  ASSUME NEW w, Loose(w), w.mode = "split", NEW s \in Range(w.list)
  PROVE  Seated(LayoutAdd(w, s), w)
<1> DEFINE p == FirstPane(w, TRUE)
           v == Put(w, p, s)
<1>1. Sound(w) /\ Neat(w) /\ Shape(w)
  BY DEF Loose, Sound
<1>2. CASE ~ (s \notin InPanes(w) \cup Range(w.overflow) /\ p # 0)
  <2>1. LayoutAdd(w, s) = w
    BY <1>2, Zenon DEF LayoutAdd, NoPane
  <2> QED BY <2>1 DEF Seated
<1>3. CASE s \notin InPanes(w) \cup Range(w.overflow) /\ p # 0
  <2>1. LayoutAdd(w, s) = v
    BY <1>3 DEF LayoutAdd, NoPane
  <2>2. p \in PaneIds(w) /\ At(w, p) = 0
    BY <1>1, <1>3, FirstPaneFacts
  <2> HIDE DEF p
  <2>3. s \in Nat /\ s # 0
    BY <1>1, WorkspaceFields, IdSeqFacts DEF Shape, Sound
  <2>4. /\ Shape(v)
        /\ v.mode = w.mode /\ v.overflow = w.overflow /\ v.focus = w.focus /\ v.next = w.next
        /\ v.groups = w.groups /\ v.hidden = w.hidden /\ v.list = w.list
        /\ Len(v.panes) = Len(w.panes) /\ PaneIds(v) = PaneIds(w)
        /\ At(v, p) = s
        /\ \A q : q # p => At(v, q) = At(w, q)
    BY <1>1, <2>2, <2>3, PutFacts
  <2> HIDE DEF v
  <2>5. p \notin DOMAIN w.groups
    BY <1>1, <2>2 DEF Loose, Sound
  <2>6. InPanes(v) = {At(v, q) : q \in PaneIds(w)} \ {0} /\ InPanes(w) = {At(w, q) : q \in PaneIds(w)} \ {0}
    BY <1>1, <2>4, View
  <2>7. InPanes(v) \subseteq InPanes(w) \cup {s}
    BY <2>4, <2>6
  <2>8. Sound(v)
    BY <1>1, <2>4, <2>7 DEF Sound
  <2>9. Neat(v)
    BY <1>1, <2>4 DEF Neat
  <2>10. ASSUME NEW q \in PaneIds(v), NEW r \in PaneIds(v), At(v, q) = At(v, r), At(v, q) # 0 PROVE q = r
    <3>1. \A x \in PaneIds(w) : At(w, x) # s
      BY <1>3, <2>3, <2>6
    <3>2. q = p <=> At(v, q) = s
      BY <2>4, <3>1
    <3>3. r = p <=> At(v, r) = s
      BY <2>4, <3>1
    <3> QED BY <2>4, <2>10, <3>2, <3>3 DEF Loose
  <2>11. Loose(v)
    <3>1. \A q \in DOMAIN v.groups : At(v, q) = v.groups[q].active /\ v.groups[q].active \in Range(v.groups[q].tabs)
      BY <2>4, <2>5 DEF Loose
    <3> QED BY <2>4, <2>8, <2>9, <2>10, <3>1 DEF Loose
  <2> QED BY <2>1, <2>2, <2>4, <2>11 DEF Seated
<1> QED BY <1>2, <1>3

(* promote_hidden_sessions_into_split_slots.                               *)
LEMMA PromoteSplitFacts ==
  ASSUME NEW w, Loose(w)
  PROVE  LET v == PromoteSplit(w) IN
         /\ w.mode = "grid" => v = w
         /\ v.mode = w.mode /\ v.list = w.list /\ v.groups = w.groups
         /\ Loose(v)
         /\ HiddenListed(w) => HiddenListed(v)
         /\ \A B : OnlyActive(w, B) => OnlyActive(v, B)
<1> DEFINE v == PromoteSplit(w)
           waiting == RetainAll(w.list, Range(w.list) \ InPanes(w))
<1>1. w.mode \in {"grid", "split"} /\ Shape(w) /\ w.list \in IdSeqs /\ w \in Workspace
  BY WorkspaceFields DEF Loose, Sound, Shape
<1>2. CASE w.mode = "grid" \/ FirstPane(w, TRUE) = NoPane \/ waiting = <<>>
  <2>1. v = w
    BY <1>2, Zenon DEF PromoteSplit
  <2> HIDE DEF v
  <2> QED BY <2>1 DEF v
<1>3. CASE ~ (w.mode = "grid" \/ FirstPane(w, TRUE) = NoPane \/ waiting = <<>>)
  <2>1. v = FocusSomething(AddAll(w, waiting)) /\ w.mode = "split"
    <3>1. v = FocusSomething(AddAll(w, waiting))
      BY <1>3, Zenon DEF PromoteSplit
    <3> QED BY <1>1, <1>3, <3>1
  <2>2. waiting \in Seq(Nat) /\ Range(waiting) \subseteq Range(w.list)
    <3>1. w.list \in Seq(Nat)
      BY <1>1 DEF IdSeqs
    <3>2. waiting \in Seq(Nat) /\ Range(waiting) = Range(w.list) \cap (Range(w.list) \ InPanes(w))
      BY <3>1, RetainAllRange
    <3> QED BY <3>2
  <2> HIDE DEF waiting
  <2> DEFINE n == Len(waiting)
             T == {u \in Workspace : Seated(u, w)}
  <2>3. n \in Nat /\ \A i \in 1 .. n : waiting[i] \in Range(w.list)
    <3>1. Len(waiting) \in Nat
      BY <2>2
    <3>2. \A i \in 1 .. Len(waiting) : waiting[i] \in Range(waiting)
      BY <2>2 DEF Range
    <3> QED BY <2>2, <3>1, <3>2
  <2>4. w \in T
    <3>1. Seated(w, w)
      BY Zenon DEF Seated
    <3> QED BY <1>1, <3>1
  <2>5. ASSUME NEW u \in T, NEW i \in 1 .. n PROVE LayoutAdd(u, waiting[i]) \in T
    <3> DEFINE s == waiting[i]
               r == LayoutAdd(u, s)
    <3>1. Seated(u, w) /\ Loose(u) /\ u.mode = "split" /\ s \in Range(u.list)
      BY <2>1, <2>3 DEF Seated
    <3>2. Seated(r, u)
      BY <3>1, LayoutAddSeats
    <3>3. Seated(r, w)
      BY <3>1, <3>2, SeatedKeeps
    <3>4. r \in Workspace
      BY <3>3 DEF Seated, Loose, Sound, Shape
    <3> QED BY <3>3, <3>4
  <2>6. PICK f : AddAll(w, waiting) = f[n] /\ \A i \in 0 .. n : f[i] \in T
    <3> HIDE DEF T
    <3>1. \E f : AddsUp(f, w, waiting, T)
      BY <2>3, <2>4, <2>5, AddAllUnfolds
    <3> QED BY Zenon, <3>1 DEF AddsUp
  <2> DEFINE g == f[n]
  <2>7. Seated(g, w) /\ AddAll(w, waiting) = g
    BY <2>3, <2>6
  <2> HIDE DEF g
  <2>8. Loose(g) /\ Shape(g) /\ Sound(g)
    BY <2>7 DEF Seated, Loose, Sound
  <2>9. v = FocusSomething(g)
    BY <2>1, <2>7
  <2>10. OnlyFocus(v, g)
    BY <2>8, <2>9, FocusOps
  <2> HIDE DEF v
  <2>11. /\ v.mode = g.mode /\ v.groups = g.groups /\ v.hidden = g.hidden /\ v.list = g.list
         /\ PaneIds(v) = PaneIds(g) /\ InPanes(v) = InPanes(g) /\ \A p : At(v, p) = At(g, p)
    BY <2>8, <2>10, OnlyFocusFacts
  <2>12. Loose(v)
    <3>1. Sound(v) /\ Neat(v)
      BY <2>8, <2>10, FocusKeeps DEF Loose
    <3> QED BY <2>8, <2>11, <3>1 DEF Loose
  <2>13. HiddenListed(w) => HiddenListed(v)
    BY <2>7, <2>11, SeatedKeeps DEF HiddenListed
  <2>14. \A B : OnlyActive(w, B) => OnlyActive(v, B)
    <3>1. \A B : OnlyActive(w, B) => OnlyActive(g, B)
      BY <2>7, SeatedKeeps
    <3> QED BY <2>11, <3>1 DEF OnlyActive
  <2> QED BY <2>1, <2>7, <2>11, <2>12, <2>13, <2>14 DEF v, Seated
<1> QED BY <1>2, <1>3

(* What remove_session does after the session has left its group.          *)
Rest(w, s) == PromoteSplit(PromoteGrid(CleanedUp(Removed(w, s))))

(* It keeps a grid tidy, and adds nothing to the groups of a tree.         *)
LEMMA RestFacts ==
  ASSUME NEW w, Loose(w), NEW s \in Nat, s \notin GroupTabs(w), w.mode = "grid" => Core(w)
  PROVE  LET r == Rest(w, s) IN
         /\ r.mode = w.mode /\ Range(r.list) = Range(w.list) \ {s}
         /\ r.groups = w.groups
         /\ w.mode = "grid" => Good(r)
         /\ w.mode = "split" => /\ Loose(r) /\ HiddenListed(r)
                                /\ \A B : OnlyActive(w, B) => OnlyActive(r, B)
<1> DEFINE u == Removed(w, s)
           c == CleanedUp(u)
           g == PromoteGrid(c)
           r == PromoteSplit(g)
<1>1. /\ Loose(u)
      /\ \A B : OnlyActive(w, B) => OnlyActive(u, B)
      /\ Core(w) => Core(u)
      /\ u.mode = w.mode /\ u.groups = w.groups
      /\ Range(u.list) = Range(w.list) \ {s}
  BY RemovedFacts
<1> HIDE DEF u
<1>2. TidiedUp(c, u)
  BY <1>1, CleanedLoose
<1> HIDE DEF c
<1>3. /\ Loose(c) /\ HiddenListed(c)
      /\ Core(u) => Core(c)
      /\ \A B : OnlyActive(u, B) => OnlyActive(c, B)
      /\ c.mode = u.mode /\ c.groups = u.groups /\ c.list = u.list
  BY <1>1, <1>2, CleanedKeeps DEF TidiedUp
<1>4. Rest(w, s) = r
  BY DEF Rest, g, c, u
<1>5. w.mode \in {"grid", "split"}
  BY WorkspaceFields DEF Loose, Sound, Shape
<1>6. CASE w.mode = "split"
  <2>1. g = c
    BY <1>1, <1>3, <1>6, Zenon DEF PromoteGrid
  <2>2. /\ r.mode = c.mode /\ r.list = c.list /\ r.groups = c.groups
        /\ Loose(r)
        /\ HiddenListed(c) => HiddenListed(r)
        /\ \A B : OnlyActive(c, B) => OnlyActive(r, B)
    BY <1>3, <2>1, PromoteSplitFacts
  <2> HIDE DEF r
  <2>3. \A B : OnlyActive(w, B) => OnlyActive(r, B)
    BY <1>1, <1>3, <2>2
  <2> QED BY <1>1, <1>3, <1>4, <1>6, <2>2, <2>3
<1>7. CASE w.mode = "grid"
  <2>1. Good(g) /\ g.mode = "grid" /\ g.list = c.list /\ g.groups = c.groups
    BY <1>1, <1>3, <1>7, PromoteGridFacts
  <2> HIDE DEF g
  <2>2. ASSUME g.mode = "grid" PROVE r = g
    BY <2>2, Zenon DEF PromoteSplit
  <2> HIDE DEF r
  <2> QED BY <1>1, <1>3, <1>4, <1>5, <1>7, <2>1, <2>2
<1> QED BY <1>5, <1>6, <1>7

(* remove_session: of a grid it makes a tidy one; in a tree the only       *)
(* sessions of a group that may have a slot of their own are ones that     *)
(* had none before.                                                        *)
RemovedFrom(v, w, s, B) ==
  /\ v.mode = w.mode /\ Range(v.list) = Range(w.list) \ {s}
  /\ w.mode = "grid" => Good(v)
  /\ w.mode = "split" => Loose(v) /\ HiddenListed(v) /\ OnlyActive(v, B)

(* remove_session does so.                                                 *)
LEMMA RemoveSessionFacts ==
  ASSUME NEW w, Core(w), NEW s \in Nat
  PROVE  RemovedFrom(RemoveSession(w, s), w, s, InPanes(w))
<1> DEFINE p == PaneOf(w, s)
           v == LeaveGroup(w, p, s)
           r == Rest(v, s)
<1>1. RemoveSession(w, s) = r
  BY DEF RemoveSession, Rest, Removed
<1>2. Left(v, w, p, s)
  BY LeaveGroupFacts
<1> HIDE DEF v
<1>3. Core(v) /\ Loose(v) /\ s \notin GroupTabs(v)
  BY <1>2, CoreIsLoose DEF Left
<1>4. OnlyActive(v, InPanes(w))
  <2> SUFFICES ASSUME NEW q \in DOMAIN v.groups, NEW x \in Range(v.groups[q].tabs), x \in InPanes(w)
               PROVE  x = At(v, q)
    BY DEF OnlyActive
  <2>1. x \in Tabs(v, q)
    BY DEF Tabs
  <2>2. x \in Tabs(w, q)
    BY <1>2, <2>1 DEF Left
  <2>3. x = At(w, q)
    BY <2>2, CoreView
  <2>4. x # s
    BY <1>3 DEF GroupTabs
  <2> QED BY <1>2, <2>3, <2>4 DEF Left
<1>5. /\ r.mode = v.mode /\ Range(r.list) = Range(v.list) \ {s}
      /\ v.mode = "grid" => Good(r)
      /\ v.mode = "split" => /\ Loose(r) /\ HiddenListed(r)
                             /\ \A B : OnlyActive(v, B) => OnlyActive(r, B)
  BY <1>3, RestFacts
<1> HIDE DEF r
<1>6. v.mode = w.mode /\ v.list = w.list
  BY <1>2 DEF Left
<1>7. RemovedFrom(r, w, s, InPanes(w))
  BY <1>4, <1>5, <1>6 DEF RemovedFrom
<1> QED BY <1>1, <1>7

(* The same of a tree that is not tidy, for a session of no group.         *)
LEMMA RemoveUngrouped ==
  ASSUME NEW w, Loose(w), w.mode = "split", NEW s \in Nat, s \notin GroupTabs(w), NEW B, OnlyActive(w, B)
  PROVE  /\ RemovedFrom(RemoveSession(w, s), w, s, B)
         /\ RemoveSession(w, s).groups = w.groups
<1> DEFINE p == PaneOf(w, s)
           r == Rest(w, s)
<1>1. Shape(w) /\ DOMAIN w.groups \subseteq PaneIds(w)
  BY DEF Loose, Sound
<1>2. p \notin DOMAIN w.groups
  <2> SUFFICES ASSUME p \in DOMAIN w.groups PROVE FALSE
    OBVIOUS
  <2>1. {q \in DOMAIN w.groups : s \in Range(w.groups[q].tabs)} = {}
    BY DEF GroupTabs
  <2>2. p = IF s \in InPanes(w) THEN SlotOf(w, s) ELSE 0
    BY <2>1 DEF PaneOf, NoPane
  <2>3. 0 \notin PaneIds(w)
    BY <1>1, View
  <2>4. s \in InPanes(w) /\ p = SlotOf(w, s)
    BY <1>1, <2>2, <2>3
  <2>5. At(w, p) = s
    BY <1>1, <2>4, SlotFacts
  <2>6. s \in Range(w.groups[p].tabs)
    BY <2>5 DEF Loose
  <2> QED BY <2>1, <2>6
<1>3. RemoveSession(w, s) = r
  BY <1>2 DEF RemoveSession, Rest, Removed, LeaveGroup, Grouped
<1>4. /\ r.mode = w.mode /\ Range(r.list) = Range(w.list) \ {s} /\ r.groups = w.groups
      /\ Loose(r) /\ HiddenListed(r)
      /\ \A C : OnlyActive(w, C) => OnlyActive(r, C)
  BY RestFacts
<1> HIDE DEF r
<1>5. RemovedFrom(r, w, s, B)
  BY <1>4 DEF RemovedFrom
<1> QED BY <1>3, <1>4, <1>5

(***************************************************************************)
(* focus_session and the operations that end with it.                      *)
(***************************************************************************)

(* A session that is a tab of no pane, and one that is a tab of no other.  *)
Unplaced(w, s) == \A q : s \notin Tabs(w, q)

(* The session is a tab of no pane but p.                                  *)
InNoOther(w, p, s) == \A q : q # p => s \notin Tabs(w, q)

(* v is w but for what pane p shows, now s, and for its group.             *)
Placed(v, w, p, s) ==
  /\ Core(v) /\ FullOrNone(v)
  /\ v.mode = w.mode /\ v.hidden = w.hidden /\ v.list = w.list
  /\ Len(v.panes) = Len(w.panes) /\ PaneIds(v) = PaneIds(w) /\ p \in PaneIds(w)
  /\ At(v, p) = s
  /\ \A q : q # p => Tabs(v, q) = Tabs(w, q)

(* A workspace that shows something is not an empty Single layout.         *)
LEMMA OccupiedIsFull ==
  ASSUME NEW v, Core(v), NEW p \in PaneIds(v), At(v, p) # 0
  PROVE  FullOrNone(v)
<1> SUFFICES ASSUME v.mode = "grid", Len(v.panes) = 1, At(v, 1) = 0 PROVE FALSE
  BY DEF FullOrNone
<1>1. Shape(v)
  BY CoreView
<1>2. 1 \in DOMAIN v.panes /\ v.panes[1].id = 1
  <2>1. 1 \in DOMAIN v.panes
    BY <1>1, PaneCount
  <2> QED BY <1>1, <2>1 DEF Shape
<1>3. 1 \in PaneIds(v)
  BY <1>2 DEF PaneIds
<1> QED BY <1>1, <1>3, OnlyPane

(* A change of one pane that gives it the session s.                       *)
LEMMA Placing ==
  ASSUME NEW w, Core(w), NEW v, NEW p, NEW s, NEW S, OnePaneChanges(w, v, p, S),
         v.list = w.list, At(v, p) = s, s # 0
  PROVE  Placed(v, w, p, s)
<1>1. Core(v) /\ \A q : q # p => Tabs(v, q) = Tabs(w, q)
  BY OnePane
<1>2. p \in PaneIds(v)
  BY DEF OnePaneChanges
<1>3. FullOrNone(v)
  BY <1>1, <1>2, OccupiedIsFull
<1> QED BY <1>1, <1>3 DEF OnePaneChanges, Placed

(* What Core says of one pane and of the overflow list.                    *)
LEMMA CorePane ==
  ASSUME NEW w, Core(w), NEW p \in PaneIds(w)
  PROVE  /\ Shape(w) /\ p \in Nat /\ p # 0 /\ At(w, p) \in Nat
         /\ w.focus \in PaneIds(w) \cup {0} /\ w.focus \in Nat
         /\ IsInjective(w.list) /\ 0 \notin Range(w.list)
         /\ Range(w.overflow) \subseteq Range(w.list)
         /\ \A s \in Range(w.list) : s \in Nat /\ s # 0
         /\ p \in DOMAIN w.groups =>
              /\ w.groups[p] \in StackRec /\ w.groups[p].tabs \in Seq(Nat)
              /\ IsInjective(w.groups[p].tabs) /\ Len(w.groups[p].tabs) > 1
              /\ w.groups[p].active = At(w, p) /\ At(w, p) \in Range(w.groups[p].tabs)
              /\ Tabs(w, p) = Range(w.groups[p].tabs) /\ At(w, p) # 0
         /\ p \notin DOMAIN w.groups => Tabs(w, p) = {At(w, p)} \ {0}
         /\ At(w, p) # 0 => At(w, p) \in Tabs(w, p) /\ At(w, p) \in InPanes(w)
         /\ ActiveIn(w, p) = At(w, p)
         /\ w.mode = "grid" =>
              \A x \in Range(w.overflow) : /\ x \notin InPanes(w)
                                           /\ (Len(w.panes) > 1 => x \notin GroupTabs(w))
<1>1. Sound(w) /\ Neat(w) /\ Tidy(w) /\ Shape(w)
  BY DEF Core, Sound
<1>2. p \in Nat /\ p # 0 /\ At(w, p) \in Nat /\ PaneIds(w) \subseteq Nat
  BY <1>1, View
<1>3. \A s \in Range(w.list) : s \in Nat /\ s # 0
  <2>1. Range(w.list) \subseteq Nat
    BY <1>1, WorkspaceFields, IdSeqFacts DEF Shape
  <2> QED BY <1>1, <2>1 DEF Sound
<1>4. ASSUME p \in DOMAIN w.groups
      PROVE  /\ w.groups[p] \in StackRec /\ w.groups[p].tabs \in Seq(Nat)
             /\ IsInjective(w.groups[p].tabs) /\ Len(w.groups[p].tabs) > 1
             /\ w.groups[p].active = At(w, p) /\ At(w, p) \in Range(w.groups[p].tabs)
             /\ Tabs(w, p) = Range(w.groups[p].tabs) /\ At(w, p) # 0
             /\ ActiveIn(w, p) = At(w, p)
  <2>1. w.groups[p] \in StackRec /\ At(w, p) # 0 /\ At(w, p) = w.groups[p].active
    BY <1>4, CoreView
  <2>2. w.groups[p].tabs \in Seq(Nat)
    BY <2>1, StackFacts
  <2>3. At(w, p) \in Range(w.groups[p].tabs)
    BY <1>1, <1>4, <2>1, TidyView
  <2> QED BY <1>1, <1>4, <2>1, <2>2, <2>3 DEF Neat, Tabs, ActiveIn, Grouped
<1>5. ASSUME p \notin DOMAIN w.groups PROVE Tabs(w, p) = {At(w, p)} \ {0} /\ ActiveIn(w, p) = At(w, p)
  BY <1>5 DEF Tabs, ActiveIn, Grouped
<1>6. At(w, p) # 0 => At(w, p) \in Tabs(w, p) /\ At(w, p) \in InPanes(w)
  BY CoreView
<1>7. w.focus \in PaneIds(w) \cup {0} /\ w.focus \in Nat
  BY <1>1, <1>2 DEF Sound
<1>8. IsInjective(w.list) /\ 0 \notin Range(w.list) /\ Range(w.overflow) \subseteq Range(w.list)
  BY <1>1 DEF Sound
<1>9. w.mode = "grid" =>
        \A x \in Range(w.overflow) : x \notin InPanes(w) /\ (Len(w.panes) > 1 => x \notin GroupTabs(w))
  BY <1>1 DEF Neat
<1> QED BY <1>1, <1>2, <1>3, <1>4, <1>5, <1>6, <1>7, <1>8, <1>9

(* An empty pane takes a session.                                          *)
LEMMA AssignPlaces ==
  ASSUME NEW w, Core(w), NEW p \in PaneIds(w), At(w, p) = 0, NEW s \in Range(w.list), InNoOther(w, p, s)
  PROVE  Placed(Assign(w, p, s), w, p, s)
<1> DEFINE v == Assign(w, p, s)
           S == {s}
<1>1. s \in Nat /\ s # 0 /\ Shape(w) /\ p \notin DOMAIN w.groups
  BY CorePane
<1>2. Takes(v, w, p, s) /\ v.focus = w.focus /\ Range(v.overflow) = Range(w.overflow) \ {s}
  BY <1>1, AssignFacts
<1> HIDE DEF v
<1>3. Tabs(v, p) \subseteq S /\ S \subseteq Range(v.list) /\ \A x \in S : \A q : q # p => x \notin Tabs(w, q)
  BY <1>1, <1>2 DEF Tabs, Takes, InNoOther
<1> HIDE DEF S
<1>4. \A x \in Range(v.overflow) : x \in Range(v.list) /\ x # At(v, p) /\ x \in Range(w.overflow)
  BY <1>2, CorePane DEF Takes
<1>5. w.focus \in PaneIds(w) \cup {0} /\ IsInjective(w.list) /\ 0 \notin Range(w.list)
  BY CorePane
<1>6. OnePaneChanges(w, v, p, S)
  BY <1>1, <1>2, <1>3, <1>4, <1>5 DEF OnePaneChanges, Takes
<1>7. At(v, p) = s /\ v.list = w.list
  BY <1>2 DEF Takes
<1>8. Placed(v, w, p, s)
  BY <1>1, <1>6, <1>7, Placing
<1> QED BY <1>8 DEF v

(* A pane without a group takes a session instead of its own.              *)
LEMMA ReplacePlaces ==
  ASSUME NEW w, Core(w), NEW p \in PaneIds(w), p \notin DOMAIN w.groups, NEW s \in Range(w.list), InNoOther(w, p, s)
  PROVE  Placed(Replace(w, p, s), w, p, s)
<1> DEFINE v == Replace(w, p, s)
           S == {s}
<1>1. s \in Nat /\ s # 0 /\ Shape(w)
  BY CorePane
<1>2. Takes(v, w, p, s) /\ v.focus \in {w.focus, p}
  BY <1>1, ReplaceFacts
<1>9. Range(v.overflow) = IF w.mode = "grid" THEN Range(w.overflow) \ {s} ELSE {}
  BY <1>1, ReplaceFacts
<1> HIDE DEF v
<1>3. Tabs(v, p) \subseteq S /\ S \subseteq Range(v.list) /\ \A x \in S : \A q : q # p => x \notin Tabs(w, q)
  BY <1>1, <1>2 DEF Tabs, Takes, InNoOther
<1> HIDE DEF S
<1>4. \A x \in Range(v.overflow) : x \in Range(v.list) /\ x # At(v, p) /\ x \in Range(w.overflow)
  BY <1>2, <1>9, CorePane DEF Takes
<1>5. w.focus \in PaneIds(w) \cup {0} /\ IsInjective(w.list) /\ 0 \notin Range(w.list)
  BY CorePane
<1>6. OnePaneChanges(w, v, p, S)
  BY <1>1, <1>2, <1>3, <1>4, <1>5 DEF OnePaneChanges, Takes
<1>7. At(v, p) = s /\ v.list = w.list
  BY <1>2 DEF Takes
<1>8. Placed(v, w, p, s)
  BY <1>1, <1>6, <1>7, Placing
<1> QED BY <1>8 DEF v

(* A cell without a group gives its session to the overflow list for one   *)
(* of that list.                                                           *)
LEMMA SwapHiddenPlaces ==
  ASSUME NEW w, Core(w), w.mode = "grid", NEW p \in PaneIds(w), p \notin DOMAIN w.groups, At(w, p) # 0,
         NEW s \in Range(w.overflow), InNoOther(w, p, s)
  PROVE  Placed(SwapHidden(w, s, p), w, p, s)
<1> DEFINE v == SwapHidden(w, s, p)
           S == {s}
           a == At(w, p)
<1>1. s \in Nat /\ s # 0 /\ Shape(w) /\ s \in Range(w.list)
  BY CorePane
<1>2. Takes(v, w, p, s) /\ v.focus = p /\ Range(v.overflow) = (Range(w.overflow) \ {s}) \cup {a}
  BY <1>1, SwapHiddenFacts
<1> HIDE DEF v
<1>3. Tabs(v, p) \subseteq S /\ S \subseteq Range(v.list) /\ \A x \in S : \A q : q # p => x \notin Tabs(w, q)
  BY <1>1, <1>2 DEF Tabs, Takes, InNoOther
<1> HIDE DEF S
<1>4. a \in Tabs(w, p) /\ a # s /\ a \in Range(w.list)
  <2>1. a \in Tabs(w, p) /\ a \in InPanes(w)
    BY CorePane
  <2>2. s \notin InPanes(w)
    BY CorePane
  <2> QED BY <2>1, <2>2, CoreView
<1> HIDE DEF a
<1>5. \A x \in Range(v.overflow) : /\ x \in Range(v.list) /\ x # At(v, p)
                                   /\ x \in Range(w.overflow) \/ x \in Tabs(w, p)
  BY <1>2, <1>4, CorePane DEF Takes
<1>6. IsInjective(w.list) /\ 0 \notin Range(w.list)
  BY CorePane
<1>7. OnePaneChanges(w, v, p, S)
  BY <1>1, <1>2, <1>3, <1>5, <1>6 DEF OnePaneChanges, Takes
<1>8. At(v, p) = s /\ v.list = w.list
  BY <1>2 DEF Takes
<1>9. Placed(v, w, p, s)
  BY <1>1, <1>7, <1>8, Placing
<1> QED BY <1>9 DEF v

(* A pane takes a session as the active tab of a group, which keeps the    *)
(* tabs that it has, or less, but for that session.                        *)
LEMMA RegroupPlaces ==
  ASSUME NEW w, Core(w), NEW p \in PaneIds(w), At(w, p) # 0, NEW s \in Range(w.list), InNoOther(w, p, s),
         NEW tabs \in Seq(Nat), IsInjective(tabs), Len(tabs) > 1, s \in Range(tabs),
         Range(tabs) \subseteq Tabs(w, p) \cup {s}
  PROVE  Placed(WithGroup(Replace(w, p, s), p, Stack(tabs, s)), w, p, s)
<1> DEFINE u == Replace(w, p, s)
           st == Stack(tabs, s)
           v == WithGroup(u, p, st)
           S == {s}
<1>1. s \in Nat /\ s # 0 /\ Shape(w) /\ p \in Nat
  BY CorePane
<1>2. Takes(u, w, p, s) /\ u.focus \in {w.focus, p}
  BY <1>1, ReplaceFacts
<1>3. Range(u.overflow) = IF w.mode = "grid" THEN Range(w.overflow) \ {s} ELSE {}
  BY <1>1, ReplaceFacts
<1>4. st \in StackRec /\ st.tabs = tabs /\ st.active = s
  BY <1>1, StackOf
<1> HIDE DEF u, st
<1>5. /\ Shape(v)
      /\ v.mode = u.mode /\ v.panes = u.panes /\ v.overflow = u.overflow /\ v.focus = u.focus
      /\ v.next = u.next /\ v.hidden = u.hidden /\ v.list = u.list
      /\ PaneIds(v) = PaneIds(u) /\ InPanes(v) = InPanes(u) /\ \A x : At(v, x) = At(u, x)
      /\ DOMAIN v.groups = DOMAIN u.groups \cup {p}
      /\ v.groups[p] = st /\ \A x \in DOMAIN u.groups : x # p => v.groups[x] = u.groups[x]
  BY <1>1, <1>2, <1>4, WithGroupFacts DEF Takes
<1> HIDE DEF v
<1>6. Tabs(v, p) = Range(tabs)
  BY <1>4, <1>5 DEF Tabs
<1>7. Tabs(v, p) \subseteq Tabs(w, p) \cup S /\ S \subseteq Range(v.list)
      /\ \A x \in S : \A q : q # p => x \notin Tabs(w, q)
  BY <1>2, <1>5, <1>6 DEF Takes, InNoOther
<1>8. ASSUME v.mode = "grid", NEW x \in Range(v.overflow)
      PROVE  /\ x \in Range(v.list) /\ x # At(v, p) /\ x \in Range(w.overflow)
             /\ Len(w.panes) > 1 => x \notin Range(tabs)
  <2>1. w.mode = "grid" /\ x \in Range(w.overflow) /\ x # s
    BY <1>2, <1>3, <1>5, <1>8 DEF Takes
  <2>2. x \in Range(w.list) /\ x \notin InPanes(w) /\ (Len(w.panes) > 1 => x \notin GroupTabs(w))
    BY <2>1, CorePane
  <2>3. Len(w.panes) > 1 => x \notin Tabs(w, p)
    <3>1. CASE p \in DOMAIN w.groups
      BY <2>2, <3>1 DEF Tabs, GroupTabs
    <3>2. CASE p \notin DOMAIN w.groups
      <4>1. Tabs(w, p) \subseteq InPanes(w)
        BY <3>2, CorePane
      <4> QED BY <2>2, <4>1
    <3> QED BY <3>1, <3>2
  <2> QED BY <1>2, <1>5, <2>1, <2>2, <2>3 DEF Takes
<1>9. p \in DOMAIN v.groups => /\ v.groups[p].active = At(v, p)
                               /\ v.groups[p].active \in Range(v.groups[p].tabs)
                               /\ IsInjective(v.groups[p].tabs) /\ Len(v.groups[p].tabs) > 1
                               /\ v.groups[p].tabs = tabs
  BY <1>2, <1>4, <1>5 DEF Takes
<1> HIDE DEF S
<1>10. w.focus \in PaneIds(w) \cup {0} /\ IsInjective(w.list) /\ 0 \notin Range(w.list)
  BY CorePane
<1>11. OnePaneChanges(w, v, p, S)
  BY <1>2, <1>5, <1>7, <1>8, <1>9, <1>10 DEF OnePaneChanges, Takes
<1>12. At(v, p) = s /\ v.list = w.list
  BY <1>2, <1>5 DEF Takes
<1>13. Placed(v, w, p, s)
  BY <1>1, <1>11, <1>12, Placing
<1> QED BY <1>13 DEF v, u, st

(* Good of the workspaces that a call ends with, and the list as it was.   *)
Settles(v, w) == Good(v) /\ v.list = w.list

(* A tidy workspace settles when it is cleaned up.                         *)
LEMMA CleanedSettles ==
  ASSUME NEW w, Core(w), FullOrNone(w)
  PROVE  Settles(CleanedUp(w), w) /\ CleanedUp(w).mode = w.mode
<1>1. TidiedUp(CleanedUp(w), w)
  BY CleanedLoose, CoreIsLoose
<1> DEFINE v == CleanedUp(w)
<1> HIDE DEF v
<1>2. Good(v) /\ v.list = w.list /\ v.mode = w.mode
  BY <1>1, CleanedKeeps DEF TidiedUp, v
<1> QED BY <1>2 DEF v, Settles

(* Or when the focus moves first.                                          *)
LEMMA FocusSettles ==
  ASSUME NEW w, Core(w), FullOrNone(w), NEW v, OnlyFocus(v, w)
  PROVE  Core(v) /\ FullOrNone(v) /\ v.list = w.list /\ Settles(CleanedUp(v), w)
<1>1. Shape(w) /\ Sound(w)
  BY DEF Core, Sound
<1>2. Core(v) /\ FullOrNone(v) /\ v.list = w.list
  BY <1>1, FocusKeeps, OnlyFocusFacts
<1> QED BY <1>2, CleanedSettles DEF Settles

(* How the result of the activation of a tab goes on.                      *)
LEMMA Outcomes ==
  ASSUME NEW w
  PROVE  /\ Result(TRUE, w).ok = TRUE /\ Result(TRUE, w).w = w
         /\ Result(FALSE, w).ok = FALSE /\ Result(FALSE, w).w = w
         /\ Settled(Result(TRUE, w)).w = CleanedUp(w)
         /\ Settled(Result(FALSE, w)).w = w
<1>1. Result(TRUE, w).ok = TRUE /\ Result(TRUE, w).w = w
  BY DEF Result
<1>2. Result(FALSE, w).ok = FALSE /\ Result(FALSE, w).w = w
  BY DEF Result
<1>3. Settled(Result(TRUE, w)) = Result(TRUE, CleanedUp(w))
  BY <1>1 DEF Settled
<1>4. Settled(Result(FALSE, w)) = Result(FALSE, w)
  BY <1>2 DEF Settled
<1>5. Result(TRUE, CleanedUp(w)).w = CleanedUp(w)
  BY DEF Result
<1> QED BY <1>1, <1>2, <1>3, <1>4, <1>5

(* After the activation, the session is shown.                             *)
LEMMA FocusGoesOn ==
  ASSUME NEW w, NEW s, NEW u, Activated(w, s) = Result(TRUE, u)
  PROVE  Focused(w, s) =
           Settled(IF s \in InPanes(u) THEN Result(TRUE, LayoutFocus(u, s)) ELSE Surfaced(u, s))
<1>1. Activated(w, s).ok = TRUE /\ Activated(w, s).w = u
  BY Outcomes
<1>2. Focused(w, s) = Shown(u, s)
  BY <1>1 DEF Focused
<1> QED BY <1>2 DEF Shown

(* focus_session of a session that has a pane.                             *)
LEMMA FocusedShown ==
  ASSUME NEW w, Core(w), FullOrNone(w), NEW s \in InPanes(w)
  PROVE  Settles(Focused(w, s).w, w)
<1> DEFINE p == PaneOf(w, s)
           u == LayoutFocus(w, s)
<1>1. Activated(w, s) = Result(TRUE, w)
  <2>1. CASE p = 0
    BY <2>1 DEF Activated, NoPane
  <2>2. CASE p # 0
    <3>1. p \in PaneIds(w) /\ s \in Tabs(w, p)
      BY <2>2, PaneOfFacts
    <3>2. s = At(w, p)
      BY <3>1, CoreView
    <3>3. ActiveIn(w, p) = s
      BY <3>1, <3>2, CorePane
    <3> QED BY <3>3 DEF Activated
  <2> QED BY <2>1, <2>2
<1>2. Focused(w, s).w = CleanedUp(u)
  <2>1. Focused(w, s) = Settled(Result(TRUE, u))
    BY <1>1, FocusGoesOn
  <2> HIDE DEF u
  <2> QED BY <2>1, Outcomes
<1>3. OnlyFocus(u, w)
  BY CoreView, FocusOps
<1> QED BY <1>2, <1>3, FocusSettles

(* focus_session of an inactive tab of a group.                            *)
LEMMA FocusedTab ==
  ASSUME NEW w, Good(w), NEW s \in Range(w.list), s \notin InPanes(w), PaneOf(w, s) # 0
  PROVE  Settles(Focused(w, s).w, w)
<1> DEFINE p == PaneOf(w, s)
           u == WithGroup(Replace(w, p, s), p, Stack(w.groups[p].tabs, s))
<1>0. Core(w)
  BY DEF Good
<1>1. p \in PaneIds(w) /\ s \in Tabs(w, p)
  BY <1>0, PaneOfFacts
<1>2. s # 0
  BY <1>0, <1>1, CorePane
<1>3. p \in DOMAIN w.groups
  <2> SUFFICES ASSUME p \notin DOMAIN w.groups PROVE FALSE
    OBVIOUS
  <2>1. s = At(w, p)
    BY <1>0, <1>1, CorePane
  <2> QED BY <1>0, <1>1, <1>2, <2>1, CorePane
<1>4. /\ At(w, p) # s /\ At(w, p) # 0 /\ ActiveIn(w, p) # s
      /\ w.groups[p].tabs \in Seq(Nat) /\ IsInjective(w.groups[p].tabs) /\ Len(w.groups[p].tabs) > 1
      /\ Tabs(w, p) = Range(w.groups[p].tabs)
  BY <1>0, <1>1, <1>2, <1>3, CorePane
<1>5. CanReplace(w, p, s)
  BY <1>1 DEF CanReplace
<1>6. InNoOther(w, p, s)
  BY <1>0, <1>1, CoreView DEF InNoOther
<1>7. Placed(u, w, p, s)
  BY <1>0, <1>1, <1>4, <1>6, RegroupPlaces
<1>8. Activated(w, s) = Result(TRUE, u)
  BY <1>1, <1>2, <1>3, <1>4, <1>5 DEF Activated, NoPane, Grouped
<1> HIDE DEF u, p
<1>9. s \in InPanes(u)
  <2>1. Core(u) /\ p \in PaneIds(u) /\ At(u, p) = s
    BY <1>7 DEF Placed
  <2> QED BY <1>2, <2>1, CorePane
<1> DEFINE f == LayoutFocus(u, s)
<1>10. Focused(w, s).w = CleanedUp(f)
  <2>1. Focused(w, s) = Settled(Result(TRUE, f))
    BY <1>8, <1>9, FocusGoesOn
  <2> HIDE DEF f
  <2> QED BY <2>1, Outcomes
<1>11. OnlyFocus(f, u)
  BY <1>7, CoreView, FocusOps DEF Placed
<1>12. Settles(CleanedUp(f), u)
  BY <1>7, <1>11, FocusSettles DEF Placed
<1> QED BY <1>7, <1>10, <1>12 DEF Settles, Placed

(* The pane that a session without one is to get.                          *)
LEMMA TargetPaneFacts ==
  ASSUME NEW w, Core(w), TargetPane(w) # 0
  PROVE  TargetPane(w) \in PaneIds(w)
<1>0. Shape(w) /\ w.focus \in PaneIds(w) \cup {0}
  BY DEF Core, Sound
<1>1. FirstPane(w, TRUE) \in PaneIds(w) \cup {0} /\ FirstPane(w, FALSE) \in PaneIds(w) \cup {0}
  <2>1. FirstPane(w, TRUE) \in PaneIds(w) \cup {0}
    BY <1>0, FirstPaneFacts
  <2>2. FirstPane(w, FALSE) \in PaneIds(w) \cup {0}
    BY <1>0, FirstPaneFacts
  <2> QED BY <2>1, <2>2
<1>2. w.mode = "grid" /\ Len(w.panes) = 1 => 1 \in PaneIds(w)
  <2>1. 1 \in DOMAIN w.panes
    BY <1>0, PaneCount
  <2> QED BY <1>0, <2>1 DEF Shape, PaneIds
<1> DEFINE i == SelectInSeq(w.panes, LAMBDA e : e.at # Nobody \/ Grouped(w, e.id))
           g1 == IF Len(w.panes) = 1 THEN NoPane ELSE FirstPane(w, TRUE)
           g3 == IF Len(w.panes) = 1 THEN 1 ELSE FirstPane(w, FALSE)
           s2 == IF i = 0 THEN NoPane ELSE w.panes[i].id
           q == IF w.mode = "grid" THEN <<g1, w.focus, g3>> ELSE <<w.focus, s2, FirstPane(w, TRUE)>>
           k == SelectInSeq(q, LAMBDA p : p # NoPane)
<1>3. s2 \in PaneIds(w) \cup {0}
  <2>1. i # 0 => i \in DOMAIN w.panes
    <3> DEFINE I == {j \in 1 .. Len(w.panes) : w.panes[j].at # Nobody \/ Grouped(w, w.panes[j].id)}
    <3>1. i = IF I # {} THEN CHOOSE j \in I : \A m \in I : j <= m ELSE 0
      BY Zenon DEF SelectInSeq, Min
    <3>2. I \subseteq Nat /\ I \subseteq DOMAIN w.panes
      BY <1>0, PaneCount
    <3> HIDE DEF i, I
    <3>3. I # {} => \E j \in I : \A m \in I : j <= m
      BY <3>2, LeastOne
    <3> QED BY <3>1, <3>2, <3>3
  <2> HIDE DEF i
  <2> QED BY <2>1 DEF PaneIds, NoPane
<1>4. TargetPane(w) = IF k = 0 THEN NoPane ELSE q[k]
  BY Zenon DEF TargetPane
<1>5. g1 \in PaneIds(w) \cup {0} /\ (w.mode = "grid" => g3 \in PaneIds(w) \cup {0})
  BY <1>1, <1>2 DEF NoPane
<1> HIDE DEF s2, g1, g3
<1>6. Len(q) = 3 /\ \A j \in 1 .. 3 : q[j] \in PaneIds(w) \cup {0}
  <2>1. CASE w.mode = "grid"
    <3>1. q = <<g1, w.focus, g3>>
      BY <2>1
    <3> HIDE DEF q
    <3>2. q[1] = g1 /\ q[2] = w.focus /\ q[3] = g3 /\ Len(q) = 3
      BY <3>1
    <3> QED BY <1>0, <1>5, <2>1, <3>2
  <2>2. CASE w.mode # "grid"
    <3> DEFINE e == FirstPane(w, TRUE)
    <3>1. q = <<w.focus, s2, e>> /\ e \in PaneIds(w) \cup {0}
      BY <1>1, <2>2
    <3> HIDE DEF q, e
    <3>2. q[1] = w.focus /\ q[2] = s2 /\ q[3] = e /\ Len(q) = 3
      BY <3>1
    <3> QED BY <1>0, <1>3, <3>1, <3>2
  <2> QED BY <2>1, <2>2
<1>7. k # 0 => k \in 1 .. 3
  <2> DEFINE K == {j \in 1 .. Len(q) : q[j] # NoPane}
  <2> HIDE DEF q
  <2>1. k = IF K # {} THEN CHOOSE j \in K : \A m \in K : j <= m ELSE 0
    BY Zenon DEF SelectInSeq, Min
  <2>2. K \subseteq 1 .. 3 /\ K \subseteq Nat
    BY <1>6
  <2> HIDE DEF k, K
  <2>3. K # {} => \E j \in K : \A m \in K : j <= m
    BY <2>2, LeastOne
  <2> QED BY <2>1, <2>2, <2>3
<1> HIDE DEF q, k
<1> QED BY <1>4, <1>6, <1>7 DEF NoPane

(* replace_hidden_session_into_grouped_pane.                               *)
LEMMA ReplaceGroupedPlaces ==
  ASSUME NEW w, Core(w), NEW p \in DOMAIN w.groups, NEW s \in Range(w.list), Unplaced(w, s)
  PROVE  Placed(ReplaceGrouped(w, p, s), w, p, s)
<1> DEFINE g == w.groups[p]
           swapped == [i \in DOMAIN g.tabs |-> IF g.tabs[i] = g.active THEN s ELSE g.tabs[i]]
           tabs == Once(swapped)
<1>1. p \in PaneIds(w)
  BY DEF Core, Sound
<1>2. /\ g.tabs \in Seq(Nat) /\ IsInjective(g.tabs) /\ Len(g.tabs) > 1 /\ g.active \in Range(g.tabs)
      /\ Tabs(w, p) = Range(g.tabs) /\ At(w, p) # 0 /\ s \in Nat
  BY <1>1, CorePane
<1>3. ReplaceGrouped(w, p, s) = WithGroup(Replace(w, p, s), p, Stack(tabs, s))
  BY <1>2 DEF ReplaceGrouped
<1> HIDE DEF g
<1>4. Range(g.tabs) \ {g.active} # {}
  BY <1>2, SomethingIsLeft
<1>5. /\ DOMAIN g.tabs = 1 .. Len(g.tabs) /\ Len(g.tabs) \in Nat /\ Range(g.tabs) = {g.tabs[i] : i \in DOMAIN g.tabs}
      /\ \A i \in DOMAIN g.tabs : g.tabs[i] \in Nat
  <2>1. DOMAIN g.tabs = 1 .. Len(g.tabs) /\ Len(g.tabs) \in Nat /\ Range(g.tabs) = {g.tabs[i] : i \in 1 .. Len(g.tabs)}
    BY <1>2, InRange
  <2> QED BY <1>2, <2>1
<1>6. swapped \in Seq(Nat) /\ Range(swapped) = (Range(g.tabs) \ {g.active}) \cup {s}
  <2>1. swapped \in [1 .. Len(g.tabs) -> Nat]
    BY <1>2, <1>5
  <2>2. swapped \in Seq(Nat)
    BY <1>5, <2>1, FunctionIsSeq
  <2>3. \A i \in DOMAIN g.tabs : swapped[i] = IF g.tabs[i] = g.active THEN s ELSE g.tabs[i]
    OBVIOUS
  <2>4. Range(swapped) = {swapped[i] : i \in DOMAIN g.tabs}
    BY DEF Range
  <2>5. \E i \in DOMAIN g.tabs : g.tabs[i] = g.active
    BY <1>2, <1>5
  <2> HIDE DEF swapped
  <2>6. ASSUME NEW x PROVE x \in Range(swapped) <=> x \in (Range(g.tabs) \ {g.active}) \cup {s}
    BY <1>5, <2>3, <2>4, <2>5
  <2> QED BY <2>2, <2>6
<1> HIDE DEF swapped
<1>7. tabs \in Seq(Nat) /\ Range(tabs) = Range(swapped) /\ IsInjective(tabs)
  BY <1>6, OnceFacts
<1> HIDE DEF tabs
<1>8. s \notin Range(g.tabs)
  BY <1>2 DEF Unplaced
<1>9. Len(tabs) > 1
  <2> SUFFICES ASSUME Len(tabs) < 2 PROVE FALSE
    BY <1>7
  <2>1. s \in Range(tabs)
    BY <1>6, <1>7
  <2>2. Range(tabs) = {s}
    BY <1>7, <2>1, LessThanTwo
  <2> QED BY <1>4, <1>6, <1>7, <1>8, <2>2
<1>10. Range(tabs) \subseteq Tabs(w, p) \cup {s} /\ s \in Range(tabs)
  BY <1>2, <1>6, <1>7
<1>11. InNoOther(w, p, s)
  BY DEF InNoOther, Unplaced
<1> QED BY <1>1, <1>2, <1>3, <1>7, <1>9, <1>10, <1>11, RegroupPlaces

(* The cell of the Single layout is given to a hidden session while its    *)
(* group keeps the active tab.                                             *)
SwappedPast(r, w) ==
  /\ w.mode = "grid" /\ Len(w.panes) = 1 /\ Grouped(w, 1) /\ Grouped(r, 1)
  /\ At(r, 1) # At(w, 1) /\ r.groups[1].active = w.groups[1].active
  /\ Sound(r) /\ HiddenListed(r) /\ r.list = w.list

(* The swap of a hidden session into a single cell that has a group does   *)
(* that.                                                                   *)
LEMMA SwapPastAGroup ==
  ASSUME NEW w, Core(w), w.mode = "grid", Len(w.panes) = 1, NEW p \in DOMAIN w.groups, NEW s \in Range(w.overflow)
  PROVE  SwappedPast(CleanedUp(SwapHidden(w, s, p)), w)
<1> DEFINE u == SwapHidden(w, s, p)
           r == CleanedUp(u)
           a == At(w, p)
<1>1. Shape(w) /\ Sound(w) /\ Neat(w) /\ p \in PaneIds(w)
  BY DEF Core, Sound
<1>2. p = 1
  <2>1. DOMAIN w.panes = {1}
    BY <1>1, PaneCount
  <2>2. w.panes[1].id = 1
    BY <1>1, <2>1 DEF Shape
  <2> QED BY <1>1, <2>1, <2>2 DEF PaneIds
<1>3. s \in Nat /\ s # 0 /\ s \in Range(w.list) /\ s \notin InPanes(w) /\ a # 0 /\ a \in InPanes(w) /\ a \in Range(w.list)
  <2>1. s \in Nat /\ s # 0 /\ s \in Range(w.list) /\ s \notin InPanes(w) /\ a # 0 /\ a \in InPanes(w)
    BY <1>1, CorePane
  <2> QED BY <1>1, <2>1 DEF Sound
<1>4. Takes(u, w, p, s) /\ u.focus = p /\ Range(u.overflow) = (Range(w.overflow) \ {s}) \cup {a}
  BY <1>1, <1>3, SwapHiddenFacts
<1> HIDE DEF u, a
<1>5. InPanes(u) \subseteq Range(w.list)
  <2>1. InPanes(u) = {At(u, q) : q \in PaneIds(w)} \ {0} /\ InPanes(w) = {At(w, q) : q \in PaneIds(w)} \ {0}
    BY <1>1, <1>4, View DEF Takes
  <2>2. \A q \in PaneIds(w) : At(u, q) # 0 => At(u, q) \in {s} \cup InPanes(w)
    BY <1>4, <2>1 DEF Takes
  <2> QED BY <1>1, <1>3, <2>1, <2>2 DEF Sound
<1>6. Sound(u)
  <2>1. Range(u.overflow) \subseteq Range(w.list)
    BY <1>1, <1>3, <1>4 DEF Sound
  <2> QED BY <1>1, <1>4, <1>5, <2>1 DEF Sound, Takes
<1>7. TidiedUp(r, u)
  <2>1. \A q \in DOMAIN u.groups : /\ Range(u.groups[q].tabs) \subseteq Range(u.list)
                                   /\ u.groups[q].active \in Range(u.groups[q].tabs)
                                   /\ Len(u.groups[q].tabs) > 1
    <3>1. u.groups = w.groups /\ u.list = w.list
      BY <1>4 DEF Takes
    <3>2. \A q \in DOMAIN w.groups : w.groups[q].active \in Range(w.groups[q].tabs)
      BY <1>1, TidyView DEF Core
    <3> QED BY <1>1, <3>1, <3>2 DEF Sound, Neat
  <2>2. Stacked(u.hidden)
    BY <1>1, <1>4 DEF Takes, Neat
  <2>3. Shape(u) /\ DOMAIN u.groups \subseteq PaneIds(u)
    BY <1>6 DEF Sound
  <2> QED BY <2>1, <2>2, <2>3, CleanedUpFacts
<1> HIDE DEF r
<1>8. Sound(r) /\ HiddenListed(r)
  BY <1>6, <1>7, CleanedKeeps
<1>9. r.list = w.list /\ r.groups = w.groups /\ At(r, p) = s
  BY <1>4, <1>7 DEF TidiedUp, Takes
<1>10. s # a
  BY <1>3
<1>11. SwappedPast(r, w)
  BY <1>2, <1>8, <1>9, <1>10 DEF SwappedPast, Grouped, a
<1> QED BY <1>11 DEF r, u

(* focus_session of a session that has no pane.                            *)
LEMMA FocusedHidden ==
  ASSUME NEW w, Good(w), NEW s \in Range(w.list), s \notin InPanes(w), PaneOf(w, s) = 0
  PROVE  Settles(Focused(w, s).w, w) \/ SwappedPast(Focused(w, s).w, w)
<1> DEFINE p == TargetPane(w)
           single == w.mode = "grid" /\ Len(w.panes) = 1
           v == Focused(w, s).w
<1>0. Core(w) /\ FullOrNone(w) /\ Shape(w) /\ w.mode \in {"grid", "split"}
  BY CoreView DEF Good
<1>1. Unplaced(w, s) /\ \A q : InNoOther(w, q, s)
  BY <1>0, PaneOfFacts DEF Unplaced, InNoOther
<1>2. Settles(w, w)
  BY DEF Settles
<1>3. Focused(w, s) = Settled(Surfaced(w, s))
  <2>1. Activated(w, s) = Result(TRUE, w)
    BY DEF Activated, NoPane
  <2> QED BY <2>1, FocusGoesOn
<1>4. ASSUME NEW u, Surfaced(w, s) = Result(FALSE, u) PROVE v = u
  BY <1>3, <1>4, Outcomes
<1>5. ASSUME NEW u, Surfaced(w, s) = Result(TRUE, u) PROVE v = CleanedUp(u)
  BY <1>3, <1>5, Outcomes
<1>6. ASSUME NEW u, Placed(u, w, p, s) PROVE Settles(CleanedUp(u), w)
  BY <1>6, CleanedSettles DEF Placed, Settles
<1>7. p # 0 => p \in PaneIds(w)
  BY <1>0, TargetPaneFacts
<1> DEFINE A == p = 0
           B == w.mode = "grid" /\ ~ single /\ At(w, p) = 0
           C == w.mode = "grid" /\ (single \/ p \notin DOMAIN w.groups)
           D == ~ CanReplace(w, p, s)
<1>8. CASE A
  <2>1. Surfaced(w, s) = Result(FALSE, w)
    BY <1>8, Zenon DEF Surfaced, NoPane
  <2> HIDE DEF v
  <2> QED BY <1>2, <1>4, <2>1 DEF v
<1>9. CASE ~ A /\ B
  <2> DEFINE t == Assign(w, p, s)
             u == [t EXCEPT !.focus = p]
  <2>1. Surfaced(w, s) = Result(TRUE, u)
    BY <1>9, Zenon DEF Surfaced, NoPane, Nobody
  <2>2. Placed(t, w, p, s)
    BY <1>0, <1>1, <1>7, <1>9, AssignPlaces
  <2> HIDE DEF t
  <2>3. OnlyFocus(u, t)
    BY <2>2 DEF OnlyFocus, Placed
  <2> HIDE DEF u
  <2>4. Settles(CleanedUp(u), t)
    BY <2>2, <2>3, FocusSettles DEF Placed
  <2>5. Settles(CleanedUp(u), w)
    BY <2>2, <2>4 DEF Settles, Placed
  <2>6. v = CleanedUp(u)
    BY <1>5, <2>1
  <2> HIDE DEF v
  <2> QED BY <2>5, <2>6 DEF v
<1>10. CASE ~ A /\ ~ B /\ C
  <2> DEFINE u == SwapHidden(w, s, p)
  <2>1. Surfaced(w, s) = Result(CanSwapHidden(w, s, p), u)
    BY <1>10, Zenon DEF Surfaced, NoPane, Nobody, Grouped
  <2>2. CASE s \notin Range(w.overflow)
    <3>1. u = w
      BY <2>2 DEF SwapHidden
    <3>2. CanSwapHidden(w, s, p) = FALSE
      BY <2>2 DEF CanSwapHidden
    <3>3. v = w
      BY <1>4, <2>1, <3>1, <3>2
    <3> HIDE DEF v
    <3> QED BY <1>2, <3>3 DEF v
  <2>3. CASE s \in Range(w.overflow)
    <3>1. At(w, p) # 0
      <4> SUFFICES ASSUME At(w, p) = 0 PROVE FALSE
        OBVIOUS
      <4>1. w.mode = "grid" /\ Len(w.panes) = 1
        BY <1>10
      <4>2. At(w, 1) = 0
        <5>1. 1 \in DOMAIN w.panes
          BY <1>0, <4>1, PaneCount
        <5>2. 1 \in PaneIds(w)
          BY <1>0, <4>1, <5>1 DEF Shape, PaneIds
        <5> QED BY <1>0, <1>7, <1>10, <4>1, <5>2, OnlyPane
      <4>3. w.overflow = <<>>
        BY <1>0, <4>1, <4>2 DEF FullOrNone
      <4> QED BY <2>3, <4>3 DEF Range
    <3>2. CanSwapHidden(w, s, p) = TRUE
      BY <2>3, <3>1 DEF CanSwapHidden, Nobody
    <3>3. v = CleanedUp(u)
      BY <1>5, <2>1, <3>2
    <3>4. CASE p \in DOMAIN w.groups
      <4>1. SwappedPast(CleanedUp(u), w)
        BY <1>0, <1>10, <2>3, <3>4, SwapPastAGroup
      <4> HIDE DEF v, u
      <4> QED BY <3>3, <4>1 DEF v
    <3>5. CASE p \notin DOMAIN w.groups
      <4>1. Placed(u, w, p, s)
        BY <1>0, <1>1, <1>7, <1>10, <2>3, <3>1, <3>5, SwapHiddenPlaces
      <4> HIDE DEF v, u
      <4> QED BY <1>6, <3>3, <4>1 DEF v
    <3> QED BY <3>4, <3>5
  <2> QED BY <2>2, <2>3
<1>11. CASE ~ A /\ ~ B /\ ~ C /\ D
  <2>1. Surfaced(w, s) = Result(FALSE, w)
    BY <1>11, Zenon DEF Surfaced, NoPane, Nobody, Grouped
  <2> HIDE DEF v
  <2> QED BY <1>2, <1>4, <2>1 DEF v
<1>12. CASE ~ A /\ ~ B /\ ~ C /\ ~ D
  <2> DEFINE u == IF Grouped(w, p) THEN ReplaceGrouped(w, p, s) ELSE Replace(w, p, s)
  <2>1. Surfaced(w, s) = Result(TRUE, u)
    BY <1>12, Zenon DEF Surfaced, NoPane, Nobody, Grouped
  <2>2. Placed(u, w, p, s)
    <3>1. CASE p \in DOMAIN w.groups
      <4>1. u = ReplaceGrouped(w, p, s)
        BY <3>1 DEF Grouped
      <4> HIDE DEF u
      <4> QED BY <1>0, <1>1, <3>1, <4>1, ReplaceGroupedPlaces
    <3>2. CASE p \notin DOMAIN w.groups
      <4>1. u = Replace(w, p, s)
        BY <3>2 DEF Grouped
      <4> HIDE DEF u
      <4> QED BY <1>0, <1>1, <1>7, <1>12, <3>2, <4>1, ReplacePlaces
    <3> QED BY <3>1, <3>2
  <2> HIDE DEF u, v
  <2>3. v = CleanedUp(u)
    BY <1>5, <2>1
  <2> QED BY <1>6, <2>2, <2>3 DEF v
<1> QED BY <1>8, <1>9, <1>10, <1>11, <1>12

(* focus_session.                                                          *)
LEMMA FocusedFacts ==
  ASSUME NEW w, Good(w), NEW s \in Range(w.list)
  PROVE  Settles(Focused(w, s).w, w) \/ SwappedPast(Focused(w, s).w, w)
<1>1. CASE s \in InPanes(w)
  BY <1>1, FocusedShown DEF Good
<1>2. CASE s \notin InPanes(w) /\ PaneOf(w, s) # 0
  BY <1>2, FocusedTab
<1>3. CASE s \notin InPanes(w) /\ PaneOf(w, s) = 0
  BY <1>3, FocusedHidden
<1> QED BY <1>1, <1>2, <1>3

(* a is q and one more element, which q does not have.                     *)
Lengthened(a, q, s, S) ==
  a \in Seq(S) /\ IsInjective(a) /\ Range(a) = Range(q) \cup {s} /\ Len(a) = Len(q) + 1

(* push of an element that q does not have.                                *)
LEMMA LengthenedFacts ==
  ASSUME NEW S, NEW q \in Seq(S), IsInjective(q), NEW s \in S, s \notin Range(q),
         NEW a, a = Append(q, s)
  PROVE  Lengthened(a, q, s, S)
<1>1. /\ DOMAIN q = 1 .. Len(q) /\ Len(q) \in Nat /\ a \in Seq(S)
      /\ DOMAIN a = 1 .. Len(q) + 1 /\ Len(a) = Len(q) + 1
      /\ \A i \in 1 .. Len(q) : a[i] = q[i]
      /\ a[Len(q) + 1] = s
  OBVIOUS
<1>2. \A i \in 1 .. Len(q) : a[i] # s
  BY <1>1 DEF Range
<1>3. IsInjective(a)
  <2> SUFFICES ASSUME NEW i \in DOMAIN a, NEW j \in DOMAIN a, a[i] = a[j] PROVE i = j
    BY Zenon DEF IsInjective
  <2>1. CASE i \in 1 .. Len(q) /\ j \in 1 .. Len(q)
    BY <1>1, <2>1 DEF IsInjective
  <2>2. CASE i \notin 1 .. Len(q) /\ j \notin 1 .. Len(q)
    BY <1>1, <2>2
  <2>3. CASE (i \in 1 .. Len(q)) # (j \in 1 .. Len(q))
    <3>1. (i \in 1 .. Len(q) /\ j = Len(q) + 1) \/ (j \in 1 .. Len(q) /\ i = Len(q) + 1)
      BY <1>1, <2>3
    <3> QED BY <1>1, <1>2, <3>1
  <2> QED BY <2>1, <2>2, <2>3
<1>4. Range(a) = Range(q) \cup {s}
  <2>1. \A i \in DOMAIN a : i \in 1 .. Len(q) \/ i = Len(q) + 1
    BY <1>1
  <2>2. Range(a) \subseteq Range(q) \cup {s}
    BY <1>1, <2>1 DEF Range
  <2>3. Len(q) + 1 \in DOMAIN a /\ \A i \in DOMAIN q : i \in DOMAIN a
    BY <1>1
  <2>4. Range(q) \cup {s} \subseteq Range(a)
    BY <1>1, <2>3 DEF Range
  <2> QED BY <2>2, <2>4
<1>5. Lengthened(a, q, s, S)
  BY <1>1, <1>3, <1>4 DEF Lengthened
<1> QED BY <1>5

(* The tabs of a pane, in their order.                                     *)
LEMMA TabsOfFacts ==
  ASSUME NEW w, Core(w), NEW p \in PaneIds(w)
  PROVE  /\ TabsOf(w, p) \in Seq(Nat) /\ IsInjective(TabsOf(w, p)) /\ Range(TabsOf(w, p)) = Tabs(w, p)
         /\ At(w, p) # 0 => TabsOf(w, p) # <<>> /\ Len(TabsOf(w, p)) > 0
         /\ At(w, p) = 0 => TabsOf(w, p) = <<>>
<1>1. Shape(w) /\ At(w, p) \in Nat /\ (At(w, p) # 0 => At(w, p) \in Tabs(w, p))
  BY CorePane
<1>2. Range(TabsOf(w, p)) = Tabs(w, p)
  BY <1>1, TidyView
<1>3. TabsOf(w, p) \in Seq(Nat) /\ IsInjective(TabsOf(w, p))
  <2>1. CASE p \in DOMAIN w.groups
    BY <1>1, <2>1, TidyView, CorePane
  <2>2. CASE p \notin DOMAIN w.groups
    <3>1. TabsOf(w, p) = IF At(w, p) = 0 THEN <<>> ELSE <<At(w, p)>>
      BY <1>1, <2>2, TidyView
    <3>2. IsInjective(<<>>)
      BY DEF IsInjective
    <3> QED BY <1>1, <3>1, <3>2, SingletonRange
  <2> QED BY <2>1, <2>2
<1>4. At(w, p) # 0 => TabsOf(w, p) # <<>>
  <2> SUFFICES ASSUME At(w, p) # 0, TabsOf(w, p) = <<>> PROVE FALSE
    OBVIOUS
  <2>1. Range(TabsOf(w, p)) = {}
    BY <1>3, IdSeqFacts DEF IdSeqs
  <2> QED BY <1>1, <1>2, <2>1
<1>5. TabsOf(w, p) # <<>> => Len(TabsOf(w, p)) > 0
  BY <1>3
<1>6. At(w, p) = 0 => TabsOf(w, p) = <<>>
  <2> SUFFICES ASSUME At(w, p) = 0 PROVE TabsOf(w, p) = <<>>
    OBVIOUS
  <2>1. p \notin DOMAIN w.groups
    BY CorePane
  <2> QED BY <1>1, <2>1, TidyView
<1> QED BY <1>2, <1>3, <1>4, <1>5, <1>6

(* insert_session_into_pane_group of a session that is a tab of no pane.   *)
LEMMA InsertPlaces ==
  ASSUME NEW w, Core(w), NEW p \in PaneIds(w), At(w, p) # 0, NEW s \in Range(w.list), Unplaced(w, s)
  PROVE  Placed(InsertIntoGroup(w, p, s), w, p, s)
<1> DEFINE q == TabsOf(w, p)
           tabs == Append(q, s)
<1>1. s \in Nat
  BY CorePane
<1>2. q \in Seq(Nat) /\ IsInjective(q) /\ Range(q) = Tabs(w, p) /\ Len(q) > 0
  BY TabsOfFacts
<1> HIDE DEF q
<1>3. s \notin Range(q)
  BY <1>2 DEF Unplaced
<1>4. tabs \in Seq(Nat) /\ IsInjective(tabs) /\ Range(tabs) = Range(q) \cup {s} /\ Len(tabs) = Len(q) + 1
  <2>0. tabs = Append(q, s)
    OBVIOUS
  <2> HIDE DEF tabs
  <2>1. Lengthened(tabs, q, s, Nat)
    BY <1>1, <1>2, <1>3, <2>0, LengthenedFacts
  <2> QED BY <2>1 DEF Lengthened
<1> HIDE DEF tabs
<1>5. Len(tabs) > 1 /\ s \in Range(tabs) /\ Range(tabs) \subseteq Tabs(w, p) \cup {s}
  <2>1. Len(q) \in Nat
    BY <1>2
  <2> QED BY <1>2, <1>4, <2>1
<1>6. InNoOther(w, p, s)
  BY DEF Unplaced, InNoOther
<1> DEFINE g == Stack(q, s)
<1>7. g.tabs = q
  BY <1>1, <1>2, StackOf
<1>8. InsertIntoGroup(w, p, s) = WithGroup(Replace(w, p, s), p, Stack(tabs, s))
  <2> HIDE DEF g
  <2>1. (IF s \in Range(g.tabs) THEN g.tabs ELSE Append(g.tabs, s)) = tabs
    BY <1>3, <1>7 DEF tabs
  <2> QED BY Zenon, <2>1 DEF InsertIntoGroup, g, q
<1> QED BY <1>4, <1>5, <1>6, <1>8, RegroupPlaces

(* focus_session of the session that a pane was just given.                *)
LEMMA PlacedSettles ==
  ASSUME NEW w, NEW v, NEW p, NEW s, s # 0, Placed(v, w, p, s)
  PROVE  /\ s \in InPanes(v)
         /\ Settles(Focused(v, s).w, w)
         /\ Settles(Focused(CleanedUp(v), s).w, w)
<1>1. Core(v) /\ FullOrNone(v) /\ v.list = w.list /\ p \in PaneIds(v) /\ At(v, p) = s
  BY DEF Placed
<1>2. s \in InPanes(v)
  BY <1>1, CorePane
<1>3. Settles(Focused(v, s).w, w)
  BY <1>1, <1>2, FocusedShown DEF Settles
<1> DEFINE u == CleanedUp(v)
<1>4. Settles(u, v) /\ TidiedUp(u, v)
  BY <1>1, CleanedSettles, CleanedLoose, CoreIsLoose
<1> HIDE DEF u
<1>5. Core(u) /\ FullOrNone(u) /\ s \in InPanes(u) /\ u.list = w.list
  BY <1>1, <1>2, <1>4 DEF Settles, Good, TidiedUp
<1>6. Settles(Focused(u, s).w, w)
  BY <1>5, FocusedShown DEF Settles
<1> QED BY <1>2, <1>3, <1>6 DEF u

(* activate_pane_tab.                                                      *)
LEMMA ActivateTabFacts ==
  ASSUME NEW w, Good(w), NEW p \in DOMAIN w.groups, NEW s \in Range(w.groups[p].tabs)
  PROVE  Settles(ActivateTab(w, p, s), w)
<1> DEFINE u == WithGroup(Replace(w, p, s), p, Stack(w.groups[p].tabs, s))
<1>0. Core(w) /\ p \in PaneIds(w)
  BY DEF Good, Core, Sound
<1>1. /\ w.groups[p].tabs \in Seq(Nat) /\ IsInjective(w.groups[p].tabs) /\ Len(w.groups[p].tabs) > 1
      /\ Tabs(w, p) = Range(w.groups[p].tabs) /\ At(w, p) # 0
  BY <1>0, CorePane
<1>2. s \in Range(w.list) /\ InNoOther(w, p, s)
  BY <1>0, <1>1, CoreView DEF InNoOther
<1>3. s # 0
  BY <1>0, <1>2, CorePane
<1>4. Placed(u, w, p, s)
  BY <1>0, <1>1, <1>2, RegroupPlaces
<1> HIDE DEF u
<1>5. Settles(Focused(u, s).w, w)
  BY <1>3, <1>4, PlacedSettles
<1>6. ActivateTab(w, p, s) \in {Focused(u, s).w, w}
  BY DEF ActivateTab, u
<1> QED BY <1>5, <1>6 DEF Settles

(* focus_session_number.                                                   *)
LEMMA FocusNumberFacts ==
  ASSUME NEW w, Good(w), NEW n
  PROVE  Settles(FocusNumber(w, n), w)
<1> DEFINE K == {e \in Range(w.panes) : e.at # Nobody}
           occupied == RetainAll(w.panes, K)
           v == FocusNumber(w, n)
<1>0. Core(w) /\ Shape(w)
  BY CoreView DEF Good
<1>1. w.panes \in Seq(PaneRec)
  BY <1>0, WorkspaceFields DEF Shape, PaneSeqs
<1>2. OnlyFocus(v, w)
  <2>1. CASE n \in DOMAIN occupied
    <3>1. occupied[n] \in K
      <4>1. Range(occupied) = Range(w.panes) \cap K
        BY <1>1, RetainAllRange
      <4> HIDE DEF occupied, K
      <4> QED BY <2>1, <4>1 DEF Range
    <3>2. occupied[n].at \in InPanes(w)
      <4> HIDE DEF occupied
      <4> QED BY <3>1 DEF InPanes, Range
    <3>3. SlotOf(w, occupied[n].at) \in PaneIds(w)
      BY <1>0, <3>2, SlotFacts
    <3>4. v = [w EXCEPT !.focus = SlotOf(w, occupied[n].at)]
      BY <2>1, Zenon DEF FocusNumber
    <3> HIDE DEF v, occupied
    <3> QED BY <3>3, <3>4 DEF OnlyFocus
  <2>2. CASE n \notin DOMAIN occupied
    <3>1. v = w
      BY <2>2, Zenon DEF FocusNumber
    <3> HIDE DEF v
    <3> QED BY <1>0, <3>1, FocusOps
  <2> QED BY <2>1, <2>2
<1> HIDE DEF v
<1>3. Good(v) /\ v.list = w.list
  BY <1>0, <1>2, FocusKeeps, OnlyFocusFacts
<1> QED BY <1>3 DEF Settles, v

(***************************************************************************)
(* New sessions.                                                           *)
(***************************************************************************)

(* v is w with one more session, which is in no pane.                      *)
Enlisted(v, w, s) ==
  /\ Core(v)
  /\ v.mode = w.mode /\ v.hidden = w.hidden
  /\ s \in Range(v.list) /\ Range(v.list) = Range(w.list) \cup {s}
  /\ PaneIds(v) = PaneIds(w) /\ \A p : At(v, p) = At(w, p)
  /\ Unplaced(v, s)
  /\ FullOrNone(w) => FullOrNone(v)

(* A list of sessions that gets one more.                                  *)
LEMMA ListGrows ==
  ASSUME NEW w, Sound(w), NEW s \in Nat \ {0}, s \notin Range(w.list), NEW l, l = Append(w.list, s)
  PROVE  l \in IdSeqs /\ IsInjective(l) /\ Range(l) = Range(w.list) \cup {s} /\ 0 \notin Range(l)
<1>1. w.list \in Seq(Nat) /\ IsInjective(w.list) /\ 0 \notin Range(w.list)
  BY WorkspaceFields DEF Sound, Shape, IdSeqs
<1>2. Lengthened(l, w.list, s, Nat)
  BY <1>1, LengthenedFacts
<1> QED BY <1>1, <1>2 DEF Lengthened, IdSeqs

(* The session is appended to the list, and to the overflow list.          *)
Enrolls(v, w, s) == v = [w EXCEPT !.list = Append(@, s)]

(* The session is appended to the overflow list.                           *)
Overflows(v, w, s) == v = [w EXCEPT !.overflow = Append(@, s)]

(* The session that was appended to the list is in no pane.                *)
LEMMA EnlistedFacts ==
  ASSUME NEW w, Core(w), NEW s \in Nat \ {0}, s \notin Range(w.list), NEW v, Enrolls(v, w, s)
  PROVE  Enlisted(v, w, s)
<1> DEFINE l == Append(w.list, s)
<1>0. Sound(w) /\ Neat(w) /\ Tidy(w) /\ Shape(w)
  BY DEF Core, Sound
<1>1. l \in IdSeqs /\ IsInjective(l) /\ Range(l) = Range(w.list) \cup {s} /\ 0 \notin Range(l)
  <2>1. l = Append(w.list, s)
    OBVIOUS
  <2> HIDE DEF l
  <2> QED BY <1>0, <2>1, ListGrows
<1>2. v = [w EXCEPT !.list = l]
  BY DEF Enrolls
<1> HIDE DEF l
<1>3. /\ Shape(v) /\ v.list = l
      /\ v.mode = w.mode /\ v.panes = w.panes /\ v.overflow = w.overflow /\ v.focus = w.focus
      /\ v.next = w.next /\ v.groups = w.groups /\ v.hidden = w.hidden
      /\ PaneIds(v) = PaneIds(w) /\ InPanes(v) = InPanes(w) /\ \A p : At(v, p) = At(w, p)
  BY <1>0, <1>1, <1>2, SetList
<1>4. Range(w.list) \subseteq Range(v.list) /\ Range(v.list) = Range(w.list) \cup {s} /\ s \in Range(v.list)
  BY <1>1, <1>3
<1>5. Sound(v)
  <2>1. InPanes(v) \cup Range(v.overflow) \subseteq Range(v.list)
    BY <1>0, <1>3, <1>4 DEF Sound
  <2>2. \A p \in DOMAIN v.groups : Range(v.groups[p].tabs) \subseteq Range(v.list)
    BY <1>0, <1>3, <1>4 DEF Sound
  <2>3. v.focus \in PaneIds(v) \cup {0} /\ DOMAIN v.groups \subseteq PaneIds(v)
    BY <1>0, <1>3 DEF Sound
  <2> QED BY <1>1, <1>3, <2>1, <2>2, <2>3 DEF Sound
<1>6. \A p : Tabs(v, p) = Tabs(w, p)
  BY <1>3 DEF Tabs
<1>7. Tidy(v)
  BY <1>0, <1>3, <1>6, TidyView
<1>8. Neat(v)
  BY <1>0, <1>3 DEF Neat, GroupTabs
<1>9. Unplaced(v, s)
  BY <1>6, CoreView DEF Unplaced
<1>10. FullOrNone(w) => FullOrNone(v)
  BY <1>3 DEF FullOrNone
<1> QED BY <1>3, <1>4, <1>5, <1>7, <1>8, <1>9, <1>10 DEF Enlisted, Core

(* A call that ends tidy with one more session.                            *)
Adds(v, w, s) == Good(v) /\ Range(v.list) = Range(w.list) \cup {s}

(* A longer list still has what the hidden stacks hold.                    *)
LEMMA MoreListed ==
  ASSUME NEW w, HiddenListed(w), NEW v, v.hidden = w.hidden, Range(w.list) \subseteq Range(v.list)
  PROVE  HiddenListed(v)
BY DEF HiddenListed

(* add_session of the layout and of the list, when a pane is empty.        *)
LEMMA AddedToAPane ==
  ASSUME NEW w, Good(w), NEW s \in Nat \ {0}, s \notin Range(w.list), NEW p \in PaneIds(w), At(w, p) = 0,
         NEW v, Enrolls(v, Put(w, p, s), s)
  PROVE  Adds(v, w, s)
<1> DEFINE l == Append(w.list, s)
           u == Put(w, p, s)
           S == {s}
<1>0. Core(w) /\ Sound(w) /\ Shape(w) /\ p \notin DOMAIN w.groups
  BY CorePane DEF Good, Core, Sound
<1>1. l \in IdSeqs /\ IsInjective(l) /\ Range(l) = Range(w.list) \cup {s} /\ 0 \notin Range(l)
  <2>1. l = Append(w.list, s)
    OBVIOUS
  <2> HIDE DEF l
  <2> QED BY <1>0, <2>1, ListGrows
<1>2. /\ Shape(u)
      /\ u.mode = w.mode /\ u.overflow = w.overflow /\ u.focus = w.focus /\ u.next = w.next
      /\ u.groups = w.groups /\ u.hidden = w.hidden /\ u.list = w.list
      /\ Len(u.panes) = Len(w.panes) /\ PaneIds(u) = PaneIds(w)
      /\ At(u, p) = s
      /\ \A q : q # p => At(u, q) = At(w, q)
  BY <1>0, PutFacts
<1> HIDE DEF u
<1>3. v = [u EXCEPT !.list = l]
  <2>1. Enrolls(v, u, s)
    BY DEF u
  <2> QED BY <1>2, <2>1 DEF Enrolls
<1> HIDE DEF l
<1>4. /\ Shape(v) /\ v.list = l
      /\ v.mode = u.mode /\ v.panes = u.panes /\ v.overflow = u.overflow /\ v.focus = u.focus
      /\ v.next = u.next /\ v.groups = u.groups /\ v.hidden = u.hidden
      /\ PaneIds(v) = PaneIds(u) /\ \A q : At(v, q) = At(u, q)
  BY <1>1, <1>2, <1>3, SetList
<1>5. S \subseteq Range(v.list) /\ \A x \in S : \A q : q # p => x \notin Tabs(w, q)
  <2>1. s \in Range(v.list)
    BY <1>1, <1>4
  <2>2. \A q : s \notin Tabs(w, q)
    BY <1>0, CoreView
  <2> QED BY <2>1, <2>2
<1>6. Tabs(v, p) \subseteq S
  BY <1>0, <1>2, <1>4 DEF Tabs
<1>7. \A x \in Range(v.overflow) : x \in Range(v.list) /\ x # At(v, p) /\ x \in Range(w.overflow)
  BY <1>0, <1>1, <1>2, <1>4 DEF Sound
<1> HIDE DEF S
<1>8. w.focus \in PaneIds(w) \cup {0}
  BY <1>0 DEF Sound
<1>9. OnePaneChanges(w, v, p, S)
  BY <1>0, <1>1, <1>2, <1>4, <1>5, <1>6, <1>7, <1>8 DEF OnePaneChanges
<1>10. Core(v)
  BY <1>0, <1>9, OnePane
<1>11. FullOrNone(v)
  BY <1>2, <1>4, <1>10, OccupiedIsFull
<1>12. HiddenListed(v)
  BY <1>1, <1>2, <1>4, MoreListed DEF Good
<1> QED BY <1>1, <1>4, <1>10, <1>11, <1>12 DEF Adds, Good

(* The same when no cell is, and the session goes to the overflow list.    *)
LEMMA AddedToOverflow ==
  ASSUME NEW w, Good(w), NEW s \in Nat \ {0}, s \notin Range(w.list), w.mode = "grid",
         \A p \in PaneIds(w) : At(w, p) # 0,
         NEW u, Overflows(u, w, s), NEW v, Enrolls(v, u, s)
  PROVE  Adds(v, w, s)
<1> DEFINE l == Append(w.list, s)
           o == Append(w.overflow, s)
<1>0. Core(w) /\ Sound(w) /\ Shape(w)
  BY DEF Good, Core, Sound
<1>1. l \in IdSeqs /\ IsInjective(l) /\ Range(l) = Range(w.list) \cup {s} /\ 0 \notin Range(l)
  <2>1. l = Append(w.list, s)
    OBVIOUS
  <2> HIDE DEF l
  <2> QED BY <1>0, <2>1, ListGrows
<1>2. o \in IdSeqs /\ Range(o) = Range(w.overflow) \cup {s}
  BY <1>0, WorkspaceFields, IdSeqFacts DEF Shape
<1>3. u = [w EXCEPT !.overflow = o]
  BY DEF Overflows
<1> HIDE DEF o
<1>4. /\ Shape(u) /\ u.overflow = o
      /\ u.mode = w.mode /\ u.panes = w.panes /\ u.focus = w.focus /\ u.next = w.next
      /\ u.groups = w.groups /\ u.hidden = w.hidden /\ u.list = w.list
      /\ PaneIds(u) = PaneIds(w) /\ InPanes(u) = InPanes(w) /\ \A p : At(u, p) = At(w, p)
  BY <1>0, <1>2, <1>3, SetOverflow
<1>15. v = [u EXCEPT !.list = l]
  BY <1>4 DEF Enrolls
<1> HIDE DEF l
<1>5. /\ Shape(v) /\ v.list = l
      /\ v.mode = u.mode /\ v.panes = u.panes /\ v.overflow = u.overflow /\ v.focus = u.focus
      /\ v.next = u.next /\ v.groups = u.groups /\ v.hidden = u.hidden
      /\ PaneIds(v) = PaneIds(u) /\ InPanes(v) = InPanes(u) /\ \A p : At(v, p) = At(u, p)
  BY <1>1, <1>4, <1>15, SetList
<1>6. PICK p \in PaneIds(w) : At(w, p) # 0
  <2>1. 1 \in DOMAIN w.panes
    BY <1>0, PaneCount
  <2> QED BY <1>0, <2>1, View
<1> DEFINE S == {}
<1>7. \A x \in Range(v.overflow) : /\ x \in Range(v.list) /\ x # At(v, p)
                                   /\ x \in Range(w.overflow) \/ x \notin Range(w.list)
                                   /\ Len(w.panes) > 1 => x \notin GroupTabs(w)
  <2> SUFFICES ASSUME NEW x \in Range(v.overflow)
               PROVE  /\ x \in Range(v.list) /\ x # At(v, p)
                      /\ x \in Range(w.overflow) \/ x \notin Range(w.list)
                      /\ Len(w.panes) > 1 => x \notin GroupTabs(w)
    OBVIOUS
  <2>1. At(v, p) = At(w, p) /\ At(w, p) \in InPanes(w) /\ At(w, p) \in Range(w.list)
    BY <1>0, <1>4, <1>5, <1>6, CorePane, CoreView
  <2>2. CASE x = s
    <3>1. s \notin GroupTabs(w)
      BY <1>0 DEF Sound, GroupTabs
    <3> QED BY <1>1, <1>5, <2>1, <2>2, <3>1
  <2>3. CASE x # s
    <3>1. x \in Range(w.overflow)
      BY <1>2, <1>4, <1>5, <2>3
    <3>2. x \notin InPanes(w) /\ (Len(w.panes) > 1 => x \notin GroupTabs(w)) /\ x \in Range(w.list)
      BY <1>0, <1>6, <3>1, CorePane
    <3> QED BY <1>1, <1>5, <2>1, <3>1, <3>2
  <2> QED BY <2>2, <2>3
<1>8. Tabs(v, p) = Tabs(w, p)
  BY <1>4, <1>5 DEF Tabs
<1>9. w.focus \in PaneIds(w) \cup {0}
  BY <1>0 DEF Sound
<1>10. p \in DOMAIN v.groups => /\ v.groups[p].active = At(v, p)
                                /\ v.groups[p].active \in Range(v.groups[p].tabs)
                                /\ IsInjective(v.groups[p].tabs) /\ Len(v.groups[p].tabs) > 1
                                /\ Range(v.groups[p].tabs) \subseteq GroupTabs(w)
  <2>1. p \in DOMAIN w.groups => Range(w.groups[p].tabs) \subseteq GroupTabs(w)
    BY DEF GroupTabs
  <2> QED BY <1>0, <1>4, <1>5, <2>1, CorePane
<1>11. OnePaneChanges(w, v, p, S)
  BY <1>1, <1>4, <1>5, <1>6, <1>7, <1>8, <1>9, <1>10 DEF OnePaneChanges
<1>12. Core(v)
  BY <1>0, <1>11, OnePane
<1>13. FullOrNone(v)
  BY <1>4, <1>5, <1>6, <1>12, OccupiedIsFull
<1>14. HiddenListed(v)
  BY <1>1, <1>4, <1>5, MoreListed DEF Good
<1> QED BY <1>1, <1>5, <1>12, <1>13, <1>14 DEF Adds, Good

(* add_session.                                                            *)
LEMMA AddSessionFacts ==
  ASSUME NEW w, Good(w), NEW s \in Nat \ {0}, s \notin Range(w.list)
  PROVE  Adds(AddSession(w, s), w, s)
<1> DEFINE e == FirstPane(w, TRUE)
           v == [LayoutAdd(w, s) EXCEPT !.list = Append(@, s)]
<1>0. Core(w) /\ Sound(w) /\ Shape(w)
  BY DEF Good, Core, Sound
<1>1. s \notin InPanes(w) \cup Range(w.overflow)
  BY <1>0 DEF Sound
<1>2. Adds(v, w, s)
  <2>1. CASE e # 0
    <3>1. e \in PaneIds(w) /\ At(w, e) = 0
      <4>1. e # 0 => e \in PaneIds(w) /\ (At(w, e) = 0) = TRUE
        BY <1>0, FirstPaneFacts
      <4> HIDE DEF e
      <4> QED BY <2>1, <4>1
    <3>2. LayoutAdd(w, s) = Put(w, e, s)
      BY <1>1, <2>1, Zenon DEF LayoutAdd, NoPane
    <3> HIDE DEF e
    <3>3. Enrolls(v, Put(w, e, s), s)
      BY <3>2 DEF Enrolls
    <3> HIDE DEF v
    <3> QED BY <3>1, <3>3, AddedToAPane
  <2>2. CASE e = 0
    <3>1. \A p \in PaneIds(w) : At(w, p) # 0
      <4>1. e = 0 => \A p \in PaneIds(w) : (At(w, p) = 0) # TRUE
        BY <1>0, FirstPaneFacts
      <4> HIDE DEF e
      <4> QED BY <2>2, <4>1
    <3>2. CASE w.mode = "grid"
      <4>1. Overflows(LayoutAdd(w, s), w, s)
        BY <1>1, <2>2, <3>2, Zenon DEF LayoutAdd, NoPane, Overflows
      <4>2. Enrolls(v, LayoutAdd(w, s), s)
        BY Zenon DEF Enrolls
      <4> HIDE DEF v, e
      <4> QED BY <3>1, <3>2, <4>1, <4>2, AddedToOverflow
    <3>3. CASE w.mode # "grid"
      <4>1. LayoutAdd(w, s) = w
        BY <1>1, <2>2, <3>3, Zenon DEF LayoutAdd, NoPane
      <4>2. Enrolls(v, w, s)
        BY <4>1 DEF Enrolls
      <4> HIDE DEF v, e
      <4>3. Enlisted(v, w, s)
        BY <1>0, <4>2, EnlistedFacts
      <4>4. HiddenListed(v)
        BY <4>3, MoreListed DEF Enlisted, Good
      <4> QED BY <4>3, <4>4 DEF Enlisted, Good, Adds
    <3> QED BY <3>2, <3>3
  <2> QED BY <2>1, <2>2
<1>3. AddSession(w, s) = IF FocusedSession(v) = Nobody THEN LayoutFocus(v, s) ELSE v
  BY Zenon DEF AddSession
<1> HIDE DEF v, e
<1> DEFINE r == AddSession(w, s)
<1>4. OnlyFocus(r, v)
  <2>1. Shape(v)
    BY <1>2, CoreView DEF Adds, Good
  <2> QED BY <1>3, <2>1, FocusOps
<1> HIDE DEF r
<1>5. Good(r) /\ r.list = v.list
  <2>1. Shape(v)
    BY <1>2, CoreView DEF Adds, Good
  <2> QED BY <1>2, <1>4, <2>1, FocusKeeps, OnlyFocusFacts DEF Adds
<1> QED BY <1>2, <1>5 DEF Adds, r

(* add_session_to_pane.                                                    *)
LEMMA AddToPaneFacts ==
  ASSUME NEW w, Good(w), NEW s \in Nat \ {0}, s \notin Range(w.list), NEW mode, NEW p
  PROVE  Adds(AddToPane(w, s, mode, p), w, s)
<1> DEFINE u == [w EXCEPT !.list = Append(@, s)]
<1>0. Core(w) /\ Sound(w) /\ Shape(w)
  BY DEF Good, Core, Sound
<1>1. Enlisted(u, w, s)
  <2>1. Enrolls(u, w, s)
    BY DEF Enrolls
  <2> HIDE DEF u
  <2> QED BY <1>0, <2>1, EnlistedFacts
<1>2. AddToPane(w, s, mode, p) =
        IF w.mode # mode \/ p \notin PaneIds(w) THEN AddSession(w, s)
        ELSE IF ActiveIn(w, p) = Nobody THEN [Assign(u, p, s) EXCEPT !.focus = p]
        ELSE InsertIntoGroup(u, p, s)
  BY Zenon DEF AddToPane
<1> HIDE DEF u
<1>3. CASE w.mode # mode \/ p \notin PaneIds(w)
  BY <1>2, <1>3, AddSessionFacts
<1>4. ASSUME NEW v, Placed(v, u, p, s)
      PROVE  Adds(v, w, s)
  <2>1. HiddenListed(v)
    BY <1>1, <1>4, MoreListed DEF Enlisted, Good, Placed
  <2> QED BY <1>1, <1>4, <2>1 DEF Adds, Placed, Enlisted, Good
<1>5. CASE ~ (w.mode # mode \/ p \notin PaneIds(w)) /\ ActiveIn(w, p) = Nobody
  <2> DEFINE a == Assign(u, p, s)
             v == [a EXCEPT !.focus = p]
  <2>1. p \in PaneIds(w) /\ At(w, p) = 0
    BY <1>0, <1>5, CorePane DEF Nobody
  <2>2. Core(u) /\ p \in PaneIds(u) /\ At(u, p) = 0 /\ s \in Range(u.list) /\ InNoOther(u, p, s)
    BY <1>1, <2>1 DEF Enlisted, Unplaced, InNoOther
  <2>3. Placed(a, u, p, s)
    BY <2>2, AssignPlaces
  <2>4. AddToPane(w, s, mode, p) = v
    BY <1>2, <1>5
  <2> HIDE DEF a
  <2>5. Adds(a, w, s)
    BY <1>4, <2>3
  <2>6. p \in PaneIds(a)
    BY <2>3, <2>2 DEF Placed
  <2>7. OnlyFocus(v, a)
    BY <2>6 DEF OnlyFocus
  <2> HIDE DEF v
  <2>8. Good(v) /\ v.list = a.list
    <3>1. Shape(a)
      BY <2>5, CoreView DEF Adds, Good
    <3> QED BY <2>5, <2>7, <3>1, FocusKeeps, OnlyFocusFacts DEF Adds
  <2> QED BY <2>4, <2>5, <2>8 DEF Adds
<1>6. CASE ~ (w.mode # mode \/ p \notin PaneIds(w)) /\ ActiveIn(w, p) # Nobody
  <2>1. p \in PaneIds(w) /\ At(w, p) # 0
    BY <1>0, <1>6, CorePane DEF Nobody
  <2>2. Core(u) /\ p \in PaneIds(u) /\ At(u, p) # 0 /\ s \in Range(u.list) /\ Unplaced(u, s)
    BY <1>1, <2>1 DEF Enlisted
  <2>3. Placed(InsertIntoGroup(u, p, s), u, p, s)
    BY <2>2, InsertPlaces
  <2>4. AddToPane(w, s, mode, p) = InsertIntoGroup(u, p, s)
    BY <1>2, <1>6
  <2> QED BY <1>4, <2>3, <2>4
<1> QED BY <1>3, <1>5, <1>6

(***************************************************************************)
(* Drops on the header and on the body of a pane.                          *)
(***************************************************************************)

(* A pane that shows the session s, and has no group, loses it.            *)
LEMMA AwayFacts ==
  ASSUME NEW w, Core(w), NEW p \in PaneIds(w), p \notin DOMAIN w.groups, NEW s, At(w, p) = s, s # 0
  PROVE  LET v == LayoutRemove(w, s) IN
         Core(v) /\ v.list = w.list /\ PaneIds(v) = PaneIds(w) /\ Unplaced(v, s)
<1> DEFINE v == LayoutRemove(w, s)
           S == {}
<1>1. Shape(w) /\ s \in Nat /\ s \in InPanes(w) /\ w.focus \in PaneIds(w) \cup {0}
  BY CorePane
<1>2. SlotOf(w, s) = p
  <2>1. s \in Tabs(w, p) /\ s \in Tabs(w, SlotOf(w, s))
    <3>1. s = At(w, SlotOf(w, s)) /\ SlotOf(w, s) \in PaneIds(w)
      BY <1>1, CoreView
    <3> QED BY <3>1, CorePane
  <2> QED BY <2>1, CoreView
<1>3. /\ Shape(v)
      /\ v.mode = w.mode /\ v.next = w.next /\ v.groups = w.groups /\ v.hidden = w.hidden /\ v.list = w.list
      /\ v.focus \in PaneIds(w) \cup {0}
      /\ Range(v.overflow) = Range(w.overflow)
      /\ Len(v.panes) = Len(w.panes) /\ PaneIds(v) = PaneIds(w)
      /\ \A q : At(v, q) = IF q = p THEN 0 ELSE At(w, q)
  <2>1. /\ Shape(v)
        /\ v.mode = w.mode /\ v.next = w.next /\ v.groups = w.groups /\ v.hidden = w.hidden /\ v.list = w.list
        /\ v.focus \in PaneIds(w) \cup {0}
        /\ Len(v.panes) = Len(w.panes) /\ PaneIds(v) = PaneIds(w)
    BY <1>1, LayoutRemoveFacts
  <2>2. Range(v.overflow) = Range(w.overflow)
    BY <1>1, LayoutRemoveFacts
  <2>3. \A q : At(v, q) = IF s \in InPanes(w) /\ q = SlotOf(w, s) THEN 0 ELSE At(w, q)
    BY <1>1, LayoutRemoveFacts
  <2> HIDE DEF v
  <2> QED BY <1>1, <1>2, <2>1, <2>2, <2>3
<1> HIDE DEF v
<1>4. At(v, p) = 0 /\ \A q : q # p => At(v, q) = At(w, q)
  BY <1>3
<1>5. Tabs(v, p) = {}
  BY <1>3, <1>4 DEF Tabs
<1>6. \A x \in Range(v.overflow) : x \in Range(v.list) /\ x # At(v, p) /\ x \in Range(w.overflow)
  BY <1>3, <1>4, CorePane
<1>7. IsInjective(w.list) /\ 0 \notin Range(w.list)
  BY CorePane
<1>8. OnePaneChanges(w, v, p, S)
  BY <1>1, <1>3, <1>4, <1>5, <1>6, <1>7 DEF OnePaneChanges
<1>9. Core(v) /\ \A q : q # p => Tabs(v, q) = Tabs(w, q)
  BY <1>8, OnePane
<1>10. Unplaced(v, s)
  <2> SUFFICES ASSUME NEW q, s \in Tabs(v, q) PROVE FALSE
    BY DEF Unplaced
  <2>1. q # p /\ s \in Tabs(w, q)
    BY <1>5, <1>9
  <2>2. s \in Tabs(w, p)
    BY CorePane
  <2> QED BY <2>1, <2>2, CoreView
<1> QED BY <1>3, <1>9, <1>10 DEF v

(* A session of no pane joins a pane.                                      *)
LEMMA JoinedFacts ==
  ASSUME NEW w, Core(w), NEW p \in PaneIds(w), NEW s \in Range(w.list), Unplaced(w, s)
  PROVE  Settles(Joined(w, s, p), w)
<1>1. s # 0
  BY CorePane
<1>2. s \notin InPanes(w)
  <2> SUFFICES ASSUME s \in InPanes(w) PROVE FALSE
    OBVIOUS
  <2>1. s = At(w, SlotOf(w, s)) /\ SlotOf(w, s) \in PaneIds(w)
    BY CoreView
  <2>2. s \in Tabs(w, SlotOf(w, s))
    BY <1>1, <2>1, CorePane
  <2> QED BY <2>2 DEF Unplaced
<1>3. ActiveIn(w, p) = At(w, p)
  BY CorePane
<1>4. CASE At(w, p) = 0
  <2> DEFINE v == Assign(w, p, s)
  <2>1. Placed(v, w, p, s)
    BY <1>4, AssignPlaces DEF Unplaced, InNoOther
  <2>2. CanAssign(w, p, s)
    BY <1>2, <1>4 DEF CanAssign, Nobody
  <2>3. Joined(w, s, p) = Focused(CleanedUp(v), s).w
    BY <1>3, <1>4, <2>2, Zenon DEF Joined, Nobody
  <2> HIDE DEF v
  <2> QED BY <1>1, <2>1, <2>3, PlacedSettles
<1>5. CASE At(w, p) # 0
  <2> DEFINE v == InsertIntoGroup(w, p, s)
  <2>1. Placed(v, w, p, s)
    BY <1>5, InsertPlaces
  <2>2. CanReplace(w, p, s)
    BY <1>2 DEF CanReplace
  <2>3. Joined(w, s, p) = Focused(CleanedUp(v), s).w
    BY <1>3, <1>5, <2>2, Zenon DEF Joined, Nobody
  <2> HIDE DEF v
  <2> QED BY <1>1, <2>1, <2>3, PlacedSettles
<1> QED BY <1>4, <1>5

(* group_session_into_pane.                                                *)
LEMMA GroupIntoFacts ==
  ASSUME NEW w, Good(w), NEW p \in PaneIds(w), NEW s
  PROVE  Settles(GroupInto(w, s, p), w)
<1> DEFINE from == PaneOf(w, s)
           u == IF Grouped(w, from) THEN LeaveGroup(w, from, s) ELSE LayoutRemove(w, s)
<1>0. Core(w)
  BY DEF Good
<1>1. CASE from \in {0, p}
  <2>1. GroupInto(w, s, p) = w
    BY <1>1 DEF GroupInto, NoPane
  <2> QED BY <2>1 DEF Settles
<1>2. CASE from \notin {0, p}
  <2>1. from \in PaneIds(w) /\ s \in Tabs(w, from)
    BY <1>0, <1>2, PaneOfFacts
  <2>2. s \in Range(w.list) /\ s \in Nat /\ s # 0
    BY <1>0, <2>1, CoreView, CorePane
  <2>3. Core(u) /\ u.list = w.list /\ PaneIds(u) = PaneIds(w) /\ Unplaced(u, s)
    <3>1. CASE from \in DOMAIN w.groups
      <4>1. Left(LeaveGroup(w, from, s), w, from, s)
        BY <1>0, <2>2, LeaveGroupFacts
      <4>2. u = LeaveGroup(w, from, s)
        BY <3>1 DEF Grouped
      <4> HIDE DEF u, from
      <4> QED BY <3>1, <4>1, <4>2 DEF Left, Unplaced
    <3>2. CASE from \notin DOMAIN w.groups
      <4>1. At(w, from) = s
        BY <1>0, <2>1, <3>2, CorePane
      <4>2. u = LayoutRemove(w, s)
        BY <3>2 DEF Grouped
      <4> HIDE DEF u, from
      <4> QED BY <1>0, <2>1, <2>2, <3>2, <4>1, <4>2, AwayFacts
    <3> QED BY <3>1, <3>2
  <2>4. GroupInto(w, s, p) = Joined(u, s, p)
    BY <1>2, Zenon DEF GroupInto, NoPane
  <2> HIDE DEF u, from
  <2>5. Settles(Joined(u, s, p), u)
    BY <2>2, <2>3, JoinedFacts
  <2> QED BY <2>3, <2>4, <2>5 DEF Settles
<1> QED BY <1>1, <1>2

(* swap_sessions: the two panes change places, with their groups.          *)
Swapped(x, p, r) == IF x = p THEN r ELSE IF x = r THEN p ELSE x

(* The exchange of p and r is its own inverse.                             *)
LEMMA SwappedFacts ==
  ASSUME NEW I, NEW p \in I, NEW r \in I
  PROVE  /\ \A x : Swapped(Swapped(x, p, r), p, r) = x
         /\ \A x \in I : Swapped(x, p, r) \in I
         /\ \A x : Swapped(x, p, r) \in I => x \in I
         /\ 0 \notin I => Swapped(0, p, r) = 0
BY DEF Swapped

(* swap_sessions keeps the workspace tidy.                                 *)
LEMMA SwapPanesFacts ==
  ASSUME NEW w, Good(w), NEW i \in DOMAIN w.panes, NEW j \in DOMAIN w.panes, i # j
  PROVE  Settles(SwapPanes(w, i, j), w)
<1> DEFINE p == w.panes[i].id
           r == w.panes[j].id
           other(x) == Swapped(x, p, r)
           ps == [k \in DOMAIN w.panes |-> Pane(w.panes[k].id, At(w, other(w.panes[k].id)))]
           D == {other(y) : y \in DOMAIN w.groups}
           gs == [x \in D |-> w.groups[other(x)]]
           f == IF w.mode = "grid" THEN other(w.focus) ELSE w.focus
           v == SwapPanes(w, i, j)
<1>0. /\ Core(w) /\ Sound(w) /\ Neat(w) /\ Tidy(w) /\ Shape(w) /\ w \in Workspace /\ w.panes \in PaneSeqs
      /\ DOMAIN w.groups \subseteq PaneIds(w) /\ w.focus \in PaneIds(w) \cup {0}
  BY WorkspaceFields DEF Good, Core, Sound, Shape
<1>1. v = [w EXCEPT !.panes = ps, !.groups = gs, !.focus = f]
  BY DEF SwapPanes, Swapped
<1>2. p \in PaneIds(w) /\ r \in PaneIds(w) /\ PaneIds(w) \subseteq Nat \ {0}
  BY <1>0, View
<1> HIDE DEF p, r
<1>3. /\ \A x : other(other(x)) = x
      /\ \A x \in PaneIds(w) : other(x) \in PaneIds(w)
      /\ \A x : other(x) \in PaneIds(w) => x \in PaneIds(w)
      /\ other(0) = 0
  BY <1>2, SwappedFacts
<1> HIDE DEF other
<1>4. /\ ps \in PaneSeqs /\ DOMAIN ps = DOMAIN w.panes /\ Len(ps) = Len(w.panes)
      /\ \A k \in DOMAIN ps : ps[k].id = w.panes[k].id /\ ps[k].at = At(w, other(w.panes[k].id))
  <2>1. DOMAIN w.panes = 1 .. Len(w.panes) /\ Len(w.panes) \in Nat
    BY <1>0, PaneSeqFacts
  <2>2. \A k \in DOMAIN w.panes : ps[k] \in PaneRec
    BY <1>0, View, PaneSeqFacts DEF PaneRec, Pane
  <2>3. ps \in [1 .. Len(w.panes) -> PaneRec]
    BY <2>1, <2>2
  <2>4. \A k \in DOMAIN ps : ps[k].id = w.panes[k].id /\ ps[k].at = At(w, other(w.panes[k].id))
    BY DEF Pane
  <2> HIDE DEF ps
  <2> QED BY <2>1, <2>3, <2>4, FunctionIsSeq DEF PaneSeqs
<1> HIDE DEF ps
<1>5. /\ DOMAIN gs = D /\ D \subseteq PaneIds(w)
      /\ \A x : x \in D <=> other(x) \in DOMAIN w.groups
      /\ \A x \in D : gs[x] = w.groups[other(x)]
  <2>1. \A x : x \in D <=> other(x) \in DOMAIN w.groups
    BY <1>3
  <2>2. D \subseteq PaneIds(w)
    BY <1>0, <1>3, <2>1
  <2> QED BY <2>1, <2>2
<1>6. gs \in Groupings
  <2>1. \A x \in D : gs[x] \in StackRec
    BY <1>0, <1>5, CoreView
  <2>2. gs = [x \in DOMAIN gs |-> gs[x]]
    OBVIOUS
  <2> HIDE DEF gs, D
  <2> QED BY <1>2, <1>5, <2>1, <2>2, GroupingFacts
<1> HIDE DEF D, gs
<1>7. f \in PaneIds(w) \cup {0} /\ f \in Nat
  BY <1>0, <1>2, <1>3
<1> HIDE DEF f
<1>8. /\ v \in Workspace /\ v.panes = ps /\ v.groups = gs /\ v.focus = f
      /\ v.mode = w.mode /\ v.overflow = w.overflow /\ v.next = w.next
      /\ v.hidden = w.hidden /\ v.list = w.list
  BY <1>0, <1>1, <1>4, <1>6, <1>7 DEF Workspace
<1> HIDE DEF v
<1>9. Shape(v)
  <2>1. ps # <<>>
    BY <1>0, <1>4, PaneSeqFacts DEF Shape
  <2> QED BY <1>0, <1>4, <1>8, <2>1 DEF Shape
<1>10. PaneIds(v) = PaneIds(w)
  BY <1>4, <1>8 DEF PaneIds
<1>11. \A x : At(v, x) = At(w, other(x))
  <2> SUFFICES ASSUME NEW x PROVE At(v, x) = At(w, other(x))
    OBVIOUS
  <2>1. CASE x \notin PaneIds(w)
    BY <1>0, <1>3, <1>9, <1>10, <2>1, View
  <2>2. CASE x \in PaneIds(w)
    <3>1. PICK k \in DOMAIN w.panes : w.panes[k].id = x
      BY <1>0, <2>2, View
    <3>2. k \in DOMAIN v.panes /\ v.panes[k].id = x /\ v.panes[k].at = At(w, other(x))
      BY <1>4, <1>8, <3>1
    <3> QED BY <1>9, <3>2, View
  <2> QED BY <2>1, <2>2
<1>12. InPanes(v) = InPanes(w)
  <2>1. InPanes(v) = {At(v, x) : x \in PaneIds(w)} \ {0}
    BY <1>9, <1>10, View
  <2>2. InPanes(w) = {At(w, x) : x \in PaneIds(w)} \ {0}
    BY <1>0, View
  <2> QED BY <1>3, <1>11, <2>1, <2>2
<1>13. \A x : Tabs(v, x) = Tabs(w, other(x))
  <2> SUFFICES ASSUME NEW x PROVE Tabs(v, x) = Tabs(w, other(x))
    OBVIOUS
  <2>1. x \in DOMAIN v.groups <=> other(x) \in DOMAIN w.groups
    BY <1>5, <1>8
  <2>2. x \in DOMAIN v.groups => v.groups[x] = w.groups[other(x)]
    BY <1>5, <1>8
  <2> QED BY <1>11, <2>1, <2>2 DEF Tabs
<1>14. \A x \in DOMAIN v.groups : /\ other(x) \in DOMAIN w.groups
                                  /\ v.groups[x] = w.groups[other(x)]
  BY <1>5, <1>8
<1>15. Sound(v)
  <2>1. InPanes(v) \cup Range(v.overflow) \subseteq Range(v.list)
    BY <1>0, <1>8, <1>12 DEF Sound
  <2>2. \A x \in DOMAIN v.groups : Range(v.groups[x].tabs) \subseteq Range(v.list)
    BY <1>0, <1>8, <1>14 DEF Sound
  <2>3. IsInjective(v.list) /\ 0 \notin Range(v.list)
    BY <1>0, <1>8 DEF Sound
  <2> QED BY <1>5, <1>7, <1>8, <1>9, <1>10, <2>1, <2>2, <2>3 DEF Sound
<1>16. Tidy(v)
  <2>1. \A x, y \in PaneIds(v) : x # y => Tabs(v, x) \cap Tabs(v, y) = {}
    <3> SUFFICES ASSUME NEW x \in PaneIds(v), NEW y \in PaneIds(v), NEW z, z \in Tabs(v, x), z \in Tabs(v, y)
                 PROVE  x = y
      OBVIOUS
    <3>1. other(x) = other(y)
      BY <1>0, <1>13, CoreView
    <3> QED BY <1>3, <3>1
  <2>2. \A x \in DOMAIN v.groups : /\ At(v, x) = v.groups[x].active
                                   /\ v.groups[x].active \in Range(v.groups[x].tabs)
    BY <1>0, <1>11, <1>14, TidyView
  <2> QED BY <1>9, <2>1, <2>2, TidyView
<1>17. Neat(v)
  <2>1. \A x \in DOMAIN v.groups : IsInjective(v.groups[x].tabs) /\ Len(v.groups[x].tabs) > 1
    BY <1>0, <1>14 DEF Neat
  <2>2. GroupTabs(v) \subseteq GroupTabs(w)
    BY <1>14 DEF GroupTabs
  <2>3. Len(v.panes) = Len(w.panes)
    BY <1>4, <1>8
  <2> QED BY <1>0, <1>8, <1>12, <2>1, <2>2, <2>3 DEF Neat
<1>18. FullOrNone(v)
  <2> SUFFICES ASSUME v.mode = "grid", Len(v.panes) = 1 PROVE FALSE
    BY DEF FullOrNone
  <2>1. Len(w.panes) = 1
    BY <1>4, <1>8
  <2> QED BY <1>0, <2>1, PaneCount
<1>19. HiddenListed(v)
  BY <1>8 DEF HiddenListed, Good
<1> QED BY <1>8, <1>15, <1>16, <1>17, <1>18, <1>19 DEF Settles, Good, Core, v

(***************************************************************************)
(* The stacks of all sessions, which a change of the layout keeps.         *)
(***************************************************************************)

(* Stacks of which no two have a tab in common, as a set.                  *)
Apart(R) ==
  /\ \A st \in R : st \in StackRec /\ IsInjective(st.tabs) /\ st.active \in Range(st.tabs)
  /\ \A s, t \in R : \A x \in Range(s.tabs) : x \in Range(t.tabs) => s = t

(* The tabs of a set of stacks.                                            *)
TabsIn(R) == UNION {Range(st.tabs) : st \in R}

(* Disjoint stacks, as a set.                                              *)
LEMMA DisjointView ==
  ASSUME NEW q \in StackSeqs
  PROVE  /\ Disjoint(q) <=> IsInjective(q) /\ Apart(Range(q))
         /\ Held(q) = TabsIn(Range(q))
<1>1. /\ Range(q) = {q[i] : i \in DOMAIN q}
      /\ \A i \in DOMAIN q : q[i] \in StackRec /\ q[i] \in Range(q)
      /\ \A st \in Range(q) : \E i \in DOMAIN q : st = q[i]
  BY StackSeqFacts DEF Range
<1>2. Held(q) = TabsIn(Range(q))
  BY <1>1 DEF Held, TabsIn
<1>3. ASSUME Disjoint(q) PROVE IsInjective(q) /\ Apart(Range(q))
  <2>1. /\ \A i \in DOMAIN q : IsInjective(q[i].tabs) /\ q[i].active \in Range(q[i].tabs)
        /\ \A i, j \in DOMAIN q : \A x \in Range(q[i].tabs) : x \in Range(q[j].tabs) => i = j
    BY <1>3 DEF Disjoint, Stacked
  <2>2. IsInjective(q)
    <3> SUFFICES ASSUME NEW i \in DOMAIN q, NEW j \in DOMAIN q, q[i] = q[j] PROVE i = j
      BY Zenon DEF IsInjective
    <3>1. q[i].active \in Range(q[i].tabs) /\ q[i].active \in Range(q[j].tabs)
      BY <2>1
    <3> QED BY <2>1, <3>1
  <2>3. \A st \in Range(q) : st \in StackRec /\ IsInjective(st.tabs) /\ st.active \in Range(st.tabs)
    BY <1>1, <2>1
  <2>4. ASSUME NEW s \in Range(q), NEW t \in Range(q), NEW x \in Range(s.tabs), x \in Range(t.tabs)
        PROVE  s = t
    <3>1. PICK i \in DOMAIN q : s = q[i]
      BY <1>1
    <3>2. PICK j \in DOMAIN q : t = q[j]
      BY <1>1
    <3>3. i = j
      BY <2>1, <2>4, <3>1, <3>2
    <3> QED BY <3>1, <3>2, <3>3
  <2> QED BY <2>2, <2>3, <2>4 DEF Apart
<1>4. ASSUME IsInjective(q), Apart(Range(q)) PROVE Disjoint(q)
  <2>1. Stacked(q)
    BY <1>1, <1>4 DEF Apart, Stacked
  <2>2. ASSUME NEW i \in DOMAIN q, NEW j \in DOMAIN q, NEW x \in Range(q[i].tabs), x \in Range(q[j].tabs)
        PROVE  i = j
    <3>1. q[i] = q[j]
      BY <1>1, <1>4, <2>2 DEF Apart
    <3> QED BY <1>4, <3>1 DEF IsInjective
  <2> QED BY <2>1, <2>2 DEF Disjoint
<1> QED BY <1>2, <1>3, <1>4

(* What holds of the parts holds of the whole.                             *)
LEMMA ApartUnion ==
  ASSUME NEW P, NEW Q, Apart(P), Apart(Q), TabsIn(P) \cap TabsIn(Q) = {}
  PROVE  Apart(P \cup Q) /\ TabsIn(P \cup Q) = TabsIn(P) \cup TabsIn(Q) /\ P \cap Q = {}
<1>1. \A s \in P : \A t \in Q : \A x : ~ (x \in Range(s.tabs) /\ x \in Range(t.tabs))
  BY DEF TabsIn
<1>2. Apart(P \cup Q)
  <2>1. \A st \in P \cup Q : st \in StackRec /\ IsInjective(st.tabs) /\ st.active \in Range(st.tabs)
    BY DEF Apart
  <2>2. ASSUME NEW s \in P \cup Q, NEW t \in P \cup Q, NEW x \in Range(s.tabs), x \in Range(t.tabs)
        PROVE  s = t
    BY <1>1, <2>2 DEF Apart
  <2> QED BY <2>1, <2>2 DEF Apart
<1>3. TabsIn(P \cup Q) = TabsIn(P) \cup TabsIn(Q)
  BY DEF TabsIn
<1>4. P \cap Q = {}
  <2> SUFFICES ASSUME NEW s \in P, s \in Q PROVE FALSE
    OBVIOUS
  <2>1. s.active \in Range(s.tabs)
    BY DEF Apart
  <2> QED BY <1>1, <2>1
<1> QED BY <1>2, <1>3, <1>4

(* Two sequences of stacks, one after the other.                           *)
Parted(q, R) == q \in StackSeqs /\ IsInjective(q) /\ Range(q) = R /\ Apart(R)

(* q is u and then v.                                                      *)
Follows(q, u, v) == q = u \o v

(* They are parted, when no stack of one has a tab of the other.           *)
LEMMA ConcatParted ==
  ASSUME NEW u, NEW v, NEW P, NEW Q, Parted(u, P), Parted(v, Q), TabsIn(P) \cap TabsIn(Q) = {},
         NEW q, Follows(q, u, v)
  PROVE  Parted(q, P \cup Q) /\ TabsIn(P \cup Q) = TabsIn(P) \cup TabsIn(Q)
<1>1. Apart(P \cup Q) /\ TabsIn(P \cup Q) = TabsIn(P) \cup TabsIn(Q) /\ P \cap Q = {}
  BY ApartUnion DEF Parted
<1>2. u \in Seq(StackRec) /\ v \in Seq(StackRec) /\ Range(u) = P /\ Range(v) = Q
      /\ IsInjective(u) /\ IsInjective(v)
  BY DEF Parted, StackSeqs
<1>3. u \o v \in Seq(StackRec) /\ IsInjective(u \o v)
  BY <1>1, <1>2, ConcatInjective
<1>4. Range(u \o v) = P \cup Q
  BY <1>2, RangeConcatenation
<1> QED BY <1>1, <1>3, <1>4 DEF Parted, StackSeqs, Follows

(* Sessions, each a stack of its own.                                      *)
Alone(x) == Stack(<<x>>, x)

(* Sessions without repetition make parted stacks.                         *)
LEMMA SinglesFacts ==
  ASSUME NEW l \in Seq(Nat), IsInjective(l), NEW R, R = {Alone(x) : x \in Range(l)}
  PROVE  Parted(Singles(l), R) /\ TabsIn(R) = Range(l)
<1> DEFINE q == Singles(l)
<1>1. DOMAIN l = 1 .. Len(l) /\ Len(l) \in Nat /\ \A i \in DOMAIN l : l[i] \in Nat /\ l[i] \in Range(l)
  BY DEF Range
<1>2. ASSUME NEW x \in Nat
      PROVE  /\ Alone(x) \in StackRec /\ Range(Alone(x).tabs) = {x}
             /\ IsInjective(Alone(x).tabs) /\ Alone(x).active = x
  <2>1. <<x>> \in Seq(Nat)
    OBVIOUS
  <2>2. Alone(x) \in StackRec /\ Alone(x).tabs = <<x>> /\ Alone(x).active = x
    BY <2>1, StackOf DEF Alone
  <2>3. Range(<<x>>) = {x} /\ IsInjective(<<x>>)
    BY Zenon, SingletonRange
  <2> QED BY <2>2, <2>3
<1>3. DOMAIN q = 1 .. Len(l) /\ \A i \in DOMAIN q : q[i] = Alone(l[i])
  <2>1. q = [i \in DOMAIN l |-> Alone(l[i])]
    BY Zenon DEF Singles, Alone
  <2> HIDE DEF q
  <2> QED BY <1>1, <2>1
<1>4. q \in Seq(StackRec)
  <2>1. q \in [1 .. Len(l) -> StackRec]
    <3>1. q = [i \in DOMAIN q |-> q[i]]
      BY Zenon DEF Singles
    <3> HIDE DEF q
    <3>2. ASSUME NEW i \in 1 .. Len(l) PROVE q[i] \in StackRec
      <4>1. l[i] \in Nat /\ q[i] = Alone(l[i])
        BY <1>1, <1>3
      <4> QED BY <1>2, <4>1
    <3> QED BY <1>3, <3>1, <3>2
  <2> HIDE DEF q
  <2> QED BY <1>1, <2>1, FunctionIsSeq
<1> HIDE DEF q
<1>5. IsInjective(q)
  <2> SUFFICES ASSUME NEW i \in DOMAIN q, NEW j \in DOMAIN q, q[i] = q[j] PROVE i = j
    BY Zenon DEF IsInjective
  <2>1. q[i].active = l[i] /\ q[j].active = l[j]
    BY <1>1, <1>2, <1>3
  <2> QED BY <1>1, <1>3, <2>1 DEF IsInjective
<1>6. Range(q) = R
  <2>1. Range(q) = {q[i] : i \in DOMAIN q}
    BY DEF Range
  <2>2. Range(q) \subseteq R
    BY <1>1, <1>3, <2>1
  <2>3. \A x \in Range(l) : \E i \in DOMAIN q : q[i] = Alone(x)
    BY <1>1, <1>3 DEF Range
  <2>4. R \subseteq Range(q)
    BY <2>1, <2>3
  <2> QED BY <2>2, <2>4
<1>7. Range(l) \subseteq Nat
  BY <1>1 DEF Range
<1>8. \A st \in R : \E x \in Range(l) : st \in StackRec /\ st = Alone(x)
                      /\ Range(st.tabs) = {x} /\ IsInjective(st.tabs) /\ st.active = x
  BY <1>2, <1>7
<1>9. \A x \in Range(l) : \E st \in R : Range(st.tabs) = {x}
  BY <1>2, <1>7
<1>10. Apart(R)
  <2>1. ASSUME NEW s \in R, NEW t \in R, NEW x \in Range(s.tabs), x \in Range(t.tabs) PROVE s = t
    <3>1. PICK y \in Range(l) : s = Alone(y) /\ Range(s.tabs) = {y}
      BY <1>8
    <3>2. PICK z \in Range(l) : t = Alone(z) /\ Range(t.tabs) = {z}
      BY <1>8
    <3> QED BY <2>1, <3>1, <3>2
  <2>2. \A st \in R : st \in StackRec /\ IsInjective(st.tabs) /\ st.active \in Range(st.tabs)
    <3> SUFFICES ASSUME NEW st \in R
                 PROVE  st \in StackRec /\ IsInjective(st.tabs) /\ st.active \in Range(st.tabs)
      OBVIOUS
    <3>1. PICK y \in Range(l) : /\ st \in StackRec /\ Range(st.tabs) = {y}
                                /\ IsInjective(st.tabs) /\ st.active = y
      BY <1>8
    <3> QED BY <3>1
  <2> QED BY <2>1, <2>2 DEF Apart
<1>11. TabsIn(R) = Range(l)
  <2>1. ASSUME NEW x \in TabsIn(R) PROVE x \in Range(l)
    <3>1. PICK st \in R : x \in Range(st.tabs)
      BY DEF TabsIn
    <3>2. PICK y \in Range(l) : Range(st.tabs) = {y}
      BY <1>8
    <3> QED BY <3>1, <3>2
  <2>2. ASSUME NEW x \in Range(l) PROVE x \in TabsIn(R)
    <3>1. PICK st \in R : Range(st.tabs) = {x}
      BY <1>9
    <3> QED BY <3>1 DEF TabsIn
  <2> QED BY <2>1, <2>2
<1> QED BY <1>4, <1>5, <1>6, <1>10, <1>11 DEF Parted, StackSeqs, q

(* R has one stack for each pane that shows something, of its tabs.        *)
PaneParts(R, w) ==
  /\ \A p \in PaneIds(w) : Tabs(w, p) # {} => \E st \in R : Range(st.tabs) = Tabs(w, p) /\ st.active = At(w, p)
  /\ \A st \in R : \E p \in PaneIds(w) : /\ Range(st.tabs) = Tabs(w, p) /\ st.active = At(w, p)
                                         /\ At(w, p) \in Tabs(w, p)

(* The stacks of the panes, with those that have nothing.                  *)
AllPaneStacks(w) == [i \in DOMAIN w.panes |-> Stack(TabsOf(w, w.panes[i].id), ActiveIn(w, w.panes[i].id))]

(* Each has the tabs of its pane.                                          *)
LEMMA AllPaneStacksFacts ==
  ASSUME NEW w, Core(w)
  PROVE  /\ AllPaneStacks(w) \in StackSeqs
         /\ DOMAIN AllPaneStacks(w) = DOMAIN w.panes
         /\ \A i \in DOMAIN w.panes :
              LET st == AllPaneStacks(w)[i] IN
              /\ Range(st.tabs) = Tabs(w, w.panes[i].id) /\ st.active = At(w, w.panes[i].id)
              /\ st.tabs \in Seq(Nat) /\ IsInjective(st.tabs)
<1> DEFINE k == AllPaneStacks(w)
<1>1. Shape(w) /\ DOMAIN w.panes = 1 .. Len(w.panes) /\ Len(w.panes) \in Nat
      /\ \A i \in DOMAIN w.panes : w.panes[i].id \in PaneIds(w)
  BY CoreView, PaneCount, View
<1>2. ASSUME NEW i \in DOMAIN w.panes
      PROVE  /\ k[i] \in StackRec
             /\ Range(k[i].tabs) = Tabs(w, w.panes[i].id) /\ k[i].active = At(w, w.panes[i].id)
             /\ k[i].tabs \in Seq(Nat) /\ IsInjective(k[i].tabs)
  <2> DEFINE p == w.panes[i].id
             t == TabsOf(w, p)
             a == ActiveIn(w, p)
  <2>1. p \in PaneIds(w)
    BY <1>1
  <2>2. k[i] = Stack(t, a)
    BY DEF AllPaneStacks
  <2> HIDE DEF k, p
  <2>3. t \in Seq(Nat) /\ IsInjective(t) /\ Range(t) = Tabs(w, p)
    BY <2>1, TabsOfFacts
  <2>4. a = At(w, p) /\ a \in Nat
    BY <2>1, CorePane
  <2> HIDE DEF t, a
  <2>5. k[i] \in StackRec /\ k[i].tabs = t /\ k[i].active = a
    BY <2>2, <2>3, <2>4, StackOf
  <2> QED BY <2>3, <2>4, <2>5 DEF p
<1>3. k \in [1 .. Len(w.panes) -> StackRec]
  <2>1. k = [i \in 1 .. Len(w.panes) |-> k[i]]
    BY <1>1 DEF AllPaneStacks
  <2> HIDE DEF k
  <2> QED BY <1>1, <1>2, <2>1
<1> HIDE DEF k
<1>4. k \in StackSeqs /\ DOMAIN k = DOMAIN w.panes
  BY <1>1, <1>3, FunctionIsSeq DEF StackSeqs
<1> QED BY <1>2, <1>4 DEF k

(* current_pane_stacks_in_order, up to the stacks without a pane.          *)
LEMMA PaneStacksFacts ==
  ASSUME NEW w, Core(w)
  PROVE  \E R : /\ Parted(PaneStacks(w), R) /\ PaneParts(R, w)
                /\ Held(PaneStacks(w)) = TabsIn(R)
                /\ TabsIn(R) \subseteq Range(w.list)
<1> DEFINE k == AllPaneStacks(w)
           q == PaneStacks(w)
           R == Range(q)
<1>1. /\ k \in StackSeqs /\ DOMAIN k = DOMAIN w.panes
      /\ \A i \in DOMAIN w.panes : /\ Range(k[i].tabs) = Tabs(w, w.panes[i].id)
                                   /\ k[i].active = At(w, w.panes[i].id)
                                   /\ IsInjective(k[i].tabs)
  BY AllPaneStacksFacts
<1>2. q = NonEmpty(k)
  BY Zenon DEF PaneStacks, AllPaneStacks
<1> HIDE DEF k, q
<1>3. /\ Shape(w)
      /\ \A i \in DOMAIN w.panes : w.panes[i].id \in PaneIds(w)
      /\ \A p \in PaneIds(w) : \E i \in DOMAIN w.panes : w.panes[i].id = p
  BY CoreView, View
<1>4. ASSUME NEW p \in PaneIds(w) PROVE Tabs(w, p) # {} => At(w, p) \in Tabs(w, p)
  <2>1. CASE p \in DOMAIN w.groups
    BY <2>1, CorePane
  <2>2. CASE p \notin DOMAIN w.groups
    BY <2>2, CorePane
  <2> QED BY <2>1, <2>2
<1>5. \A i \in DOMAIN k : /\ IsInjective(k[i].tabs)
                          /\ k[i].tabs # <<>> => k[i].active \in Range(k[i].tabs)
  <2> SUFFICES ASSUME NEW i \in DOMAIN k
               PROVE  IsInjective(k[i].tabs) /\ (k[i].tabs # <<>> => k[i].active \in Range(k[i].tabs))
    OBVIOUS
  <2>1. k[i].tabs # <<>> => Range(k[i].tabs) # {}
    BY <1>1, StackSeqFacts
  <2> QED BY <1>1, <1>3, <1>4, <2>1
<1>6. \A i, j \in DOMAIN k : \A x \in Range(k[i].tabs) : x \in Range(k[j].tabs) => i = j
  <2> SUFFICES ASSUME NEW i \in DOMAIN k, NEW j \in DOMAIN k, NEW x \in Range(k[i].tabs), x \in Range(k[j].tabs)
               PROVE  i = j
    OBVIOUS
  <2>1. w.panes[i].id = w.panes[j].id
    BY <1>1, CoreView
  <2> QED BY <1>1, <1>3, <2>1 DEF Shape
<1>7. Disjoint(q) /\ R = {st \in Range(k) : st.tabs # <<>>} /\ Held(q) = Held(k)
  BY <1>1, <1>2, <1>5, <1>6, NonEmptyFacts
<1>8. Parted(q, R) /\ Held(q) = TabsIn(R)
  <2>1. q \in StackSeqs
    BY <1>7 DEF Disjoint
  <2> QED BY <1>7, <2>1, DisjointView DEF Parted
<1>9. PaneParts(R, w)
  <2>1. ASSUME NEW p \in PaneIds(w), Tabs(w, p) # {}
        PROVE  \E st \in R : Range(st.tabs) = Tabs(w, p) /\ st.active = At(w, p)
    <3>1. PICK i \in DOMAIN w.panes : w.panes[i].id = p
      BY <1>3
    <3>2. k[i] \in Range(k) /\ Range(k[i].tabs) = Tabs(w, p) /\ k[i].active = At(w, p) /\ k[i].tabs # <<>>
      <4>1. k[i].tabs = <<>> <=> Range(k[i].tabs) = {}
        BY <1>1, StackSeqFacts
      <4> QED BY <1>1, <2>1, <3>1, <4>1 DEF Range
    <3> QED BY <1>7, <3>2
  <2>2. ASSUME NEW st \in R
        PROVE  \E p \in PaneIds(w) : Range(st.tabs) = Tabs(w, p) /\ st.active = At(w, p) /\ At(w, p) \in Tabs(w, p)
    <3>1. PICK i \in DOMAIN k : st = k[i] /\ k[i].tabs # <<>>
      BY <1>7 DEF Range
    <3>2. Range(k[i].tabs) # {}
      BY <1>1, <3>1, StackSeqFacts
    <3> QED BY <1>1, <1>3, <1>4, <3>1, <3>2
  <2> QED BY <2>1, <2>2 DEF PaneParts
<1>10. TabsIn(R) \subseteq Range(w.list)
  <2> SUFFICES ASSUME NEW st \in R, NEW x \in Range(st.tabs) PROVE x \in Range(w.list)
    BY DEF TabsIn
  <2>1. PICK p : x \in Tabs(w, p)
    BY <1>9 DEF PaneParts
  <2> QED BY <2>1, CoreView
<1> QED BY <1>8, <1>9, <1>10 DEF q

(* The stacks of all sessions: those of the panes, those that wait, and    *)
(* the sessions that neither has.                                          *)
LongStacks(w) == AndRest(w, AndHidden(w, PaneStacks(w)))

(* P are the stacks of the panes, H those that wait, T those of the        *)
(* sessions that are left.                                                 *)
ThreeParts(P, H, T, w) ==
  /\ PaneParts(P, w)
  /\ Parted(LongStacks(w), P \cup H \cup T)
  /\ H = Range(Unclaimed(w.hidden, TabsIn(P), Range(w.list)))
  /\ TabsIn(T) = Range(w.list) \ (TabsIn(P) \cup TabsIn(H))
  /\ TabsIn(P \cup H \cup T) = Range(w.list)

(* current_pane_stacks_in_order has these parts.                           *)
LEMMA LongStacksFacts ==
  ASSUME NEW w, Core(w)
  PROVE  \E P, H, T : ThreeParts(P, H, T, w)
<1> DEFINE q1 == PaneStacks(w)
<1>1. PICK P : Parted(q1, P) /\ PaneParts(P, w) /\ Held(q1) = TabsIn(P) /\ TabsIn(P) \subseteq Range(w.list)
  BY PaneStacksFacts
<1> DEFINE h == Unclaimed(w.hidden, TabsIn(P), Range(w.list))
           H == Range(h)
           q2 == q1 \o h
           l == RetainAll(w.list, Range(w.list) \ Held(q2))
           T == {Alone(x) : x \in Range(l)}
           q3 == Singles(l)
           q == q2 \o q3
<1>2. LongStacks(w) = q
  BY <1>1, Zenon DEF LongStacks, AndRest, AndHidden
<1> HIDE DEF q1
<1>3. w.list \in Seq(Nat) /\ IsInjective(w.list) /\ w.hidden \in StackSeqs /\ Stacked(w.hidden)
  BY WorkspaceFields DEF Core, Sound, Neat, Shape, IdSeqs
<1>4. Disjoint(h) /\ Held(h) = Held(w.hidden) \cap (Range(w.list) \ TabsIn(P))
  BY <1>3, UnclaimedFacts
<1> HIDE DEF h
<1>5. Parted(h, H) /\ TabsIn(H) \cap TabsIn(P) = {} /\ TabsIn(H) \subseteq Range(w.list)
  <2>1. h \in StackSeqs
    BY <1>4 DEF Disjoint
  <2> QED BY <1>4, <2>1, DisjointView DEF Parted
<1> HIDE DEF H
<1>6. Parted(q2, P \cup H) /\ TabsIn(P \cup H) = TabsIn(P) \cup TabsIn(H)
  <2>1. TabsIn(P) \cap TabsIn(H) = {}
    BY <1>5
  <2>2. Follows(q2, q1, h)
    BY DEF Follows
  <2> HIDE DEF q2
  <2> QED BY <1>1, <1>5, <2>1, <2>2, ConcatParted
<1> HIDE DEF q2
<1>7. Held(q2) = TabsIn(P) \cup TabsIn(H)
  BY <1>6, DisjointView DEF Parted
<1>8. l \in Seq(Nat) /\ IsInjective(l) /\ Range(l) = Range(w.list) \ (TabsIn(P) \cup TabsIn(H))
  <2>1. l \in Seq(Nat) /\ Range(l) = Range(w.list) \cap (Range(w.list) \ Held(q2))
    BY <1>3, RetainAllRange
  <2>2. IsInjective(l)
    BY <1>3, RetainAllInjective
  <2> QED BY <1>7, <2>1, <2>2
<1> HIDE DEF l
<1>9. Parted(q3, T) /\ TabsIn(T) = Range(l)
  <2>1. T = {Alone(x) : x \in Range(l)}
    OBVIOUS
  <2> HIDE DEF T
  <2> QED BY <1>8, <2>1, SinglesFacts
<1> HIDE DEF q3, T
<1> DEFINE PH == P \cup H
<1>10. Parted(q, PH \cup T) /\ TabsIn(PH \cup T) = TabsIn(PH) \cup TabsIn(T)
  <2>1. TabsIn(PH) \cap TabsIn(T) = {}
    BY <1>6, <1>8, <1>9
  <2>2. Follows(q, q2, q3) /\ Parted(q2, PH)
    BY <1>6 DEF Follows
  <2> HIDE DEF q, PH
  <2> QED BY <1>9, <2>1, <2>2, ConcatParted
<1>11. TabsIn(PH \cup T) = Range(w.list)
  BY <1>1, <1>5, <1>6, <1>8, <1>9, <1>10
<1>12. TabsIn(T) = Range(w.list) \ (TabsIn(P) \cup TabsIn(H))
  BY <1>8, <1>9
<1> HIDE DEF q
<1>13. ThreeParts(P, H, T, w)
  BY <1>1, <1>2, <1>10, <1>11, <1>12 DEF ThreeParts, H, h
<1> QED BY <1>13

(* q divides the sessions of w into stacks; what a pane shows is the       *)
(* active tab of one.                                                      *)
Division(q, w) ==
  /\ Parted(q, Range(q))
  /\ TabsIn(Range(q)) = Range(w.list)
  /\ \A x \in InPanes(w) : \E st \in Range(q) : st.active = x

(* The sets of tabs of a set of stacks.                                    *)
SetsOf(R) == {Range(st.tabs) : st \in R}

(* What current_pane_stacks_in_order returns for a single cell without     *)
(* groups.                                                                 *)
AllSingle(w) == /\ w.mode = "grid" /\ Len(w.panes) = 1 /\ DOMAIN w.groups = {}
                /\ \A i \in DOMAIN w.hidden : Len(w.hidden[i].tabs) = 1

(* The two cases of current_pane_stacks_in_order.                          *)
LEMMA StacksCases ==
  ASSUME NEW w
  PROVE  Stacks(w) = IF AllSingle(w) THEN Singles(w.list) ELSE LongStacks(w)
BY DEF Stacks, AllSingle, LongStacks

(* current_pane_stacks_in_order divides the sessions.                      *)
LEMMA StacksFacts ==
  ASSUME NEW w, Core(w)
  PROVE  Division(Stacks(w), w)
<1>1. /\ w.list \in Seq(Nat) /\ IsInjective(w.list)
      /\ InPanes(w) \subseteq Range(w.list) /\ Range(w.list) \subseteq Nat
  BY WorkspaceFields, IdSeqFacts DEF Core, Sound, Shape, IdSeqs
<1>2. CASE AllSingle(w)
  <2> DEFINE R == {Alone(x) : x \in Range(w.list)}
             q == Singles(w.list)
  <2>1. Parted(q, R) /\ TabsIn(R) = Range(w.list)
    BY <1>1, SinglesFacts
  <2>2. \A x \in Range(w.list) : Alone(x).active = x /\ Alone(x) \in R
    BY DEF Alone, Stack
  <2>3. Range(q) = R
    BY <2>1 DEF Parted
  <2> HIDE DEF R, q
  <2>5. \A x \in InPanes(w) : \E st \in R : st.active = x
    BY <1>1, <2>2
  <2>4. Division(q, w)
    BY Zenon, <2>1, <2>3, <2>5 DEF Division
  <2> QED BY <1>2, <2>4, StacksCases DEF q
<1>3. CASE ~ AllSingle(w)
  <2> DEFINE q == LongStacks(w)
  <2>0. PICK P, H, T : ThreeParts(P, H, T, w)
    BY LongStacksFacts
  <2>1. PaneParts(P, w) /\ Parted(q, P \cup H \cup T) /\ TabsIn(P \cup H \cup T) = Range(w.list)
    BY <2>0 DEF ThreeParts
  <2> HIDE DEF q
  <2>2. Range(q) = P \cup H \cup T
    BY <2>1 DEF Parted
  <2>3. ASSUME NEW x \in InPanes(w) PROVE \E st \in P : st.active = x
    <3> DEFINE p == SlotOf(w, x)
    <3>1. p \in PaneIds(w) /\ x = At(w, p)
      BY CoreView
    <3>2. x # 0
      BY DEF InPanes, Nobody
    <3>3. Tabs(w, p) # {}
      BY <3>1, <3>2, CorePane
    <3> HIDE DEF p
    <3> QED BY <2>1, <3>1, <3>3 DEF PaneParts
  <2>4. Division(q, w)
    BY <2>1, <2>2, <2>3 DEF Division
  <2> QED BY <1>3, <2>4, StacksCases DEF q
<1> QED BY <1>2, <1>3

(* Every stack has the session that was added first.                       *)
LEMMA OldestFacts ==
  ASSUME NEW w, w.list \in Seq(Nat), NEW st, NEW x \in Range(w.list), x \in Range(st.tabs)
  PROVE  Oldest(w, st) \in DOMAIN w.list
<1> DEFINE I == {i \in 1 .. Len(w.list) : w.list[i] \in Range(st.tabs)}
<1>1. Oldest(w, st) = IF I # {} THEN CHOOSE i \in I : \A j \in I : i <= j ELSE 0
  BY Zenon DEF Oldest, SelectInSeq, Min
<1>2. DOMAIN w.list = 1 .. Len(w.list) /\ Len(w.list) \in Nat
  OBVIOUS
<1>3. I # {}
  <2>1. PICK i \in DOMAIN w.list : x = w.list[i]
    BY DEF Range
  <2> QED BY <1>2, <2>1
<1>4. I \subseteq Nat /\ I \subseteq DOMAIN w.list
  BY <1>2
<1> HIDE DEF I
<1>5. \E i \in I : \A j \in I : i <= j
  BY <1>3, <1>4, LeastOne
<1> QED BY <1>1, <1>3, <1>4, <1>5

(* The elements of a flattened sequence.                                   *)
LEMMA FlattenMembers ==
  ASSUME NEW S, NEW qs \in Seq(Seq(S)), NEW f, f = FlattenSeq(qs)
  PROVE  /\ f \in Seq(S)
         /\ \A x : x \in Range(f) <=> \E i \in 1 .. Len(qs) : x \in Range(qs[i])
<1> DEFINE R == UNION {Range(qs[i]) : i \in 1 .. Len(qs)}
<1>1. FlattenSeq(qs) \in Seq(S) /\ Range(FlattenSeq(qs)) = R
  BY Zenon, FlattenFacts
<1>2. Range(f) = R
  BY Zenon, <1>1
<1>3. \A x : x \in R <=> \E i \in 1 .. Len(qs) : x \in Range(qs[i])
  BY Zenon
<1> QED BY Zenon, <1>1, <1>2, <1>3

(* Flattened sequences without repetition that have nothing in common.     *)
LEMMA FlattenApart ==
  ASSUME NEW S, NEW qs \in Seq(Seq(S)), NEW f, f = FlattenSeq(qs),
         \A i \in 1 .. Len(qs) : IsInjective(qs[i]),
         \A i \in 1 .. Len(qs) : \A j \in 1 .. Len(qs) : i # j => Range(qs[i]) \cap Range(qs[j]) = {}
  PROVE  IsInjective(f)
BY Zenon, FlattenFacts

(* A stable sort moves the stacks and does nothing else.                   *)
LEMMA SortedFacts ==
  ASSUME NEW q \in Seq(StackRec), IsInjective(q), NEW n \in Nat, NEW K,
         NEW qs, qs = [i \in 1 .. n |-> RetainAll(q, K[i])],
         \A st \in Range(q) : \E i \in 1 .. n : st \in K[i],
         \A i, j \in 1 .. n : i # j => K[i] \cap K[j] = {}
  PROVE  LET f == FlattenSeq(qs) IN
         f \in Seq(StackRec) /\ IsInjective(f) /\ Range(f) = Range(q)
<1> DEFINE f == FlattenSeq(qs)
<1>1. DOMAIN qs = 1 .. n /\ \A i \in 1 .. n : qs[i] = RetainAll(q, K[i])
  OBVIOUS
<1>2. \A i \in 1 .. n : /\ qs[i] \in Seq(StackRec) /\ IsInjective(qs[i])
                        /\ Range(qs[i]) = Range(q) \cap K[i]
  BY <1>1, RetainAllRange, RetainAllInjective
<1>3. qs \in Seq(Seq(StackRec)) /\ Len(qs) = n
  <2>1. qs \in [1 .. n -> Seq(StackRec)]
    BY <1>1, <1>2
  <2> QED BY <2>1, FunctionIsSeq
<1>4. ASSUME NEW i \in 1 .. Len(qs), NEW j \in 1 .. Len(qs), i # j
      PROVE  Range(qs[i]) \cap Range(qs[j]) = {}
  <2>1. i \in 1 .. n /\ j \in 1 .. n
    BY <1>3
  <2>2. K[i] \cap K[j] = {}
    BY <1>4, <2>1
  <2>3. Range(qs[i]) = Range(q) \cap K[i] /\ Range(qs[j]) = Range(q) \cap K[j]
    BY <1>2, <2>1
  <2> QED BY <2>2, <2>3
<1>9. f = FlattenSeq(qs)
  OBVIOUS
<1>10. IsInjective(f)
  <2>1. \A i \in 1 .. Len(qs) : IsInjective(qs[i])
    BY <1>2, <1>3
  <2> QED BY <1>3, <1>4, <1>9, <2>1, FlattenApart
<1> HIDE DEF f
<1>5. f \in Seq(StackRec)
  BY Zenon, <1>3, <1>9, FlattenMembers
<1>8. \A x : x \in Range(f) <=> \E i \in 1 .. Len(qs) : x \in Range(qs[i])
  BY Zenon, <1>3, <1>9, FlattenMembers
<1>7. Range(f) = Range(q)
  <2>1. ASSUME NEW st \in Range(f) PROVE st \in Range(q)
    <3>1. PICK i \in 1 .. n : st \in Range(qs[i])
      BY <1>3, <1>8
    <3>2. Range(qs[i]) = Range(q) \cap K[i]
      BY <1>2
    <3> QED BY <3>1, <3>2
  <2>2. ASSUME NEW st \in Range(q) PROVE st \in Range(f)
    <3>1. PICK i \in 1 .. n : st \in K[i]
      OBVIOUS
    <3>2. st \in Range(qs[i])
      BY <1>2, <3>1
    <3> QED BY <1>3, <1>8, <3>2
  <2> QED BY <2>1, <2>2
<1> QED BY <1>5, <1>7, <1>10 DEF f

(* layout_transition_stacks.                                               *)
LEMMA TransitionFacts ==
  ASSUME NEW w, Core(w)
  PROVE  /\ Division(TransitionStacks(w), w)
         /\ StackSets(w) = SetsOf(Range(TransitionStacks(w)))
<1> DEFINE q == Stacks(w)
           K == [i \in DOMAIN w.list |-> {st \in Range(q) : Oldest(w, st) = i}]
           qs == [i \in DOMAIN w.list |-> RetainAll(q, {st \in Range(q) : Oldest(w, st) = i})]
           n == Len(w.list)
           f == TransitionStacks(w)
<1>0. Division(q, w)
  BY StacksFacts
<1>1. f = FlattenSeq(qs)
  BY Zenon DEF TransitionStacks
<1>2. StackSets(w) = SetsOf(Range(q))
  BY DEF StackSets, SetsOf
<1> HIDE DEF q
<1>3. w.list \in Seq(Nat) /\ DOMAIN w.list = 1 .. n /\ n \in Nat
  <2>1. w.list \in Seq(Nat)
    BY WorkspaceFields DEF Core, Sound, Shape, IdSeqs
  <2> QED BY <2>1
<1>4. qs = [i \in 1 .. n |-> RetainAll(q, K[i])]
  BY <1>3
<1>5. \A i, j \in 1 .. n : i # j => K[i] \cap K[j] = {}
  BY <1>3
<1>6. ASSUME NEW st \in Range(q) PROVE \E i \in 1 .. n : st \in K[i]
  <2>1. st.active \in Range(st.tabs)
    BY <1>0 DEF Division, Parted, Apart
  <2>2. st.active \in Range(w.list)
    BY <1>0, <2>1 DEF Division, TabsIn
  <2>3. Oldest(w, st) \in 1 .. n
    BY <1>3, <2>1, <2>2, OldestFacts
  <2> QED BY <1>3, <2>3
<1>7. q \in Seq(StackRec) /\ IsInjective(q)
  BY <1>0 DEF Division, Parted, StackSeqs
<1> HIDE DEF qs, n, f, K
<1>8. f \in Seq(StackRec) /\ IsInjective(f) /\ Range(f) = Range(q)
  BY <1>1, <1>3, <1>4, <1>5, <1>6, <1>7, SortedFacts
<1>9. Division(f, w)
  BY <1>0, <1>8 DEF Division, Parted, StackSeqs
<1> QED BY <1>2, <1>8, <1>9 DEF f

(***************************************************************************)
(* The stacks are applied to a layout that was rebuilt for them.           *)
(***************************************************************************)

(* What a rebuilt layout shows: v has the sessions of w, and its panes,    *)
(* from the first on, the active tabs of the stacks e; they are full       *)
(* unless e has every stack of q.                                          *)
Laid(v, w, q, e) ==
  /\ Shape(v) /\ v.list = w.list /\ v.focus \in PaneIds(v) \cup {0}
  /\ e \in Seq(StackRec) /\ IsInjective(e) /\ Range(e) \subseteq Range(q)
  /\ Len(e) <= Len(v.panes)
  /\ Len(e) < Len(v.panes) => Range(q) \subseteq Range(e)
  /\ \A i \in DOMAIN v.panes : v.panes[i].at = IF i <= Len(e) THEN e[i].active ELSE 0
  /\ v.mode = "grid" =>
       \A x \in Range(v.overflow) : /\ x \in Range(w.list) /\ x \notin InPanes(v)
                                    /\ Len(v.panes) > 1 => x \notin TabsIn(Range(e))
  /\ FullOrNone(v)

(* A part of a set of stacks.                                              *)
LEMMA ApartPart ==
  ASSUME NEW R, Apart(R), NEW P, NEW Q, P \subseteq R, Q \subseteq R
  PROVE  /\ Apart(P)
         /\ TabsIn(P) \subseteq TabsIn(R)
         /\ P \cap Q = {} => TabsIn(P) \cap TabsIn(Q) = {}
<1>1. Apart(P)
  BY DEF Apart
<1>2. TabsIn(P) \subseteq TabsIn(R)
  BY DEF TabsIn
<1>3. ASSUME P \cap Q = {} PROVE TabsIn(P) \cap TabsIn(Q) = {}
  <2> SUFFICES ASSUME NEW s \in P, NEW t \in Q, NEW x \in Range(s.tabs), x \in Range(t.tabs) PROVE FALSE
    BY DEF TabsIn
  <2>1. s = t
    BY DEF Apart
  <2> QED BY <1>3, <2>1
<1> QED BY <1>1, <1>2, <1>3

(* What a suffix is that starts after the first n.                         *)
LEMMA AfterFirst ==
  ASSUME NEW S, NEW e \in Seq(S), NEW rest \in Seq(S), NEW n \in Nat, Len(e) <= n,
         Len(e) < n => rest = <<>>,
         NEW r, Follows(r, e, rest)
  PROVE  SubSeq(r, n + 1, Len(r)) = rest
<1>1. /\ r \in Seq(S) /\ Len(r) = Len(e) + Len(rest) /\ Len(e) \in Nat /\ Len(rest) \in Nat
      /\ \A i \in 1 .. Len(e) + Len(rest) : r[i] = IF i <= Len(e) THEN e[i] ELSE rest[i - Len(e)]
      /\ \A i \in 1 .. Len(r) : r[i] \in S
  <2>1. /\ r \in Seq(S) /\ Len(r) = Len(e) + Len(rest)
        /\ \A i \in 1 .. Len(e) + Len(rest) : r[i] = IF i <= Len(e) THEN e[i] ELSE rest[i - Len(e)]
    BY ConcatProperties DEF Follows
  <2> QED BY <2>1
<1>2. CASE Len(e) < n
  <2>1. rest = <<>> /\ Len(r) < n + 1
    BY <1>1, <1>2
  <2> QED BY <1>1, <2>1, SubSeqEmpty
<1>3. CASE Len(e) = n
  <2> DEFINE h == SubSeq(r, n + 1, Len(r))
  <2>1. \A i \in n + 1 .. Len(r) : r[i] \in S
    BY <1>1, <1>3
  <2>2. /\ h \in Seq(S) /\ Len(h) = IF n + 1 <= Len(r) THEN Len(r) - (n + 1) + 1 ELSE 0
        /\ \A i \in 1 .. Len(r) - (n + 1) + 1 : h[i] = r[n + 1 + i - 1]
    BY <1>1, <2>1, SubSeqProperties
  <2> HIDE DEF h
  <2>3. Len(h) = Len(rest)
    <3> DEFINE a == Len(rest)
               b == Len(r)
    <3>1. Len(h) = IF n + 1 <= b THEN b - (n + 1) + 1 ELSE 0
      BY <2>2
    <3>2. b = n + a /\ a \in Nat
      BY <1>1, <1>3
    <3> HIDE DEF a, b
    <3>3. CASE a = 0
      <4>1. ~ (n + 1 <= b)
        BY <3>2, <3>3
      <4> QED BY <3>1, <3>3, <4>1 DEF a
    <3>4. CASE a # 0
      <4>1. n + 1 <= b /\ b - (n + 1) + 1 = a
        BY <3>2, <3>4
      <4> QED BY <3>1, <4>1 DEF a
    <3> QED BY <3>3, <3>4
  <2>4. \A i \in 1 .. Len(h) : h[i] = rest[i]
    <3> SUFFICES ASSUME NEW i \in 1 .. Len(h) PROVE h[i] = rest[i]
      OBVIOUS
    <3>1. h[i] = r[n + i] /\ n + i \in 1 .. Len(e) + Len(rest) /\ ~ (n + i <= Len(e)) /\ (n + i) - Len(e) = i
      BY <1>1, <1>3, <2>2, <2>3
    <3> QED BY <1>1, <3>1
  <2>5. h = rest
    BY <2>2, <2>3, <2>4, SeqEqual
  <2> QED BY <2>5 DEF h
<1> QED BY <1>2, <1>3

(* stacks_ordered_for_layout_state: first the stacks that are shown, pane  *)
(* by pane, then the others.                                               *)
Unshown(q, e) == RetainAll(q, Range(q) \ Range(e))

(* stacks_ordered_for_layout_state does so.                                *)
LEMMA OrderedFacts ==
  ASSUME NEW w, Core(w), NEW q, Division(q, w), NEW v, NEW e, Laid(v, w, q, e)
  PROVE  Follows(OrderedFor(v, q), e, Unshown(q, e))
<1> DEFINE shown(i) == {st \in Range(q) : v.panes[i].at \in Range(st.tabs)}
           qs == [i \in DOMAIN v.panes |-> RetainAll(q, shown(i))]
           away == {st \in Range(q) : Range(st.tabs) \cap InPanes(v) = {}}
<1>1. OrderedFor(v, q) = FlattenSeq(qs) \o RetainAll(q, away)
  BY Zenon DEF OrderedFor
<1>2. /\ Shape(v) /\ DOMAIN v.panes = 1 .. Len(v.panes) /\ Len(v.panes) \in Nat
      /\ e \in Seq(StackRec) /\ IsInjective(e) /\ Range(e) \subseteq Range(q)
      /\ Len(e) <= Len(v.panes) /\ Len(e) \in Nat /\ DOMAIN e = 1 .. Len(e)
      /\ \A i \in DOMAIN v.panes : v.panes[i].at = IF i <= Len(e) THEN e[i].active ELSE 0
      /\ \A i \in DOMAIN e : e[i] \in Range(e)
  <2>1. Shape(v) /\ e \in Seq(StackRec)
    BY DEF Laid
  <2>2. DOMAIN v.panes = 1 .. Len(v.panes) /\ Len(v.panes) \in Nat
    BY <2>1, PaneCount
  <2>3. Len(e) \in Nat /\ DOMAIN e = 1 .. Len(e)
    BY <2>1
  <2> QED BY <2>1, <2>2, <2>3 DEF Laid, Range
<1>3. /\ q \in Seq(StackRec) /\ IsInjective(q) /\ Apart(Range(q))
      /\ \A st \in Range(q) : st.active \in Range(st.tabs)
      /\ \A s, t \in Range(q) : \A x \in Range(s.tabs) : x \in Range(t.tabs) => s = t
      /\ \A st \in Range(q) : 0 \notin Range(st.tabs)
  <2>1. q \in Seq(StackRec) /\ IsInjective(q) /\ Apart(Range(q)) /\ TabsIn(Range(q)) = Range(w.list)
    BY DEF Division, Parted, StackSeqs
  <2>2. 0 \notin Range(w.list)
    BY DEF Core, Sound
  <2> QED BY <2>1, <2>2 DEF Apart, TabsIn
<1>4. ASSUME NEW i \in DOMAIN v.panes
      PROVE  /\ qs[i] = IF i <= Len(e) THEN <<e[i]>> ELSE <<>>
             /\ qs[i] \in Seq(StackRec)
  <2>1. qs[i] = RetainAll(q, shown(i))
    OBVIOUS
  <2>2. CASE i <= Len(e)
    <3>1. e[i] \in Range(q) /\ v.panes[i].at = e[i].active /\ e[i] \in StackRec
      BY <1>2, <2>2
    <3>2. shown(i) = {e[i]}
      <4>1. e[i].active \in Range(e[i].tabs)
        BY <1>3, <3>1
      <4>2. ASSUME NEW st \in Range(q), e[i].active \in Range(st.tabs) PROVE st = e[i]
        BY <1>3, <3>1, <4>1, <4>2
      <4>3. shown(i) = {st \in Range(q) : e[i].active \in Range(st.tabs)}
        BY <3>1
      <4> HIDE DEF shown
      <4> QED BY <3>1, <4>1, <4>2, <4>3
    <3> DEFINE x == e[i]
               t == RetainAll(q, {x})
    <3>3. Range(t) = {x} /\ t \in Seq(StackRec) /\ IsInjective(t)
      <4>1. Range(t) = Range(q) \cap {x} /\ t \in Seq(StackRec)
        BY <1>3, RetainAllRange
      <4>2. IsInjective(t)
        BY <1>3, RetainAllInjective
      <4> QED BY <3>1, <4>1, <4>2
    <3> HIDE DEF t, x
    <3>4. t = <<x>>
      BY <3>3, OneElement
    <3> HIDE DEF qs, shown
    <3> QED BY <2>1, <2>2, <3>2, <3>3, <3>4 DEF t, x
  <2>3. CASE ~ (i <= Len(e))
    <3>1. v.panes[i].at = 0
      BY <1>2, <2>3
    <3>2. shown(i) = {}
      BY <1>3, <3>1
    <3> DEFINE t == RetainAll(q, {})
    <3>3. Range(t) = {} /\ t \in Seq(StackRec)
      <4>1. Range(t) = Range(q) \cap {} /\ t \in Seq(StackRec)
        BY <1>3, RetainAllRange
      <4> QED BY <4>1
    <3> HIDE DEF t
    <3>4. t = <<>>
      BY <3>3, InRange
    <3> HIDE DEF qs, shown
    <3> QED BY <2>1, <2>3, <3>2, <3>3, <3>4 DEF t
  <2> QED BY <2>2, <2>3
<1>5. qs \in [1 .. Len(v.panes) -> Seq(StackRec)]
  <2>1. qs = [i \in 1 .. Len(v.panes) |-> qs[i]]
    BY <1>2
  <2> HIDE DEF qs
  <2> QED BY <1>2, <1>4, <2>1
<1> HIDE DEF qs
<1>6. qs \in Seq(Seq(StackRec)) /\ Len(qs) = Len(v.panes)
  BY <1>2, <1>5, FunctionIsSeq
<1>7. FlattenSeq(qs) = e
  BY <1>2, <1>4, <1>6, FlattenSingles
<1>8. away = Range(q) \ Range(e)
  <2>1. ASSUME NEW st \in Range(e) PROVE st \notin away
    <3>1. PICK i \in DOMAIN e : st = e[i]
      BY DEF Range
    <3>2. i \in DOMAIN v.panes /\ v.panes[i].at = st.active
      BY <1>2, <3>1
    <3>3. st \in Range(q) /\ st.active \in Range(st.tabs) /\ 0 \notin Range(st.tabs)
      BY <1>2, <1>3
    <3>4. st.active \in InPanes(v)
      BY <3>2, <3>3 DEF InPanes, Nobody
    <3> QED BY <3>3, <3>4
  <2>2. ASSUME NEW st \in Range(q), st \notin Range(e), NEW x \in Range(st.tabs), x \in InPanes(v) PROVE FALSE
    <3>1. PICK i \in DOMAIN v.panes : x = v.panes[i].at /\ x # 0
      BY <2>2 DEF InPanes, Nobody
    <3>2. i \in DOMAIN e /\ x = e[i].active
      BY <1>2, <3>1
    <3>3. e[i] \in Range(q) /\ x \in Range(e[i].tabs) /\ e[i] \in Range(e)
      BY <1>2, <1>3, <3>2
    <3>4. st = e[i]
      BY <1>3, <2>2, <3>3
    <3> QED BY <2>2, <3>3, <3>4
  <2> QED BY <2>1, <2>2
<1> HIDE DEF away
<1> QED BY Zenon, <1>1, <1>7, <1>8 DEF Follows, Unshown

(* The stacks that are shown and those that are not, of all of them.       *)
LEMMA UnshownFacts ==
  ASSUME NEW w, Core(w), NEW q, Division(q, w), NEW v, NEW e, Laid(v, w, q, e)
  PROVE  /\ Parted(e, Range(e)) /\ Parted(Unshown(q, e), Range(q) \ Range(e))
         /\ TabsIn(Range(e)) \cap TabsIn(Range(q) \ Range(e)) = {}
         /\ TabsIn(Range(e)) \subseteq Range(w.list) /\ TabsIn(Range(q) \ Range(e)) \subseteq Range(w.list)
         /\ Len(e) < Len(v.panes) => Unshown(q, e) = <<>>
<1> DEFINE E == Range(e)
           R == Range(q) \ Range(e)
           h == Unshown(q, e)
<1>1. q \in Seq(StackRec) /\ IsInjective(q) /\ Apart(Range(q)) /\ TabsIn(Range(q)) = Range(w.list)
  BY DEF Division, Parted, StackSeqs
<1>2. e \in Seq(StackRec) /\ IsInjective(e) /\ E \subseteq Range(q)
  BY DEF Laid
<1>3. h \in Seq(StackRec) /\ Range(h) = R /\ IsInjective(h)
  <2>1. h \in Seq(StackRec) /\ Range(h) = Range(q) \cap (Range(q) \ Range(e))
    BY <1>1, RetainAllRange DEF Unshown
  <2>2. IsInjective(h)
    BY <1>1, RetainAllInjective DEF Unshown
  <2> QED BY <2>1, <2>2
<1>4. R \subseteq Range(q) /\ E \cap R = {}
  OBVIOUS
<1>5. Len(e) < Len(v.panes) => R = {}
  BY DEF Laid
<1> HIDE DEF h, R
<1>6. Apart(E) /\ Apart(R) /\ TabsIn(E) \cap TabsIn(R) = {}
      /\ TabsIn(E) \subseteq Range(w.list) /\ TabsIn(R) \subseteq Range(w.list)
  <2> HIDE DEF E
  <2>1. Apart(E) /\ TabsIn(E) \subseteq TabsIn(Range(q)) /\ TabsIn(E) \cap TabsIn(R) = {}
    BY <1>1, <1>2, <1>4, ApartPart
  <2>2. Apart(R) /\ TabsIn(R) \subseteq TabsIn(Range(q))
    BY <1>1, <1>4, ApartPart
  <2> QED BY <1>1, <2>1, <2>2
<1>7. Parted(e, E) /\ Parted(h, R)
  BY <1>2, <1>3, <1>6 DEF Parted, StackSeqs
<1>8. Len(e) < Len(v.panes) => h = <<>>
  BY <1>3, <1>5, InRange
<1> QED BY <1>6, <1>7, <1>8 DEF R, h

(* The groups that apply_pane_stacks_to_current_layout makes.              *)
ShownAt(v, r) == {i \in DOMAIN r : i <= Len(v.panes) /\ Len(r[i].tabs) > 1}

(* The group of each pane that has one.                                    *)
GroupsOf(v, r) ==
  [p \in {v.panes[i].id : i \in ShownAt(v, r)} |-> r[CHOOSE i \in ShownAt(v, r) : v.panes[i].id = p]]

(* v with the groups and the hidden stacks of r.                           *)
StacksApplied(v, r) == [v EXCEPT !.groups = GroupsOf(v, r), !.hidden = SubSeq(r, Len(v.panes) + 1, Len(r))]

(* apply_pane_stacks_to_current_layout, as the groups and then the clean-  *)
(* up.                                                                     *)
LEMMA AppliedIs ==
  ASSUME NEW v, NEW r
  PROVE  ApplyStacks(v, r) = CleanedUp(StacksApplied(v, r))
BY Zenon DEF ApplyStacks, StacksApplied, GroupsOf, ShownAt

(* The first stacks of r are those of e, which the panes show.             *)
Prefixed(r, e, n) ==
  /\ \A i \in DOMAIN r : i <= n => i \in DOMAIN e /\ r[i] = e[i]
  /\ \A i \in DOMAIN e : i \in DOMAIN r /\ r[i] = e[i] /\ i <= n

(* r begins with e when something follows e in r only when the panes are   *)
(* full.                                                                   *)
LEMMA PrefixedFacts ==
  ASSUME NEW S, NEW e \in Seq(S), NEW rest \in Seq(S), NEW n \in Nat, Len(e) <= n,
         Len(e) < n => rest = <<>>,
         NEW r, Follows(r, e, rest)
  PROVE  Prefixed(r, e, n)
<1>1. /\ r \in Seq(S) /\ Len(r) = Len(e) + Len(rest) /\ Len(e) \in Nat /\ Len(rest) \in Nat
      /\ \A i \in 1 .. Len(e) + Len(rest) : r[i] = IF i <= Len(e) THEN e[i] ELSE rest[i - Len(e)]
      /\ DOMAIN e = 1 .. Len(e)
  <2>1. /\ r \in Seq(S) /\ Len(r) = Len(e) + Len(rest)
        /\ \A i \in 1 .. Len(e) + Len(rest) : r[i] = IF i <= Len(e) THEN e[i] ELSE rest[i - Len(e)]
    BY ConcatProperties DEF Follows
  <2> QED BY <2>1
<1>2. DOMAIN r = 1 .. Len(e) + Len(rest)
  BY <1>1
<1>3. Len(e) < n => Len(rest) = 0
  OBVIOUS
<1>4. ASSUME NEW i \in DOMAIN r, i <= n PROVE i \in DOMAIN e /\ r[i] = e[i]
  <2>1. i <= Len(e)
    BY <1>1, <1>2, <1>3, <1>4
  <2> QED BY <1>1, <1>2, <2>1
<1>5. ASSUME NEW i \in DOMAIN e PROVE i \in DOMAIN r /\ r[i] = e[i] /\ i <= n
  BY <1>1, <1>2
<1> QED BY <1>4, <1>5 DEF Prefixed

(* Every pane has the group of its stack, when that has more than one tab. *)
GroupedBy(g, v, e) ==
  /\ g \in Groupings
  /\ DOMAIN g \subseteq PaneIds(v)
  /\ \A i \in DOMAIN v.panes :
       LET p == v.panes[i].id IN
       /\ p \in DOMAIN g <=> i \in DOMAIN e /\ Len(e[i].tabs) > 1
       /\ p \in DOMAIN g => g[p] = e[i]

(* The groups that are made are these.                                     *)
LEMMA GroupsOfFacts ==
  ASSUME NEW v, Shape(v), NEW e \in Seq(StackRec), NEW r, Prefixed(r, e, Len(v.panes))
  PROVE  GroupedBy(GroupsOf(v, r), v, e)
<1> DEFINE g == GroupsOf(v, r)
           I == ShownAt(v, r)
           n == Len(v.panes)
<1>1. /\ DOMAIN v.panes = 1 .. n /\ n \in Nat /\ DOMAIN e = 1 .. Len(e) /\ Len(e) \in Nat
      /\ \A i \in DOMAIN v.panes : v.panes[i].id \in PaneIds(v)
      /\ PaneIds(v) \subseteq Nat
      /\ \A i, j \in DOMAIN v.panes : v.panes[i].id = v.panes[j].id => i = j
  BY PaneCount, View DEF Shape
<1>2. \A i : i \in I <=> i \in DOMAIN e /\ Len(e[i].tabs) > 1
  BY DEF Prefixed, ShownAt
<1>3. \A i \in I : i \in DOMAIN e /\ i \in DOMAIN v.panes /\ r[i] = e[i] /\ e[i] \in StackRec
  <2>1. \A i \in DOMAIN e : i <= n /\ r[i] = e[i]
    BY DEF Prefixed
  <2> HIDE DEF I
  <2> QED BY <1>1, <1>2, <2>1
<1>4. g = [p \in {v.panes[i].id : i \in I} |-> r[CHOOSE i \in I : v.panes[i].id = p]]
  BY Zenon DEF GroupsOf
<1> HIDE DEF g, I
<1>5. \A p : p \in DOMAIN g <=> \E i \in I : v.panes[i].id = p
  BY <1>4
<1>6. ASSUME NEW i \in I PROVE v.panes[i].id \in DOMAIN g /\ g[v.panes[i].id] = e[i]
  <2> DEFINE p == v.panes[i].id
             c == CHOOSE j \in I : v.panes[j].id = p
  <2>1. p \in DOMAIN g /\ g[p] = r[c]
    BY <1>4, <1>5
  <2>2. c \in I /\ v.panes[c].id = p
    OBVIOUS
  <2> HIDE DEF c
  <2>3. c = i
    BY <1>1, <1>3, <2>2
  <2> QED BY <1>3, <2>1, <2>3
<1>7. DOMAIN g \subseteq PaneIds(v)
  BY <1>1, <1>3, <1>5
<1>8. \A p \in DOMAIN g : g[p] \in StackRec
  BY <1>3, <1>5, <1>6
<1>9. g \in Groupings
  <2>1. g = [p \in DOMAIN g |-> g[p]]
    BY <1>4
  <2> QED BY <1>1, <1>7, <1>8, <2>1, GroupingFacts
<1>10. ASSUME NEW i \in DOMAIN v.panes
       PROVE  LET p == v.panes[i].id IN
              /\ p \in DOMAIN g <=> i \in DOMAIN e /\ Len(e[i].tabs) > 1
              /\ p \in DOMAIN g => g[p] = e[i]
  <2> DEFINE p == v.panes[i].id
  <2>1. p \in DOMAIN g <=> i \in I
    BY <1>1, <1>3, <1>5
  <2> QED BY <1>2, <1>6, <2>1
<1>11. GroupedBy(g, v, e)
  BY Zenon, <1>7, <1>9, <1>10 DEF GroupedBy
<1> QED BY <1>11 DEF g

(* u is the rebuilt layout v with the groups of the stacks e, which its    *)
(* panes show, and the stacks h without a pane.                            *)
Spread(u, v, e, h) ==
  /\ Shape(u)
  /\ u.mode = v.mode /\ u.panes = v.panes /\ u.overflow = v.overflow /\ u.focus = v.focus
  /\ u.next = v.next /\ u.list = v.list
  /\ PaneIds(u) = PaneIds(v) /\ InPanes(u) = InPanes(v) /\ \A p : At(u, p) = At(v, p)
  /\ GroupedBy(u.groups, v, e)
  /\ u.hidden = h

(* The stacks that are applied to a rebuilt layout are spread over it.     *)
LEMMA AppliedFacts ==
  ASSUME NEW w, Core(w), NEW q, Division(q, w), NEW v, NEW e, Laid(v, w, q, e)
  PROVE  Spread(StacksApplied(v, OrderedFor(v, q)), v, e, Unshown(q, e))
<1> DEFINE r == OrderedFor(v, q)
           n == Len(v.panes)
           h == Unshown(q, e)
           g == GroupsOf(v, r)
           u == [[v EXCEPT !.groups = g] EXCEPT !.hidden = h]
<1>1. /\ Shape(v) /\ n \in Nat /\ e \in Seq(StackRec) /\ Len(e) <= n
  <2>1. Shape(v) /\ e \in Seq(StackRec) /\ Len(e) <= n
    BY DEF Laid
  <2> QED BY <2>1, PaneCount
<1>2. h \in Seq(StackRec) /\ (Len(e) < n => h = <<>>)
  BY UnshownFacts DEF Parted, StackSeqs
<1>3. Follows(r, e, h)
  BY OrderedFacts
<1> HIDE DEF r, h, n
<1>4. SubSeq(r, n + 1, Len(r)) = h
  BY <1>1, <1>2, <1>3, AfterFirst
<1>5. Prefixed(r, e, n)
  BY <1>1, <1>2, <1>3, PrefixedFacts
<1>6. GroupedBy(g, v, e)
  BY <1>1, <1>5, GroupsOfFacts DEF n
<1>7. g \in Groupings /\ h \in StackSeqs
  BY <1>2, <1>6 DEF GroupedBy, StackSeqs
<1>8. StacksApplied(v, r) = [v EXCEPT !.groups = g, !.hidden = h]
  BY Zenon, <1>4 DEF StacksApplied, n
<1> HIDE DEF g
<1> DEFINE x == [v EXCEPT !.groups = g]
<1>9. /\ Shape(x) /\ x.groups = g
      /\ x.mode = v.mode /\ x.panes = v.panes /\ x.overflow = v.overflow /\ x.focus = v.focus
      /\ x.next = v.next /\ x.list = v.list
      /\ PaneIds(x) = PaneIds(v) /\ InPanes(x) = InPanes(v) /\ \A p : At(x, p) = At(v, p)
  BY <1>1, <1>7, SetGroups
<1>10. u = [x EXCEPT !.hidden = h]
  OBVIOUS
<1>11. u = StacksApplied(v, r)
  BY <1>8
<1> HIDE DEF x, u
<1>12. /\ Shape(u) /\ u.hidden = h /\ u.groups = x.groups
       /\ u.mode = x.mode /\ u.panes = x.panes /\ u.overflow = x.overflow /\ u.focus = x.focus
       /\ u.next = x.next /\ u.list = x.list
       /\ PaneIds(u) = PaneIds(x) /\ InPanes(u) = InPanes(x) /\ \A p : At(u, p) = At(x, p)
  BY <1>7, <1>9, <1>10, SetHidden
<1>13. Spread(u, v, e, h)
  BY <1>6, <1>9, <1>12 DEF Spread
<1> QED BY <1>11, <1>13 DEF r, h

(* Every pane has the tabs of its stack, and shows the active one.         *)
TabsBy(u, e) ==
  \A i \in DOMAIN u.panes :
    LET p == u.panes[i].id IN
    /\ Tabs(u, p) = IF i \in DOMAIN e THEN Range(e[i].tabs) ELSE {}
    /\ At(u, p) = IF i \in DOMAIN e THEN e[i].active ELSE 0

(* They are, when the stacks were spread.                                  *)
LEMMA SpreadTabs ==
  ASSUME NEW w, Core(w), NEW q, Division(q, w), NEW v, NEW e, Laid(v, w, q, e),
         NEW u, Spread(u, v, e, Unshown(q, e))
  PROVE  TabsBy(u, e)
<1>1. /\ u.panes = v.panes /\ \A p : At(u, p) = At(v, p)
      /\ GroupedBy(u.groups, v, e)
  BY DEF Spread
<1>2. /\ Shape(v) /\ e \in Seq(StackRec)
      /\ \A i \in DOMAIN v.panes : v.panes[i].at = IF i <= Len(e) THEN e[i].active ELSE 0
  BY DEF Laid
<1>3. /\ DOMAIN v.panes = 1 .. Len(v.panes) /\ Len(v.panes) \in Nat
      /\ DOMAIN e = 1 .. Len(e) /\ Len(e) \in Nat
      /\ \A i \in DOMAIN v.panes : v.panes[i].id \in PaneIds(v) /\ At(v, v.panes[i].id) = v.panes[i].at
  BY <1>2, PaneCount, View
<1>4. \A i \in DOMAIN e : e[i] \in StackRec /\ e[i].active \in Range(e[i].tabs) /\ e[i].active # 0
  <2>1. Parted(e, Range(e)) /\ TabsIn(Range(e)) \subseteq Range(w.list)
    BY UnshownFacts
  <2>2. 0 \notin Range(w.list)
    BY DEF Core, Sound
  <2>3. \A st \in Range(e) : st \in StackRec /\ st.active \in Range(st.tabs) /\ st.active # 0
    BY <2>1, <2>2 DEF Parted, Apart, TabsIn
  <2> QED BY <2>3 DEF Range
<1> SUFFICES ASSUME NEW i \in DOMAIN v.panes
             PROVE  LET p == v.panes[i].id IN
                    /\ Tabs(u, p) = IF i \in DOMAIN e THEN Range(e[i].tabs) ELSE {}
                    /\ At(u, p) = IF i \in DOMAIN e THEN e[i].active ELSE 0
  BY <1>1 DEF TabsBy
<1> DEFINE p == v.panes[i].id
<1>5. At(u, p) = IF i \in DOMAIN e THEN e[i].active ELSE 0
  BY <1>1, <1>2, <1>3
<1>6. /\ p \in DOMAIN u.groups <=> i \in DOMAIN e /\ Len(e[i].tabs) > 1
      /\ p \in DOMAIN u.groups => u.groups[p] = e[i]
  BY <1>1 DEF GroupedBy
<1> HIDE DEF p
<1>7. CASE i \in DOMAIN e /\ Len(e[i].tabs) > 1
  BY <1>5, <1>6, <1>7 DEF Tabs, p
<1>8. CASE i \in DOMAIN e /\ ~ (Len(e[i].tabs) > 1)
  <2>1. Tabs(u, p) = {e[i].active}
    BY <1>4, <1>5, <1>6, <1>8 DEF Tabs
  <2>2. e[i].tabs \in Seq(Nat) /\ e[i].active \in Range(e[i].tabs)
    BY <1>4, <1>8, StackFacts
  <2>3. Len(e[i].tabs) < 2
    BY <1>8, <2>2
  <2>4. Range(e[i].tabs) = {e[i].active}
    BY <2>2, <2>3, LessThanTwo
  <2> QED BY <1>5, <1>8, <2>1, <2>4 DEF p
<1>9. CASE i \notin DOMAIN e
  BY <1>5, <1>6, <1>9 DEF Tabs, p
<1> QED BY <1>7, <1>8, <1>9

(* Every pane is one of the layout's, at an index; every group is a stack  *)
(* of e.                                                                   *)
LEMMA SpreadGroups ==
  ASSUME NEW u, NEW v, NEW e \in Seq(StackRec), NEW h, Shape(v), Spread(u, v, e, h)
  PROVE  \A p \in DOMAIN u.groups : \E i \in DOMAIN e : /\ i \in DOMAIN u.panes /\ p = u.panes[i].id
                                                        /\ u.groups[p] = e[i] /\ Len(e[i].tabs) > 1
                                                        /\ e[i] \in Range(e)
<1> SUFFICES ASSUME NEW p \in DOMAIN u.groups
             PROVE  \E i \in DOMAIN e : /\ i \in DOMAIN u.panes /\ p = u.panes[i].id
                                        /\ u.groups[p] = e[i] /\ Len(e[i].tabs) > 1
                                        /\ e[i] \in Range(e)
  OBVIOUS
<1>1. u.panes = v.panes /\ GroupedBy(u.groups, v, e)
  BY DEF Spread
<1>2. p \in PaneIds(v)
  BY <1>1 DEF GroupedBy
<1>3. PICK i \in DOMAIN v.panes : v.panes[i].id = p
  BY <1>2 DEF PaneIds
<1>4. i \in DOMAIN e /\ Len(e[i].tabs) > 1 /\ u.groups[p] = e[i]
  BY <1>1, <1>3 DEF GroupedBy
<1> QED BY <1>1, <1>3, <1>4 DEF Range

(* The layout to which the stacks were applied is tidy, and its groups     *)
(* have no session that was shown before but as their active tab.          *)
LEMMA SpreadCore ==
  ASSUME NEW w, Core(w), NEW q, Division(q, w), NEW v, NEW e, Laid(v, w, q, e),
         NEW u, Spread(u, v, e, Unshown(q, e))
  PROVE  Core(u) /\ FullOrNone(u) /\ OnlyActive(u, InPanes(w)) /\ u.list = w.list
<1>1. /\ Shape(u) /\ u.list = v.list /\ u.panes = v.panes /\ u.mode = v.mode /\ u.overflow = v.overflow
      /\ u.focus = v.focus /\ PaneIds(u) = PaneIds(v) /\ InPanes(u) = InPanes(v) /\ \A p : At(u, p) = At(v, p)
      /\ u.hidden = Unshown(q, e) /\ DOMAIN u.groups \subseteq PaneIds(u)
  BY DEF Spread, GroupedBy
<1>2. /\ v.list = w.list /\ v.focus \in PaneIds(v) \cup {0}
      /\ v.mode = "grid" =>
           \A x \in Range(v.overflow) : /\ x \in Range(w.list) /\ x \notin InPanes(v)
                                        /\ Len(v.panes) > 1 => x \notin TabsIn(Range(e))
      /\ FullOrNone(v) /\ e \in Seq(StackRec) /\ Shape(v) /\ Range(e) \subseteq Range(q) /\ IsInjective(e)
  BY DEF Laid
<1>3. TabsBy(u, e)
  BY SpreadTabs
<1>4. /\ Parted(e, Range(e)) /\ Parted(u.hidden, Range(q) \ Range(e))
      /\ TabsIn(Range(e)) \subseteq Range(w.list)
  <2>1. /\ Parted(e, Range(e)) /\ Parted(Unshown(q, e), Range(q) \ Range(e))
        /\ TabsIn(Range(e)) \subseteq Range(w.list)
    BY UnshownFacts
  <2> QED BY Zenon, <1>1, <2>1
<1>5. IsInjective(w.list) /\ 0 \notin Range(w.list)
  BY DEF Core, Sound
<1>6. \A i \in DOMAIN e : /\ e[i].active \in Range(e[i].tabs) /\ IsInjective(e[i].tabs)
                          /\ Range(e[i].tabs) \subseteq Range(w.list) /\ e[i] \in Range(e)
  <2>1. \A st \in Range(e) : /\ st.active \in Range(st.tabs) /\ IsInjective(st.tabs)
                             /\ Range(st.tabs) \subseteq Range(w.list)
    BY <1>4 DEF Parted, Apart, TabsIn
  <2> QED BY <2>1 DEF Range
<1>7. \A p \in DOMAIN u.groups : \E i \in DOMAIN e : /\ i \in DOMAIN u.panes /\ p = u.panes[i].id
                                                     /\ u.groups[p] = e[i] /\ Len(e[i].tabs) > 1
                                                     /\ e[i] \in Range(e)
  BY <1>2, SpreadGroups
<1>8. \A p \in PaneIds(u) : \E i \in DOMAIN u.panes : u.panes[i].id = p /\ At(u, p) = u.panes[i].at
  BY <1>1, View
<1>9. InPanes(u) \subseteq Range(w.list)
  <2> SUFFICES ASSUME NEW x \in InPanes(u) PROVE x \in Range(w.list)
    OBVIOUS
  <2>1. PICK p \in PaneIds(u) : x = At(u, p) /\ x # 0
    BY <1>1, View
  <2>2. PICK i \in DOMAIN u.panes : u.panes[i].id = p
    BY <1>8
  <2>3. i \in DOMAIN e /\ x = e[i].active
    BY <1>3, <2>1, <2>2 DEF TabsBy
  <2> QED BY <1>6, <2>3
<1>10. Range(u.overflow) \subseteq Range(w.list)
  <2>1. CASE u.mode = "grid"
    BY <1>1, <1>2, <2>1
  <2>2. CASE u.mode = "split"
    <3>1. u.overflow = <<>>
      BY <1>1, <2>2 DEF Shape
    <3> QED BY <3>1 DEF Range
  <2> QED BY <1>1, <2>1, <2>2, WorkspaceFields DEF Shape
<1>11. Sound(u)
  <2>1. \A p \in DOMAIN u.groups : Range(u.groups[p].tabs) \subseteq Range(u.list)
    BY <1>1, <1>2, <1>6, <1>7
  <2> QED BY <1>1, <1>2, <1>5, <1>9, <1>10, <2>1 DEF Sound
<1>12. Neat(u)
  <2>1. \A p \in DOMAIN u.groups : IsInjective(u.groups[p].tabs) /\ Len(u.groups[p].tabs) > 1
    BY <1>6, <1>7
  <2>2. Stacked(u.hidden)
    <3>1. \A st \in Range(u.hidden) : IsInjective(st.tabs) /\ st.active \in Range(st.tabs)
      BY <1>4 DEF Parted, Apart
    <3> QED BY <3>1 DEF Stacked, Range
  <2>3. GroupTabs(u) \subseteq TabsIn(Range(e))
    BY <1>7 DEF GroupTabs, TabsIn
  <2>4. u.mode = "grid" =>
          \A x \in Range(u.overflow) : x \notin InPanes(u) /\ (Len(u.panes) > 1 => x \notin GroupTabs(u))
    BY <1>1, <1>2, <2>3
  <2> QED BY <2>1, <2>2, <2>4 DEF Neat
<1>13. Tidy(u)
  <2>1. ASSUME NEW p \in PaneIds(u), NEW r \in PaneIds(u), p # r PROVE Tabs(u, p) \cap Tabs(u, r) = {}
    <3>1. PICK i \in DOMAIN u.panes : u.panes[i].id = p
      BY <1>8
    <3>2. PICK j \in DOMAIN u.panes : u.panes[j].id = r
      BY <1>8
    <3>3. SUFFICES ASSUME NEW x, x \in Tabs(u, p), x \in Tabs(u, r) PROVE FALSE
      OBVIOUS
    <3>4. i \in DOMAIN e /\ x \in Range(e[i].tabs) /\ j \in DOMAIN e /\ x \in Range(e[j].tabs)
      BY <1>3, <3>1, <3>2, <3>3 DEF TabsBy
    <3>5. e[i] = e[j]
      <4>1. \A s, t \in Range(e) : \A y \in Range(s.tabs) : y \in Range(t.tabs) => s = t
        BY <1>4 DEF Parted, Apart
      <4> QED BY <1>6, <3>4, <4>1
    <3>6. i = j
      BY <1>2, <3>4, <3>5 DEF IsInjective
    <3> QED BY <2>1, <3>1, <3>2, <3>6
  <2>2. ASSUME NEW p \in DOMAIN u.groups
        PROVE  At(u, p) = u.groups[p].active /\ u.groups[p].active \in Range(u.groups[p].tabs)
    <3>1. PICK i \in DOMAIN e : i \in DOMAIN u.panes /\ p = u.panes[i].id /\ u.groups[p] = e[i]
      BY <1>7
    <3>2. At(u, p) = e[i].active
      BY <1>3, <3>1 DEF TabsBy
    <3> QED BY <1>6, <3>1, <3>2
  <2> QED BY <1>1, <2>1, <2>2, TidyView
<1>14. FullOrNone(u)
  BY <1>1, <1>2 DEF FullOrNone
<1>15. OnlyActive(u, InPanes(w))
  <2> SUFFICES ASSUME NEW p \in DOMAIN u.groups, NEW x \in Range(u.groups[p].tabs), x \in InPanes(w)
               PROVE  x = At(u, p)
    BY DEF OnlyActive
  <2>1. PICK i \in DOMAIN e : i \in DOMAIN u.panes /\ p = u.panes[i].id /\ u.groups[p] = e[i] /\ e[i] \in Range(e)
    BY <1>7
  <2>2. PICK st \in Range(q) : st.active = x
    BY DEF Division
  <2>3. \A s, t \in Range(q) : \A y \in Range(s.tabs) : y \in Range(t.tabs) => s = t
    BY DEF Division, Parted, Apart
  <2>4. st.active \in Range(st.tabs)
    BY DEF Division, Parted, Apart
  <2>5. e[i] = st
    BY <1>2, <2>1, <2>2, <2>3, <2>4
  <2>6. At(u, p) = e[i].active
    BY <1>3, <2>1 DEF TabsBy
  <2> QED BY <2>2, <2>5, <2>6
<1>16. Core(u)
  BY <1>11, <1>12, <1>13 DEF Core
<1> QED BY <1>1, <1>2, <1>14, <1>15, <1>16

(* Sets of stacks that have the same sets of tabs.                         *)
LEMMA SetsOfUnion ==
  ASSUME NEW P, NEW Q
  PROVE  /\ SetsOf(P \cup Q) = SetsOf(P) \cup SetsOf(Q)
         /\ TabsIn(P) = UNION SetsOf(P)
<1>1. SetsOf(P \cup Q) = SetsOf(P) \cup SetsOf(Q)
  BY DEF SetsOf
<1>2. TabsIn(P) = UNION SetsOf(P)
  BY DEF SetsOf, TabsIn
<1> QED BY <1>1, <1>2

(* The stacks that the panes have are those of e.                          *)
LEMMA PartsAre ==
  ASSUME NEW a, Shape(a), NEW e \in Seq(StackRec), TabsBy(a, e), Len(e) <= Len(a.panes),
         \A i \in DOMAIN e : e[i].active \in Range(e[i].tabs),
         NEW P, PaneParts(P, a)
  PROVE  SetsOf(P) = SetsOf(Range(e))
<1>1. /\ DOMAIN e = 1 .. Len(e) /\ Len(e) \in Nat
      /\ DOMAIN a.panes = 1 .. Len(a.panes) /\ Len(a.panes) \in Nat
      /\ \A i \in DOMAIN a.panes : a.panes[i].id \in PaneIds(a)
  BY PaneCount, View
<1>2. ASSUME NEW st \in P PROVE \E t \in Range(e) : Range(st.tabs) = Range(t.tabs)
  <2>1. PICK p \in PaneIds(a) : Range(st.tabs) = Tabs(a, p) /\ At(a, p) \in Tabs(a, p)
    BY DEF PaneParts
  <2>2. PICK i \in DOMAIN a.panes : a.panes[i].id = p
    BY DEF PaneIds
  <2>3. i \in DOMAIN e /\ Tabs(a, p) = Range(e[i].tabs)
    BY <2>1, <2>2 DEF TabsBy
  <2> QED BY <2>1, <2>3 DEF Range
<1>3. ASSUME NEW t \in Range(e) PROVE \E st \in P : Range(st.tabs) = Range(t.tabs)
  <2>1. PICK i \in DOMAIN e : t = e[i]
    BY DEF Range
  <2> DEFINE p == a.panes[i].id
  <2>2. i \in DOMAIN a.panes /\ p \in PaneIds(a)
    BY <1>1
  <2>3. Tabs(a, p) = Range(t.tabs) /\ Tabs(a, p) # {}
    BY <2>1, <2>2 DEF TabsBy
  <2> HIDE DEF p
  <2> QED BY <2>2, <2>3 DEF PaneParts
<1> QED BY <1>2, <1>3 DEF SetsOf

(* Stacks of one tab each.                                                 *)
LEMMA SingleSets ==
  ASSUME NEW R, NEW L, TabsIn(R) = L, \A st \in R : Range(st.tabs) = {st.active}
  PROVE  SetsOf(R) = {{x} : x \in L}
<1>1. ASSUME NEW st \in R PROVE st.active \in L
  BY DEF TabsIn
<1>2. ASSUME NEW x \in L PROVE \E st \in R : Range(st.tabs) = {x}
  <2>1. PICK st \in R : x \in Range(st.tabs)
    BY DEF TabsIn
  <2> QED BY <2>1
<1>3. \A S : S \in SetsOf(R) <=> \E st \in R : S = Range(st.tabs)
  BY DEF SetsOf
<1>4. \A S \in SetsOf(R) : \E x \in L : S = {x}
  BY <1>1, <1>3
<1>5. \A x \in L : {x} \in SetsOf(R)
  BY <1>2, <1>3
<1> QED BY <1>4, <1>5

(* v is a layout that was rebuilt for the sessions of w and its stacks q:  *)
(* it is tidy and keeps the stacks together.                               *)
ArrangedBy(a, v, w, q) ==
  /\ Good(a) /\ a.list = w.list
  /\ a.mode = v.mode /\ a.panes = v.panes /\ a.focus = v.focus /\ a.next = v.next
  /\ OnlyActive(a, InPanes(w))
  /\ StackSets(a) = SetsOf(Range(q))

(* The tabs of no pane wait as stacks.                                     *)
LEMMA SpreadApart ==
  ASSUME NEW w, Core(w), NEW q, Division(q, w), NEW v, NEW e, Laid(v, w, q, e),
         NEW u, Spread(u, v, e, Unshown(q, e))
  PROVE  /\ Disjoint(u.hidden) /\ Held(u.hidden) \subseteq Range(w.list)
         /\ Held(u.hidden) \cap TabsIn(Range(e)) = {}
         /\ \A p \in PaneIds(u) : Tabs(u, p) \cap Held(u.hidden) = {}
         /\ Range(u.hidden) = Range(q) \ Range(e)
<1> DEFINE h == Unshown(q, e)
           R == Range(q) \ Range(e)
           E == Range(e)
<1>1. u.hidden = h
  BY DEF Spread
<1>2. Parted(h, R) /\ TabsIn(E) \cap TabsIn(R) = {} /\ TabsIn(R) \subseteq Range(w.list)
  BY UnshownFacts
<1>3. \A p \in PaneIds(u) : \E i \in DOMAIN u.panes : u.panes[i].id = p
  BY DEF PaneIds
<1> HIDE DEF h, R
<1>4. h \in StackSeqs /\ IsInjective(h) /\ Range(h) = R /\ Apart(R)
  BY <1>2 DEF Parted
<1>5. Disjoint(h) /\ Held(h) = TabsIn(R)
  BY <1>4, DisjointView
<1>6. ASSUME NEW p \in PaneIds(u) PROVE Tabs(u, p) \subseteq TabsIn(E)
  <2>1. PICK i \in DOMAIN u.panes : u.panes[i].id = p
    BY <1>3
  <2>2. Tabs(u, p) = IF i \in DOMAIN e THEN Range(e[i].tabs) ELSE {}
    BY SpreadTabs, <2>1 DEF TabsBy
  <2> QED BY <2>2 DEF TabsIn, Range
<1> HIDE DEF E
<1>7. \A p \in PaneIds(u) : Tabs(u, p) \cap Held(h) = {}
  BY <1>2, <1>5, <1>6
<1>8. Held(h) \subseteq Range(w.list) /\ Held(h) \cap TabsIn(E) = {}
  BY <1>2, <1>5
<1> QED BY Zenon, <1>1, <1>4, <1>5, <1>7, <1>8 DEF R, E

(* v is u after the groups were cleaned up, which changes nothing.         *)
Unchanging(a, u) == TidiedUp(a, u) /\ a.hidden = u.hidden

(* The clean-up finds nothing to clean.                                    *)
LEMMA SpreadCleaned ==
  ASSUME NEW w, Core(w), NEW q, Division(q, w), NEW v, NEW e, Laid(v, w, q, e),
         NEW u, Spread(u, v, e, Unshown(q, e))
  PROVE  Unchanging(CleanedUp(u), u)
<1>1. Core(u) /\ u.list = w.list
  BY SpreadCore
<1>2. /\ Shape(u) /\ DOMAIN u.groups \subseteq PaneIds(u) /\ Stacked(u.hidden)
      /\ \A p \in DOMAIN u.groups : /\ Range(u.groups[p].tabs) \subseteq Range(u.list)
                                    /\ u.groups[p].active \in Range(u.groups[p].tabs)
                                    /\ Len(u.groups[p].tabs) > 1
  BY <1>1 DEF Core, Sound, Neat, Tidy
<1>3. /\ Disjoint(u.hidden) /\ Held(u.hidden) \subseteq Range(u.list)
      /\ \A p \in PaneIds(u) : Tabs(u, p) \cap Held(u.hidden) = {}
  BY <1>1, SpreadApart
<1>4. TidiedUp(CleanedUp(u), u) /\ CleanedUp(u).hidden = u.hidden
  BY <1>2, <1>3, CleanedUpFacts
<1> QED BY <1>4 DEF Unchanging

(* A change of the layout keeps the stacks together.                       *)
LEMMA SpreadStacks ==
  ASSUME NEW w, Core(w), NEW q, Division(q, w), NEW v, NEW e, Laid(v, w, q, e),
         NEW u, Spread(u, v, e, Unshown(q, e)), NEW a, Unchanging(a, u), Core(a)
  PROVE  StackSets(a) = SetsOf(Range(q))
<1> DEFINE E == Range(e)
           R == Range(q) \ Range(e)
           L == Range(w.list)
<1>1. /\ a.panes = u.panes /\ a.groups = u.groups /\ a.list = u.list /\ a.hidden = u.hidden
      /\ \A p : At(a, p) = At(u, p)
  BY DEF Unchanging, TidiedUp
<1>2. \A p : Tabs(a, p) = Tabs(u, p)
  BY CleanedKeeps DEF Unchanging
<1>3. TabsBy(a, e)
  <2>1. TabsBy(u, e)
    BY SpreadTabs
  <2> QED BY Zenon, <1>1, <1>2, <2>1 DEF TabsBy
<1>4. a.list = w.list /\ a.panes = v.panes
  <2>1. u.list = w.list /\ u.panes = v.panes
    BY SpreadCore DEF Spread
  <2> QED BY <1>1, <2>1
<1>5. /\ Disjoint(a.hidden) /\ Held(a.hidden) \subseteq L
      /\ Held(a.hidden) \cap TabsIn(E) = {} /\ Range(a.hidden) = R
  BY <1>1, SpreadApart
<1>6. Shape(a) /\ a.list \in Seq(Nat) /\ IsInjective(a.list)
  BY WorkspaceFields DEF Core, Sound, Shape, IdSeqs
<1>7. /\ e \in Seq(StackRec) /\ E \subseteq Range(q) /\ Len(e) <= Len(a.panes)
  BY <1>4 DEF Laid
<1>8. \A st \in Range(q) : st \in StackRec /\ st.active \in Range(st.tabs)
  BY DEF Division, Parted, Apart
<1>9. \A i \in DOMAIN e : e[i] \in Range(q) /\ e[i].active \in Range(e[i].tabs)
  BY <1>7, <1>8 DEF Range
<1>10. TabsIn(Range(q)) = L
  BY DEF Division
<1>11. Range(q) = E \cup R
  BY <1>7
<1>12. CASE AllSingle(a)
  <2>1. ASSUME NEW st \in Range(q) PROVE Len(st.tabs) < 2
    <3>1. CASE st \in E
      <4>1. PICK i \in DOMAIN e : st = e[i]
        BY <3>1 DEF Range
      <4>2. i \in DOMAIN v.panes /\ GroupedBy(a.groups, v, e)
        <5>1. DOMAIN a.panes = 1 .. Len(a.panes) /\ DOMAIN e = 1 .. Len(e) /\ Len(e) \in Nat /\ Len(a.panes) \in Nat
          BY <1>6, <1>7, PaneCount
        <5>2. i \in DOMAIN v.panes
          BY <1>4, <1>7, <5>1
        <5>3. GroupedBy(a.groups, v, e)
          BY Zenon, <1>1 DEF Spread
        <5> QED BY <5>2, <5>3
      <4>3. ~ (Len(e[i].tabs) > 1)
        BY <1>12, <4>1, <4>2 DEF GroupedBy, AllSingle
      <4>4. Len(e[i].tabs) \in Nat
        BY <1>8, <1>9, StackFacts
      <4> QED BY <4>1, <4>3, <4>4
    <3>2. CASE st \in R
      <4>1. PICK i \in DOMAIN a.hidden : st = a.hidden[i]
        BY <1>5, <3>2 DEF Range
      <4>2. Len(st.tabs) = 1
        BY Zenon, <1>12, <4>1 DEF AllSingle
      <4> QED BY <4>2
    <3> QED BY <1>11, <3>1, <3>2
  <2>2. ASSUME NEW st \in Range(q) PROVE Range(st.tabs) = {st.active}
    <3>1. st.tabs \in Seq(Nat) /\ st.active \in Range(st.tabs) /\ Len(st.tabs) < 2
      BY <1>8, <2>1, StackFacts
    <3> QED BY <3>1, LessThanTwo
  <2>3. SetsOf(Range(q)) = {{x} : x \in L}
    BY <1>10, <2>2, SingleSets
  <2> DEFINE T == {Alone(x) : x \in Range(a.list)}
  <2>4. Parted(Singles(a.list), T) /\ TabsIn(T) = Range(a.list)
    BY <1>6, SinglesFacts
  <2>5. \A st \in T : Range(st.tabs) = {st.active}
    BY SingletonRange DEF Alone, Stack
  <2> HIDE DEF T
  <2>6. SetsOf(T) = {{x} : x \in L}
    BY <1>4, <2>4, <2>5, SingleSets
  <2>7. Stacks(a) = Singles(a.list)
    BY <1>12, StacksCases
  <2>8. StackSets(a) = SetsOf(T)
    BY <2>4, <2>7 DEF StackSets, SetsOf, Parted
  <2> QED BY <2>3, <2>6, <2>8
<1>13. CASE ~ AllSingle(a)
  <2>0. PICK P, H, T : ThreeParts(P, H, T, a)
    BY LongStacksFacts
  <2>1. /\ PaneParts(P, a)
        /\ Parted(LongStacks(a), P \cup H \cup T)
        /\ H = Range(Unclaimed(a.hidden, TabsIn(P), Range(a.list)))
        /\ TabsIn(T) = Range(a.list) \ (TabsIn(P) \cup TabsIn(H))
    BY <2>0 DEF ThreeParts
  <2>2. SetsOf(P) = SetsOf(E)
    BY <1>3, <1>6, <1>7, <1>9, <2>1, PartsAre
  <2>3. TabsIn(P) = TabsIn(E)
    <3>1. TabsIn(P) = UNION SetsOf(P) /\ TabsIn(E) = UNION SetsOf(E)
      BY SetsOfUnion
    <3> QED BY <2>2, <3>1
  <2>4. H = R
    <3> DEFINE h == a.hidden
               C == TabsIn(P)
    <3>1. h \in StackSeqs /\ Stacked(h) /\ Disjoint(h)
      BY <1>5 DEF Disjoint
    <3>2. Held(h) \subseteq L \ C
      BY <1>5, <2>3
    <3>4. Range(h) = R
      BY <1>5
    <3>5. H = Range(Unclaimed(h, C, L))
      BY <1>4, <2>1
    <3> HIDE DEF h, C, L
    <3>3. Unclaimed(h, C, L) = h
      BY <3>1, <3>2, UnclaimedFacts
    <3> QED BY <3>3, <3>4, <3>5
  <2>5. TabsIn(E) \cup TabsIn(R) = L
    BY <1>10, <1>11 DEF TabsIn
  <2>6. T = {}
    <3>1. TabsIn(T) = {}
      BY <1>4, <2>1, <2>3, <2>4, <2>5
    <3>2. \A st \in T : st.active \in Range(st.tabs)
      BY <2>1 DEF Parted, Apart
    <3> QED BY <3>1, <3>2 DEF TabsIn
  <2>7. Stacks(a) = LongStacks(a)
    BY <1>13, StacksCases
  <2>8. StackSets(a) = SetsOf(P \cup H \cup T)
    BY <2>1, <2>7 DEF StackSets, SetsOf, Parted
  <2> HIDE DEF E, R
  <2>9. SetsOf(P \cup R) = SetsOf(P) \cup SetsOf(R) /\ SetsOf(E \cup R) = SetsOf(E) \cup SetsOf(R)
    BY SetsOfUnion
  <2>10. P \cup H \cup T = P \cup R
    BY <2>4, <2>6
  <2> QED BY <1>11, <2>2, <2>8, <2>9, <2>10
<1> QED BY <1>12, <1>13

(* The stacks are applied to a layout that was rebuilt for them.           *)
LEMMA ArrangedFacts ==
  ASSUME NEW w, Core(w), NEW q, Division(q, w), NEW v, NEW e, Laid(v, w, q, e)
  PROVE  ArrangedBy(Arranged(v, q), v, w, q)
<1> DEFINE u == StacksApplied(v, OrderedFor(v, q))
           a == Arranged(v, q)
<1>1. a = CleanedUp(u)
  BY AppliedIs DEF Arranged
<1>2. Spread(u, v, e, Unshown(q, e))
  BY AppliedFacts
<1> HIDE DEF u, a
<1>3. Core(u) /\ FullOrNone(u) /\ OnlyActive(u, InPanes(w)) /\ u.list = w.list
  BY <1>2, SpreadCore
<1>4. Good(a) /\ a.list = u.list
  BY <1>1, <1>3, CleanedSettles DEF Settles
<1>5. Unchanging(a, u)
  BY <1>1, <1>2, SpreadCleaned
<1>6. Core(a)
  BY <1>4 DEF Good
<1>7. StackSets(a) = SetsOf(Range(q))
  BY <1>2, <1>5, <1>6, SpreadStacks
<1>8. a.mode = v.mode /\ a.panes = v.panes /\ a.focus = v.focus /\ a.next = v.next
  BY <1>2, <1>5 DEF Spread, Unchanging, TidiedUp
<1>9. OnlyActive(a, InPanes(w))
  BY <1>3, <1>5, CleanedKeeps DEF Unchanging
<1>10. ArrangedBy(a, v, w, q)
  BY <1>3, <1>4, <1>7, <1>8, <1>9 DEF ArrangedBy
<1> QED BY <1>10 DEF a

(***************************************************************************)
(* The rebuilt layouts: the grid, and the tree.                            *)
(***************************************************************************)

(* What is said of the elements of a division.                             *)
LEMMA DivisionFacts ==
  ASSUME NEW w, Core(w), NEW q, Division(q, w)
  PROVE  /\ q \in Seq(StackRec) /\ IsInjective(q) /\ DOMAIN q = 1 .. Len(q) /\ Len(q) \in Nat
         /\ \A i \in DOMAIN q : /\ q[i] \in StackRec /\ q[i] \in Range(q)
                                /\ q[i].tabs \in Seq(Nat) /\ q[i].active \in Nat
                                /\ q[i].active \in Range(q[i].tabs) /\ q[i].active # 0
                                /\ Range(q[i].tabs) \subseteq Range(w.list)
         /\ \A i, j \in DOMAIN q : \A x \in Range(q[i].tabs) : x \in Range(q[j].tabs) => i = j
         /\ \A st \in Range(q) : \E i \in DOMAIN q : st = q[i]
<1>1. q \in Seq(StackRec) /\ IsInjective(q) /\ Apart(Range(q)) /\ TabsIn(Range(q)) = Range(w.list)
  BY DEF Division, Parted, StackSeqs
<1>2. 0 \notin Range(w.list)
  BY DEF Core, Sound
<1>3. DOMAIN q = 1 .. Len(q) /\ Len(q) \in Nat
  BY <1>1
<1>4. \A st \in Range(q) : /\ st \in StackRec /\ st.active \in Range(st.tabs) /\ st.active # 0
                           /\ Range(st.tabs) \subseteq Range(w.list)
  BY <1>1, <1>2 DEF Apart, TabsIn
<1>5. \A i \in DOMAIN q : q[i] \in Range(q)
  BY DEF Range
<1>6. \A i \in DOMAIN q : q[i] \in StackRec /\ q[i].tabs \in Seq(Nat) /\ q[i].active \in Nat
  BY <1>4, <1>5, StackFacts
<1>7. ASSUME NEW i \in DOMAIN q, NEW j \in DOMAIN q, NEW x \in Range(q[i].tabs), x \in Range(q[j].tabs)
      PROVE  i = j
  <2>1. q[i] = q[j]
    BY <1>1, <1>5, <1>7 DEF Apart
  <2> QED BY <1>1, <2>1 DEF IsInjective
<1>8. \A st \in Range(q) : \E i \in DOMAIN q : st = q[i]
  BY DEF Range
<1> QED BY <1>1, <1>3, <1>4, <1>5, <1>6, <1>7, <1>8

(* The fields that a rebuilt layout replaces.                              *)
Relaid(v, w, m, ps, k) ==
  v = [w EXCEPT !.mode = m, !.focus = 0, !.overflow = <<>>, !.next = k, !.panes = ps]

(* The fields after that.                                                  *)
LEMMA RelaidFacts ==
  ASSUME NEW w \in Workspace, NEW m \in Modes, NEW ps \in PaneSeqs, NEW k \in Nat,
         NEW v, Relaid(v, w, m, ps, k)
  PROVE  /\ v \in Workspace
         /\ v.mode = m /\ v.focus = 0 /\ v.overflow = <<>> /\ v.next = k /\ v.panes = ps
         /\ v.list = w.list
<1> DEFINE a == [w EXCEPT !.mode = m]
           b == [a EXCEPT !.focus = 0]
           c == [b EXCEPT !.overflow = <<>>]
           d == [c EXCEPT !.next = k]
           x == [d EXCEPT !.panes = ps]
<1>1. v = x
  BY DEF Relaid
<1>2. a \in Workspace /\ a.mode = m /\ a.list = w.list
  BY DEF Workspace
<1> HIDE DEF a
<1>3. b \in Workspace /\ b.focus = 0 /\ b.mode = a.mode /\ b.list = a.list
  BY <1>2 DEF Workspace
<1> HIDE DEF b
<1>4. <<>> \in IdSeqs
  BY DEF IdSeqs
<1>5. c \in Workspace /\ c.overflow = <<>> /\ c.focus = b.focus /\ c.mode = b.mode /\ c.list = b.list
  BY <1>3, <1>4 DEF Workspace
<1> HIDE DEF c
<1>6. /\ d \in Workspace /\ d.next = k /\ d.overflow = c.overflow /\ d.focus = c.focus /\ d.mode = c.mode
      /\ d.list = c.list
  BY <1>5 DEF Workspace
<1> HIDE DEF d
<1>7. /\ x \in Workspace /\ x.panes = ps /\ x.next = d.next /\ x.overflow = d.overflow /\ x.focus = d.focus
      /\ x.mode = d.mode /\ x.list = d.list
  BY <1>6 DEF Workspace
<1> HIDE DEF x
<1> QED BY <1>1, <1>2, <1>3, <1>5, <1>6, <1>7

(* The grid that shows the first stacks.                                   *)
GridFor(g, w, n, q) ==
  /\ Shape(g)
  /\ g.mode = "grid" /\ g.focus = 0 /\ g.list = w.list
  /\ Len(g.panes) = n /\ DOMAIN g.panes = 1 .. n
  /\ \A i \in 1 .. n : g.panes[i].at = IF i <= Len(q) THEN q[i].active ELSE 0

(* GridOf makes it.                                                        *)
LEMMA GridOfFacts ==
  ASSUME NEW w, Core(w), NEW q, Division(q, w), NEW n \in Nat \ {0}
  PROVE  GridFor(GridOf(w, n, q), w, n, q)
<1> DEFINE at(i) == IF i <= Len(q) THEN q[i].active ELSE 0
           ps == [i \in 1 .. n |-> Pane(i, at(i))]
           g == [w EXCEPT !.mode = "grid", !.focus = 0, !.overflow = <<>>, !.panes = ps]
<1>1. g = GridOf(w, n, q)
  BY DEF GridOf, NoPane, Nobody
<1>2. \A i \in 1 .. n : at(i) \in Nat
  BY DivisionFacts
<1>3. w \in Workspace
  BY DEF Core, Sound, Shape
<1> HIDE DEF at
<1>4. \A i \in 1 .. n : Pane(i, at(i)) \in PaneRec /\ Pane(i, at(i)).id = i /\ Pane(i, at(i)).at = at(i)
  BY <1>2 DEF Pane, PaneRec
<1>5. ps \in [1 .. n -> PaneRec] /\ \A i \in 1 .. n : ps[i].id = i /\ ps[i].at = at(i)
  BY <1>4
<1> HIDE DEF ps
<1>6. ps \in Seq(PaneRec) /\ Len(ps) = n /\ DOMAIN ps = 1 .. n
  BY <1>5, FunctionIsSeq
<1>7. ps # <<>>
  BY <1>6
<1>8. /\ g \in Workspace /\ g.panes = ps /\ g.mode = "grid" /\ g.focus = 0 /\ g.list = w.list /\ g.overflow = <<>>
  <2>1. w.next \in Nat /\ ps \in PaneSeqs /\ "grid" \in Modes
    BY <1>3, <1>6, WorkspaceFields DEF PaneSeqs, Modes
  <2>2. Relaid(g, w, "grid", ps, w.next)
    BY <1>3 DEF Workspace, Relaid
  <2> HIDE DEF g
  <2> QED BY <1>3, <2>1, <2>2, RelaidFacts
<1> HIDE DEF g
<1>9. Shape(g)
  BY <1>5, <1>6, <1>7, <1>8 DEF Shape
<1>10. GridFor(g, w, n, q)
  BY <1>5, <1>6, <1>8, <1>9 DEF GridFor, at
<1> QED BY <1>1, <1>10

(* The sessions that the grid has no cell for.                             *)
LEMMA ActiveFirstFacts ==
  ASSUME NEW st \in StackRec, st.active \in Range(st.tabs)
  PROVE  ActiveFirst(st) \in Seq(Nat) /\ Range(ActiveFirst(st)) = Range(st.tabs)
<1> DEFINE a == st.active
           t == Retain(st.tabs, a)
           u == <<a>>
<1>1. st.tabs \in Seq(Nat) /\ a \in Nat
  BY StackFacts
<1>2. t \in Seq(Nat) /\ Range(t) = Range(st.tabs) \ {a}
  BY <1>1, RetainFacts
<1>3. u \in Seq(Nat) /\ Range(u) = {a}
  BY <1>1, SingletonRange
<1> HIDE DEF t, u
<1>4. u \o t \in Seq(Nat) /\ Range(u \o t) = Range(u) \cup Range(t)
  BY <1>2, <1>3, RangeConcatenation
<1>5. ActiveFirst(st) = u \o t
  BY DEF ActiveFirst, t, u
<1> QED BY <1>2, <1>3, <1>4, <1>5

(* The overflow list gets the tabs of the stacks after the first n, but    *)
(* for what a cell shows.                                                  *)
LEMMA OverflowingFacts ==
  ASSUME NEW w, Core(w), NEW q, Division(q, w), NEW n \in Nat \ {0}, NEW g, GridFor(g, w, n, q)
  PROVE  LET o == Overflowing(g, q) IN
         /\ GridFor(o, w, n, q) /\ InPanes(o) = InPanes(g)
         /\ \A x : x \in Range(o.overflow) <=> /\ x \notin InPanes(o)
                                               /\ \E i \in DOMAIN q : i > n /\ x \in Range(q[i].tabs)
<1> DEFINE qs == [i \in DOMAIN q |-> IF i > n THEN ActiveFirst(q[i]) ELSE <<>>]
           hidden == FlattenSeq(qs)
           kept == RetainAll(hidden, Range(hidden) \ InPanes(g))
           v == Once(kept)
           o == [g EXCEPT !.overflow = v]
<1>0. Len(g.panes) = n
  BY DEF GridFor
<1>1. Overflowing(g, q) = o
  BY Zenon, <1>0 DEF Overflowing
<1>2. \A i \in DOMAIN q : IF i > n THEN qs[i] \in Seq(Nat) /\ Range(qs[i]) = Range(q[i].tabs)
                                   ELSE qs[i] \in Seq(Nat) /\ Range(qs[i]) = {}
  <2> SUFFICES ASSUME NEW i \in DOMAIN q
               PROVE  IF i > n THEN qs[i] \in Seq(Nat) /\ Range(qs[i]) = Range(q[i].tabs)
                               ELSE qs[i] \in Seq(Nat) /\ Range(qs[i]) = {}
    OBVIOUS
  <2>1. CASE i > n
    <3>1. qs[i] = ActiveFirst(q[i])
      BY <2>1
    <3>2. q[i] \in StackRec /\ q[i].active \in Range(q[i].tabs)
      BY DivisionFacts
    <3> HIDE DEF qs
    <3> QED BY <2>1, <3>1, <3>2, ActiveFirstFacts
  <2>2. CASE ~ (i > n)
    <3>1. qs[i] = <<>>
      BY <2>2
    <3> HIDE DEF qs
    <3>2. qs[i] \in Seq(Nat) /\ Range(qs[i]) = {}
      BY <3>1 DEF Range
    <3> QED BY <2>2, <3>2
  <2> QED BY <2>1, <2>2
<1>3. DOMAIN q = 1 .. Len(q) /\ Len(q) \in Nat
  BY DivisionFacts
<1>4. DOMAIN qs = 1 .. Len(q) /\ qs = [i \in 1 .. Len(q) |-> qs[i]]
  BY <1>3
<1> HIDE DEF qs
<1>5. qs \in [1 .. Len(q) -> Seq(Nat)]
  BY <1>2, <1>3, <1>4
<1>6. qs \in Seq(Seq(Nat)) /\ Len(qs) = Len(q)
  BY <1>3, <1>5, FunctionIsSeq
<1>7. hidden \in Seq(Nat) /\ \A x : x \in Range(hidden) <=> \E i \in 1 .. Len(qs) : x \in Range(qs[i])
  BY <1>6, FlattenMembers
<1> HIDE DEF hidden
<1>8. kept \in Seq(Nat) /\ Range(kept) = Range(hidden) \cap (Range(hidden) \ InPanes(g))
  BY <1>7, RetainAllRange
<1> HIDE DEF kept
<1>9. v \in Seq(Nat) /\ Range(v) = Range(kept)
  BY <1>8, OnceFacts
<1> HIDE DEF v
<1>10. \A x : x \in Range(v) <=> x \notin InPanes(g) /\ \E i \in DOMAIN q : i > n /\ x \in Range(q[i].tabs)
  <2>1. \A x : x \in Range(v) <=> x \notin InPanes(g) /\ x \in Range(hidden)
    BY <1>8, <1>9
  <2>2. \A x : x \in Range(hidden) <=> \E i \in DOMAIN q : i > n /\ x \in Range(q[i].tabs)
    BY <1>2, <1>3, <1>6, <1>7
  <2> QED BY <2>1, <2>2
<1>11. /\ Shape(o) /\ o.overflow = v
       /\ o.mode = g.mode /\ o.panes = g.panes /\ o.focus = g.focus /\ o.list = g.list
       /\ InPanes(o) = InPanes(g)
  <2>1. Shape(g) /\ v \in IdSeqs /\ g.mode # "split"
    BY <1>9 DEF GridFor, IdSeqs
  <2> QED BY <2>1, SetOverflow
<1> HIDE DEF o
<1>12. GridFor(o, w, n, q)
  BY Zenon, <1>11 DEF GridFor
<1> QED BY <1>1, <1>10, <1>11, <1>12

(* The first stacks.                                                       *)
FirstOf(q, m) == [i \in 1 .. m |-> q[i]]

(* The first m stacks of a division.                                       *)
LEMMA FirstOfFacts ==
  ASSUME NEW w, Core(w), NEW q, Division(q, w), NEW m \in Nat, m <= Len(q)
  PROVE  /\ FirstOf(q, m) \in Seq(StackRec) /\ IsInjective(FirstOf(q, m))
         /\ Len(FirstOf(q, m)) = m /\ DOMAIN FirstOf(q, m) = 1 .. m
         /\ \A i \in 1 .. m : FirstOf(q, m)[i] = q[i]
         /\ Range(FirstOf(q, m)) \subseteq Range(q)
         /\ m = Len(q) => Range(q) \subseteq Range(FirstOf(q, m))
         /\ \A x \in TabsIn(Range(FirstOf(q, m))) : \E i \in 1 .. m : i \in DOMAIN q /\ x \in Range(q[i].tabs)
<1> DEFINE e == FirstOf(q, m)
<1>1. /\ DOMAIN q = 1 .. Len(q) /\ Len(q) \in Nat /\ IsInjective(q)
      /\ \A i \in DOMAIN q : q[i] \in StackRec /\ q[i] \in Range(q)
  BY DivisionFacts
<1>2. DOMAIN e = 1 .. m /\ \A i \in 1 .. m : e[i] = q[i]
  BY DEF FirstOf
<1>3. \A i \in 1 .. m : i \in DOMAIN q
  BY <1>1
<1>4. e \in [1 .. m -> StackRec]
  BY <1>1, <1>3 DEF FirstOf
<1> HIDE DEF e
<1>5. e \in Seq(StackRec) /\ Len(e) = m
  BY <1>4, FunctionIsSeq
<1>6. IsInjective(e)
  BY <1>1, <1>2, <1>3 DEF IsInjective
<1>7. Range(e) \subseteq Range(q)
  BY <1>1, <1>2, <1>3 DEF Range
<1>8. m = Len(q) => Range(q) \subseteq Range(e)
  BY <1>1, <1>2 DEF Range
<1>9. \A st \in Range(e) : \E i \in 1 .. m : st = q[i]
  BY <1>2 DEF Range
<1>10. \A x \in TabsIn(Range(e)) : \E i \in 1 .. m : i \in DOMAIN q /\ x \in Range(q[i].tabs)
  BY <1>3, <1>9 DEF TabsIn
<1> QED BY <1>2, <1>5, <1>6, <1>7, <1>8, <1>10 DEF e

(* The panes show the first stacks of q, which are e.                      *)
Shows(o, q, e) ==
  /\ e \in Seq(StackRec) /\ IsInjective(e) /\ Range(e) \subseteq Range(q)
  /\ Len(e) <= Len(o.panes)
  /\ Len(e) < Len(o.panes) => Range(q) \subseteq Range(e)
  /\ \A i \in DOMAIN o.panes : o.panes[i].at = IF i <= Len(e) THEN e[i].active ELSE 0
  /\ \A x \in TabsIn(Range(e)) : \E i \in DOMAIN q : i <= Len(o.panes) /\ x \in Range(q[i].tabs)

(* A layout of which the panes show the first stacks.                      *)
LEMMA FirstShown ==
  ASSUME NEW w, Core(w), NEW q, Division(q, w), NEW o, Shape(o),
         \A i \in DOMAIN o.panes : o.panes[i].at = IF i <= Len(q) THEN q[i].active ELSE 0
  PROVE  \E e : Shows(o, q, e)
<1> DEFINE k == Len(q)
           n == Len(o.panes)
<1>1. k \in Nat
  BY DivisionFacts
<1>2. n \in Nat /\ DOMAIN o.panes = 1 .. n
  BY PaneCount
<1> HIDE DEF k, n
<1> DEFINE m == IF n <= k THEN n ELSE k
           e == FirstOf(q, m)
<1>3. m \in Nat /\ m <= k /\ m <= n /\ (m < n => m = k)
  BY <1>1, <1>2
<1>4. \A i \in 1 .. n : (i <= m <=> i <= k)
  BY <1>1, <1>2
<1> HIDE DEF m
<1>5. /\ e \in Seq(StackRec) /\ IsInjective(e) /\ Len(e) = m
      /\ Range(e) \subseteq Range(q)
      /\ m = k => Range(q) \subseteq Range(e)
  BY <1>3, FirstOfFacts DEF k
<1>6. /\ \A i \in 1 .. m : e[i] = q[i]
      /\ \A x \in TabsIn(Range(e)) : \E i \in 1 .. m : i \in DOMAIN q /\ x \in Range(q[i].tabs)
  BY <1>3, FirstOfFacts DEF k
<1> HIDE DEF e
<1>7. Len(e) <= n /\ (Len(e) < n => Range(q) \subseteq Range(e))
  BY <1>3, <1>5
<1>8. ASSUME NEW i \in DOMAIN o.panes PROVE o.panes[i].at = IF i <= Len(e) THEN e[i].active ELSE 0
  <2>1. i \in 1 .. n /\ o.panes[i].at = IF i <= k THEN q[i].active ELSE 0
    BY <1>2 DEF k
  <2>2. CASE i <= m
    <3>1. e[i] = q[i] /\ i <= k
      BY <1>2, <1>4, <1>6, <2>1, <2>2
    <3> QED BY <1>5, <2>1, <2>2, <3>1
  <2>3. CASE ~ (i <= m)
    BY <1>4, <1>5, <2>1, <2>3
  <2> QED BY <2>2, <2>3
<1>9. \A x \in TabsIn(Range(e)) : \E i \in DOMAIN q : i <= n /\ x \in Range(q[i].tabs)
  BY <1>2, <1>3, <1>6
<1>10. Shows(o, q, e)
  BY <1>5, <1>7, <1>8, <1>9 DEF Shows, n
<1> QED BY <1>10

(* The grid before the focus is looked for.                                *)
LEMMA GridLaid ==
  ASSUME NEW w, Core(w), NEW q, Division(q, w), NEW n \in Nat \ {0}, NEW o, GridFor(o, w, n, q),
         \A x : x \in Range(o.overflow) <=> /\ x \notin InPanes(o)
                                            /\ \E i \in DOMAIN q : i > n /\ x \in Range(q[i].tabs)
  PROVE  \E e : Laid(o, w, q, e)
<1>0. /\ Shape(o) /\ o.mode = "grid" /\ o.focus = 0 /\ o.list = w.list
      /\ Len(o.panes) = n /\ DOMAIN o.panes = 1 .. n
      /\ \A i \in 1 .. n : o.panes[i].at = IF i <= Len(q) THEN q[i].active ELSE 0
  BY DEF GridFor
<1>1. /\ DOMAIN q = 1 .. Len(q) /\ Len(q) \in Nat
      /\ \A i \in DOMAIN q : /\ q[i].active # 0
                             /\ Range(q[i].tabs) \subseteq Range(w.list)
      /\ \A i, j \in DOMAIN q : \A x \in Range(q[i].tabs) : x \in Range(q[j].tabs) => i = j
  BY DivisionFacts
<1>2. PICK e : Shows(o, q, e)
  BY <1>0, FirstShown
<1>3. \A x \in TabsIn(Range(e)) : \E i \in DOMAIN q : i <= n /\ x \in Range(q[i].tabs)
  BY <1>0, <1>2 DEF Shows
<1>8. ASSUME NEW x \in Range(o.overflow)
      PROVE  x \in Range(w.list) /\ x \notin InPanes(o) /\ x \notin TabsIn(Range(e))
  <2>1. PICK i \in DOMAIN q : i > n /\ x \in Range(q[i].tabs)
    OBVIOUS
  <2>2. ASSUME x \in TabsIn(Range(e)) PROVE FALSE
    <3>1. PICK j \in DOMAIN q : j <= n /\ x \in Range(q[j].tabs)
      BY <1>3, <2>2
    <3>2. i = j
      BY <1>1, <2>1, <3>1
    <3> QED BY <1>1, <2>1, <3>1, <3>2
  <2> QED BY <1>1, <2>1, <2>2
<1>9. FullOrNone(o)
  <2> SUFFICES ASSUME n = 1, At(o, 1) = 0 PROVE o.overflow = <<>>
    BY <1>0 DEF FullOrNone
  <2>1. 1 \in DOMAIN o.panes /\ o.panes[1].id = 1
    BY <1>0 DEF Shape
  <2>2. At(o, 1) = o.panes[1].at
    BY <1>0, <2>1, View
  <2>3. Len(q) = 0
    <3>1. SUFFICES ASSUME 1 <= Len(q) PROVE FALSE
      BY <1>1
    <3>2. 1 \in DOMAIN q /\ o.panes[1].at = q[1].active
      BY <1>0, <1>1, <2>1, <3>1
    <3> QED BY <1>1, <2>2, <3>2
  <2>4. Range(o.overflow) = {}
    BY <1>1, <2>3
  <2>5. o.overflow \in IdSeqs
    BY <1>0, WorkspaceFields DEF Shape
  <2> QED BY <2>4, <2>5, IdSeqFacts
<1>11. Laid(o, w, q, e)
  BY <1>0, <1>2, <1>8, <1>9 DEF Laid, Shows
<1> QED BY <1>11

(* The focus has no part in it.                                            *)
LEMMA LaidKeeps ==
  ASSUME NEW v, NEW w, NEW q, NEW e, Laid(v, w, q, e), NEW u, OnlyFocus(u, v)
  PROVE  Laid(u, w, q, e) /\ u.mode = v.mode
<1>1. Shape(v) /\ v.focus \in PaneIds(v) \cup {0} /\ FullOrNone(v)
  BY DEF Laid
<1>2. /\ Shape(u)
      /\ u.mode = v.mode /\ u.panes = v.panes /\ u.overflow = v.overflow /\ u.list = v.list
      /\ u.focus \in PaneIds(v) \cup {0, v.focus}
      /\ PaneIds(u) = PaneIds(v) /\ InPanes(u) = InPanes(v) /\ \A p : At(u, p) = At(v, p)
  BY <1>1, OnlyFocusFacts
<1>3. u.focus \in PaneIds(u) \cup {0} /\ FullOrNone(u)
  BY <1>1, <1>2 DEF FullOrNone
<1>4. Laid(u, w, q, e)
  BY Zenon, <1>2, <1>3 DEF Laid
<1> QED BY <1>2, <1>4

(* The single cell that is given back the session that was focused.        *)
LEMMA SwappedBack ==
  ASSUME NEW w, Core(w), NEW q, Division(q, w), NEW o, NEW d, Laid(o, w, q, d),
         o.mode = "grid", Len(o.panes) = 1, NEW x \in InPanes(w), x \in Range(o.overflow)
  PROVE  LET v == SwapHidden(o, x, 1) IN v.mode = "grid" /\ \E e : Laid(v, w, q, e)
<1> DEFINE v == SwapHidden(o, x, 1)
<1>1. /\ Shape(o) /\ o.list = w.list /\ FullOrNone(o) /\ o.focus \in PaneIds(o) \cup {0}
      /\ \A y \in Range(o.overflow) : y \in Range(w.list) /\ y \notin InPanes(o)
  BY DEF Laid
<1>2. DOMAIN o.panes = 1 .. 1 /\ o.panes[1].id = 1
  <2>1. DOMAIN o.panes = 1 .. 1
    BY <1>1, PaneCount
  <2> QED BY <1>1, <2>1 DEF Shape
<1>3. 1 \in PaneIds(o)
  BY <1>2 DEF PaneIds
<1>4. At(o, 1) # 0 /\ At(o, 1) \in InPanes(o)
  <2>1. o.overflow # <<>>
    BY DEF Range
  <2>2. At(o, 1) # 0
    BY <1>1, <2>1 DEF FullOrNone
  <2> QED BY <1>1, <1>3, <2>2, View
<1>5. At(o, 1) \in Range(w.list)
  <2>1. At(o, 1) = o.panes[1].at /\ 1 \in DOMAIN o.panes
    BY <1>1, <1>2, View
  <2>2. o.panes[1].at = (IF 1 <= Len(d) THEN d[1].active ELSE 0) /\ d \in Seq(StackRec) /\ Range(d) \subseteq Range(q)
    BY <2>1 DEF Laid
  <2>3. 1 <= Len(d) /\ At(o, 1) = d[1].active
    BY <1>4, <2>1, <2>2
  <2>4. d[1] \in Range(q)
    BY <2>2, <2>3 DEF Range
  <2>5. d[1].active \in Range(d[1].tabs) /\ TabsIn(Range(q)) = Range(w.list)
    BY <2>4 DEF Division, Parted, Apart
  <2> QED BY <2>3, <2>4, <2>5 DEF TabsIn
<1>6. /\ Takes(v, o, 1, x) /\ v.focus = 1
      /\ Range(v.overflow) = (Range(o.overflow) \ {x}) \cup {At(o, 1)}
  BY <1>1, <1>3, <1>4, SwapHiddenFacts
<1> HIDE DEF v
<1>7. /\ Shape(v) /\ v.mode = "grid" /\ v.list = w.list /\ Len(v.panes) = 1 /\ PaneIds(v) = PaneIds(o)
      /\ At(v, 1) = x
  BY <1>1, <1>6 DEF Takes
<1>8. DOMAIN v.panes = 1 .. 1 /\ v.panes[1].at = x
  <2>1. DOMAIN v.panes = 1 .. 1
    BY <1>7, PaneCount
  <2>2. 1 \in DOMAIN v.panes /\ v.panes[1].id = 1
    BY <1>7, <2>1 DEF Shape
  <2>3. At(v, 1) = v.panes[1].at
    BY <1>7, <2>2, View
  <2> QED BY <1>7, <2>1, <2>3
<1>9. PICK st \in Range(q) : st.active = x
  BY DEF Division
<1> DEFINE e == <<st>>
<1>10. Range(e) = {st} /\ IsInjective(e)
  BY SingletonRange
<1>11. st \in StackRec
  BY DivisionFacts DEF Range
<1>12. e \in Seq(StackRec) /\ Len(e) = 1 /\ e[1] = st
  BY <1>11
<1> HIDE DEF e
<1>13. \A i \in DOMAIN v.panes : i <= 1 /\ i = 1
  BY <1>8
<1>14. \A i \in DOMAIN v.panes : v.panes[i].at = IF i <= Len(e) THEN e[i].active ELSE 0
  <2> SUFFICES ASSUME NEW i \in DOMAIN v.panes
               PROVE  v.panes[i].at = IF i <= Len(e) THEN e[i].active ELSE 0
    OBVIOUS
  <2>1. i = 1 /\ 1 <= Len(e)
    BY <1>12, <1>13
  <2> QED BY <1>8, <1>9, <1>12, <2>1
<1>15. InPanes(v) \subseteq {x}
  BY <1>8 DEF InPanes
<1>16. ASSUME NEW y \in Range(v.overflow)
       PROVE  y \in Range(w.list) /\ y \notin InPanes(v)
  <2>1. y # x
    BY <1>1, <1>4, <1>6
  <2> QED BY <1>1, <1>5, <1>6, <1>15, <2>1
<1>17. x # 0
  BY DEF InPanes, Nobody
<1>18. FullOrNone(v)
  BY <1>7, <1>17 DEF FullOrNone
<1>19. v.focus \in PaneIds(v) \cup {0}
  BY <1>3, <1>6, <1>7
<1>20. /\ Len(e) <= Len(v.panes) /\ ~ (Len(e) < Len(v.panes)) /\ ~ (Len(v.panes) > 1)
       /\ Range(e) \subseteq Range(q)
  BY <1>7, <1>9, <1>10, <1>12
<1>21. Laid(v, w, q, e)
  BY <1>7, <1>10, <1>12, <1>14, <1>16, <1>18, <1>19, <1>20 DEF Laid
<1> QED BY <1>7, <1>21 DEF v

(* v was rebuilt, in one of the two modes, for the stacks q of w.          *)
Rebuilt(v, w, q, m) == v.mode = m /\ \E e : Laid(v, w, q, e)

(* Focus has no part in it.                                                *)
LEMMA RebuiltKeeps ==
  ASSUME NEW v, NEW w, NEW q, NEW m, Rebuilt(v, w, q, m), NEW u, OnlyFocus(u, v)
  PROVE  Rebuilt(u, w, q, m)
<1>1. PICK e : Laid(v, w, q, e)
  BY DEF Rebuilt
<1>2. Laid(u, w, q, e) /\ u.mode = v.mode
  BY <1>1, LaidKeeps
<1> QED BY <1>2 DEF Rebuilt

(* It is a layout.                                                         *)
LEMMA RebuiltShape ==
  ASSUME NEW v, NEW w, NEW q, NEW m, Rebuilt(v, w, q, m)
  PROVE  Shape(v)
BY DEF Rebuilt, Laid

(* rebuild_grid_state.                                                     *)
LEMMA RebuildGridFacts ==
  ASSUME NEW w, Core(w), NEW q, Division(q, w), NEW n \in Nat \ {0}
  PROVE  Rebuilt(RebuildGrid(w, n, q), w, q, "grid")
<1> DEFINE g == GridOf(w, n, q)
           o == Overflowing(g, q)
           x == FocusedSession(w)
           u == Refocused(o, x)
<1>1. RebuildGrid(w, n, q) = FocusSomething(u)
  BY Zenon DEF RebuildGrid
<1>2. GridFor(g, w, n, q)
  BY GridOfFacts
<1> HIDE DEF g
<1>3. /\ GridFor(o, w, n, q)
      /\ \A y : y \in Range(o.overflow) <=> /\ y \notin InPanes(o)
                                            /\ \E i \in DOMAIN q : i > n /\ y \in Range(q[i].tabs)
  BY <1>2, OverflowingFacts
<1> HIDE DEF o
<1>4. Shape(o) /\ o.mode = "grid"
  BY <1>3 DEF GridFor
<1>5. \E e : Laid(o, w, q, e)
  BY <1>3, GridLaid
<1>6. Rebuilt(o, w, q, "grid")
  BY <1>4, <1>5 DEF Rebuilt
<1>7. x # 0 => x \in InPanes(w)
  BY CoreView DEF FocusedSession
<1>8. u = IF x # 0 /\ x \notin InPanes(o) /\ Len(o.panes) = 1 THEN SwapHidden(o, x, 1) ELSE LayoutFocus(o, x)
  BY Zenon DEF Refocused, Nobody
<1> HIDE DEF u, x
<1>9. Rebuilt(u, w, q, "grid")
  <2>1. CASE x # 0 /\ x \notin InPanes(o) /\ Len(o.panes) = 1
    <3>1. u = SwapHidden(o, x, 1)
      BY Zenon, <1>8, <2>1
    <3>2. CASE x \in Range(o.overflow)
      <4>1. PICK d : Laid(o, w, q, d)
        BY <1>5
      <4>2. SwapHidden(o, x, 1).mode = "grid" /\ \E e : Laid(SwapHidden(o, x, 1), w, q, e)
        BY <1>4, <1>7, <2>1, <3>2, <4>1, SwappedBack
      <4> QED BY <3>1, <4>2 DEF Rebuilt
    <3>3. CASE x \notin Range(o.overflow)
      <4>1. u = o
        BY Zenon, <3>1, <3>3 DEF SwapHidden
      <4> QED BY <1>6, <4>1
    <3> QED BY <3>2, <3>3
  <2>2. CASE ~ (x # 0 /\ x \notin InPanes(o) /\ Len(o.panes) = 1)
    <3>1. u = LayoutFocus(o, x)
      BY Zenon, <1>8, <2>2
    <3>2. OnlyFocus(u, o)
      BY <1>4, <3>1, FocusOps
    <3> QED BY <1>6, <3>2, RebuiltKeeps
  <2> QED BY <2>1, <2>2
<1>10. OnlyFocus(FocusSomething(u), u)
  BY <1>9, RebuiltShape, FocusOps
<1> QED BY <1>1, <1>9, <1>10, RebuiltKeeps

(* v has the sessions and the stacks of w in another layout.               *)
Rearranged(v, w, m) ==
  /\ Good(v) /\ v.list = w.list /\ v.mode = m
  /\ OnlyActive(v, InPanes(w))
  /\ StackSets(v) = StackSets(w)

(* The stacks of w, applied to a layout rebuilt for them.                  *)
LEMMA RebuiltArranged ==
  ASSUME NEW w, Core(w), NEW v, NEW m, Rebuilt(v, w, TransitionStacks(w), m)
  PROVE  /\ Rearranged(Arranged(v, TransitionStacks(w)), w, m)
         /\ Arranged(v, TransitionStacks(w)).panes = v.panes
         /\ Arranged(v, TransitionStacks(w)).next = v.next
<1> DEFINE q == TransitionStacks(w)
           a == Arranged(v, q)
<1>1. Division(q, w) /\ StackSets(w) = SetsOf(Range(q))
  BY TransitionFacts
<1> HIDE DEF q
<1>2. PICK e : Laid(v, w, q, e)
  BY DEF Rebuilt, q
<1>3. ArrangedBy(a, v, w, q)
  BY <1>1, <1>2, ArrangedFacts
<1>4. v.mode = m
  BY DEF Rebuilt
<1> HIDE DEF a
<1>5. Rearranged(a, w, m) /\ a.panes = v.panes /\ a.next = v.next
  BY <1>1, <1>3, <1>4 DEF ArrangedBy, Rearranged
<1> QED BY <1>5 DEF a, q

(* set_layout of a grid.                                                   *)
LEMMA SetLayoutFacts ==
  ASSUME NEW w, Core(w), NEW n \in Nat \ {0}
  PROVE  Rearranged(SetLayout(w, n), w, "grid")
<1> DEFINE q == TransitionStacks(w)
           v == RebuildGrid(w, n, q)
<1>1. Division(q, w)
  BY TransitionFacts
<1>2. Rebuilt(v, w, q, "grid")
  BY <1>1, RebuildGridFacts
<1>3. SetLayout(w, n) = Arranged(v, q)
  BY Zenon DEF SetLayout, AsGrid
<1> HIDE DEF v
<1>4. Rearranged(Arranged(v, q), w, "grid")
  BY <1>2, RebuiltArranged
<1> QED BY <1>3, <1>4

(* The first i stacks have been added to a tree of n leaves.               *)
Filling(v, w, n, q, i) ==
  /\ Shape(v)
  /\ v.mode = "split" /\ v.list = w.list /\ v.focus = 0
  /\ Len(v.panes) = n
  /\ \A j \in DOMAIN v.panes : v.panes[j].at = IF j <= i THEN q[j].active ELSE 0

(* What Put makes of each pane.                                            *)
LEMMA PutPanes ==
  ASSUME NEW v, Shape(v), NEW k \in DOMAIN v.panes, NEW s \in Nat
  PROVE  /\ DOMAIN Put(v, v.panes[k].id, s).panes = DOMAIN v.panes
         /\ \A j \in DOMAIN v.panes :
              Put(v, v.panes[k].id, s).panes[j].at = IF j = k THEN s ELSE v.panes[j].at
<1> DEFINE p == v.panes[k].id
           x == Put(v, p, s)
<1>1. /\ Shape(x) /\ Len(x.panes) = Len(v.panes) /\ PaneIds(x) = PaneIds(v)
      /\ p \in PaneIds(v)
  <2>1. p \in PaneIds(v)
    BY View
  <2> HIDE DEF p
  <2> QED BY <2>1, PutFacts
<1>2. DOMAIN x.panes = 1 .. Len(x.panes) /\ DOMAIN v.panes = 1 .. Len(v.panes)
  BY <1>1, PaneCount
<1>3. x.panes = [j \in DOMAIN v.panes |-> IF v.panes[j].id = p THEN Pane(p, s) ELSE v.panes[j]]
  BY WorkspaceFields DEF Put, Shape, Workspace
<1>4. \A j \in DOMAIN v.panes : v.panes[j].id = p <=> j = k
  BY DEF Shape
<1> HIDE DEF x, p
<1>5. \A j \in DOMAIN v.panes : x.panes[j].at = IF j = k THEN s ELSE v.panes[j].at
  BY <1>3, <1>4 DEF Pane
<1> QED BY <1>1, <1>2, <1>5 DEF x, p

(* add_session of the next stack.                                          *)
LEMMA FillStep ==
  ASSUME NEW w, Core(w), NEW q, Division(q, w), NEW n, NEW i \in 1 .. Len(q), NEW v, Filling(v, w, n, q, i - 1)
  PROVE  Filling(LayoutAdd(v, q[i].active), w, n, q, i)
<1> DEFINE s == q[i].active
           p == FirstPane(v, TRUE)
           x == LayoutAdd(v, s)
<1>1. /\ DOMAIN q = 1 .. Len(q) /\ Len(q) \in Nat
      /\ \A j \in DOMAIN q : q[j].active \in Nat /\ q[j].active # 0 /\ q[j].active \in Range(q[j].tabs)
      /\ \A j, k \in DOMAIN q : \A y \in Range(q[j].tabs) : y \in Range(q[k].tabs) => j = k
  BY DivisionFacts
<1>2. /\ Shape(v) /\ v.mode = "split" /\ v.list = w.list /\ v.focus = 0 /\ Len(v.panes) = n
      /\ \A j \in DOMAIN v.panes : v.panes[j].at = IF j <= i - 1 THEN q[j].active ELSE 0
  BY DEF Filling
<1>3. /\ DOMAIN v.panes = 1 .. n /\ n \in Nat /\ v.overflow = <<>>
  BY <1>2, PaneCount DEF Shape
<1>4. s \in Nat /\ s # 0 /\ i \in Nat
  BY <1>1
<1>5. \A j \in DOMAIN q : q[j].active = s => j = i
  BY <1>1
<1>6. \A j \in DOMAIN v.panes : j <= i - 1 => j \in DOMAIN q
  BY <1>1, <1>3
<1>7. s \notin InPanes(v) \cup Range(v.overflow)
  <2>1. \A j \in DOMAIN v.panes : v.panes[j].at # s
    <3> SUFFICES ASSUME NEW j \in DOMAIN v.panes, v.panes[j].at = s PROVE FALSE
      OBVIOUS
    <3>1. j <= i - 1 /\ q[j].active = s
      BY <1>2, <1>4
    <3>2. j = i
      BY <1>5, <1>6, <3>1
    <3> QED BY <1>4, <3>1, <3>2
  <2> QED BY <1>3, <2>1 DEF InPanes, Range
<1> HIDE DEF s
<1>8. x = IF p # 0 THEN Put(v, p, s) ELSE v
  BY Zenon, <1>2, <1>7 DEF LayoutAdd, NoPane
<1> HIDE DEF x
<1>9. CASE i \in DOMAIN v.panes
  <2>1. v.panes[i].at = 0 /\ \A j \in DOMAIN v.panes : j < i => v.panes[j].at # 0
    BY <1>1, <1>2, <1>3, <1>4, <1>6, <1>9
  <2>2. At(v, v.panes[i].id) = 0 /\ v.panes[i].id \in PaneIds(v)
    BY <1>2, <1>9, <2>1, View
  <2>3. p # 0
    <3>1. p = 0 => \A r \in PaneIds(v) : (At(v, r) = 0) # TRUE
      BY <1>2, FirstPaneFacts
    <3> HIDE DEF p
    <3> QED BY <2>2, <3>1
  <2>4. PICK k \in DOMAIN v.panes : /\ v.panes[k].id = p
                                    /\ (v.panes[k].at = 0) = TRUE
                                    /\ \A j \in 1 .. k - 1 : (v.panes[j].at = 0) # TRUE
    <3>1. p # 0 => \E k \in DOMAIN v.panes : /\ v.panes[k].id = p
                                             /\ (v.panes[k].at = 0) = TRUE
                                             /\ \A j \in 1 .. k - 1 : (v.panes[j].at = 0) # TRUE
      BY <1>2, FirstPaneFacts
    <3> HIDE DEF p
    <3> QED BY <2>3, <3>1
  <2>5. v.panes[k].at = 0 /\ \A j \in 1 .. k - 1 : v.panes[j].at # 0
    BY <2>4
  <2> HIDE DEF p
  <2>6. k = i
    <3>1. ~ (k < i)
      BY <2>1, <2>5
    <3>2. ~ (i < k)
      BY <1>3, <1>4, <1>9, <2>1, <2>5
    <3> QED BY <1>3, <1>4, <3>1, <3>2
  <2>7. p = v.panes[i].id
    BY <2>4, <2>6
  <2>8. x = Put(v, p, s)
    BY <1>8, <2>3
  <2>9. /\ Shape(x) /\ x.mode = "split" /\ x.list = w.list /\ x.focus = 0 /\ Len(x.panes) = n
    BY <1>2, <1>4, <2>2, <2>7, <2>8, PutFacts
  <2>10. /\ DOMAIN x.panes = DOMAIN v.panes
         /\ \A j \in DOMAIN v.panes : x.panes[j].at = IF j = i THEN s ELSE v.panes[j].at
    BY <1>2, <1>4, <1>9, <2>7, <2>8, PutPanes
  <2>11. ASSUME NEW j \in DOMAIN x.panes PROVE x.panes[j].at = IF j <= i THEN q[j].active ELSE 0
    <3>1. j \in Nat /\ j \in DOMAIN v.panes
      BY <1>3, <2>10
    <3>2. CASE j = i
      <4>1. j <= i /\ x.panes[j].at = s
        BY <1>4, <2>10, <3>1, <3>2
      <4> QED BY <3>2, <4>1 DEF s
    <3>3. CASE j # i
      <4>1. j <= i - 1 <=> j <= i
        BY <1>4, <3>1, <3>3
      <4>2. x.panes[j].at = IF j <= i - 1 THEN q[j].active ELSE 0
        BY <1>2, <2>10, <3>1, <3>3
      <4> QED BY <4>1, <4>2
    <3> QED BY <3>2, <3>3
  <2> QED BY <2>9, <2>11 DEF Filling, x, s
<1>10. CASE i \notin DOMAIN v.panes
  <2>1. \A j \in DOMAIN v.panes : j <= i - 1 /\ j <= i
    BY <1>3, <1>4, <1>10
  <2>2. \A j \in DOMAIN v.panes : v.panes[j].at # 0 /\ v.panes[j].at = q[j].active
    BY <1>1, <1>2, <1>6, <2>1
  <2>3. \A r \in PaneIds(v) : At(v, r) # 0
    BY <1>2, <2>2, View
  <2>4. p = 0
    <3>1. p # 0 => p \in PaneIds(v) /\ (At(v, p) = 0) = TRUE
      BY <1>2, FirstPaneFacts
    <3> HIDE DEF p
    <3> QED BY <2>3, <3>1
  <2>5. x = v
    BY <1>8, <2>4
  <2>6. \A j \in DOMAIN v.panes : v.panes[j].at = IF j <= i THEN q[j].active ELSE 0
    BY <2>1, <2>2
  <2> QED BY <1>2, <2>5, <2>6 DEF Filling, x, s
<1> QED BY <1>9, <1>10

(* add_session of the tree changes nothing but the panes.                  *)
LEMMA AddToTree ==
  ASSUME NEW v, Shape(v), v.mode = "split", NEW s \in Nat
  PROVE  Shape(LayoutAdd(v, s)) /\ LayoutAdd(v, s).mode = "split"
<1> DEFINE p == FirstPane(v, TRUE)
           x == LayoutAdd(v, s)
<1>1. x = IF s \notin InPanes(v) \cup Range(v.overflow) /\ p # 0 THEN Put(v, p, s) ELSE v
  BY Zenon DEF LayoutAdd, NoPane
<1>2. p # 0 => p \in PaneIds(v)
  BY FirstPaneFacts
<1> HIDE DEF p, x
<1>3. CASE s \notin InPanes(v) \cup Range(v.overflow) /\ p # 0
  <2>1. x = Put(v, p, s)
    BY <1>1, <1>3
  <2> QED BY <1>2, <1>3, <2>1, PutFacts DEF x
<1>4. CASE ~ (s \notin InPanes(v) \cup Range(v.overflow) /\ p # 0)
  BY <1>1, <1>4 DEF x
<1> QED BY <1>3, <1>4

(* add_session of every stack's active session.                            *)
LEMMA FilledFacts ==
  ASSUME NEW w, Core(w), NEW q, Division(q, w), NEW n, NEW t, Filling(t, w, n, q, 0)
  PROVE  Filling(Filled(t, q), w, n, q, Len(q))
<1> DEFINE as == [i \in DOMAIN q |-> q[i].active]
           k == Len(q)
           T == {v \in Workspace : Shape(v) /\ v.mode = "split"}
<1>1. /\ DOMAIN q = 1 .. Len(q) /\ k \in Nat
      /\ \A j \in DOMAIN q : q[j].active \in Nat
  BY DivisionFacts
<1>2. as \in [1 .. k -> Nat] /\ \A i \in 1 .. k : as[i] = q[i].active
  BY <1>1
<1>3. Filled(t, q) = AddAll(t, as)
  BY Zenon DEF Filled
<1> HIDE DEF as
<1>4. as \in Seq(Nat) /\ Len(as) = k
  BY <1>1, <1>2, FunctionIsSeq
<1>5. t \in T
  BY DEF Filling, Shape
<1>6. ASSUME NEW v \in T, NEW i \in 1 .. Len(as) PROVE LayoutAdd(v, as[i]) \in T
  <2>1. as[i] \in Nat
    BY <1>2, <1>4
  <2>2. Shape(LayoutAdd(v, as[i])) /\ LayoutAdd(v, as[i]).mode = "split"
    BY <2>1, AddToTree
  <2> QED BY <2>2 DEF Shape
<1> HIDE DEF T
<1>7. PICK f : /\ AddAll(t, as) = f[Len(as)] /\ f[0] = t
               /\ \A i \in 1 .. Len(as) : f[i] = LayoutAdd(f[i - 1], as[i])
  <2>1. Len(as) \in Nat
    BY <1>1, <1>4
  <2>2. \E f : AddsUp(f, t, as, T)
    BY <1>5, <1>6, <2>1, AddAllUnfolds
  <2> QED BY Zenon, <2>2 DEF AddsUp
<1>8. \A i \in 1 .. k : f[i] = LayoutAdd(f[i - 1], q[i].active)
  BY <1>2, <1>4, <1>7
<1>9. /\ AddAll(t, as) = f[k] /\ f[0] = t
  BY <1>4, <1>7
<1> DEFINE N == {i \in Nat : i <= k => Filling(f[i], w, n, q, i)}
<1>10. 0 \in N
  BY <1>9
<1>11. ASSUME NEW i \in Nat, i \in N PROVE i + 1 \in N
  <2> SUFFICES ASSUME i + 1 <= k PROVE Filling(f[i + 1], w, n, q, i + 1)
    OBVIOUS
  <2> DEFINE j == i + 1
  <2>1. j \in 1 .. k /\ j - 1 = i /\ Filling(f[i], w, n, q, i)
    BY <1>1, <1>11
  <2> HIDE DEF j, N
  <2>2. Filling(LayoutAdd(f[j - 1], q[j].active), w, n, q, j)
    BY <2>1, FillStep
  <2>3. f[j] = LayoutAdd(f[j - 1], q[j].active)
    BY <1>8, <2>1
  <2> QED BY <2>2, <2>3 DEF j
<1>12. \A i \in Nat : i \in N
  <2> HIDE DEF N
  <2> QED BY <1>10, <1>11, NatSetInduction
<1>13. Filling(f[k], w, n, q, k)
  BY <1>1, <1>12
<1> QED BY <1>3, <1>9, <1>13

(* The slots of a new tree, of which k is the largest.                     *)
TreeSlots(slots, k) ==
  /\ slots \in Seq(Nat \ {0}) /\ slots # <<>> /\ IsInjective(slots)
  /\ k \in Range(slots) /\ \A x \in Range(slots) : x <= k

(* The largest of a set.                                                   *)
LEMMA MaxIs ==
  ASSUME NEW S, S \subseteq Nat, NEW m \in S, \A x \in S : x <= m
  PROVE  Max(S) = m
<1> DEFINE c == CHOOSE x \in S : \A y \in S : x >= y
<1>1. Max(S) = c
  BY Zenon DEF Max
<1>2. \E x \in S : \A y \in S : x >= y
  OBVIOUS
<1>3. c \in S /\ \A y \in S : c >= y
  BY <1>2
<1> HIDE DEF c
<1>4. c <= m /\ m <= c /\ c \in Nat /\ m \in Nat
  BY <1>3
<1>5. c = m
  BY <1>4
<1> QED BY <1>1, <1>5

(* The empty tree.                                                         *)
LEMMA TreeOfFacts ==
  ASSUME NEW w, Core(w), NEW slots, NEW k, TreeSlots(slots, k), NEW q
  PROVE  Filling(TreeOf(w, slots), w, Len(slots), q, 0)
<1> DEFINE ps == [i \in DOMAIN slots |-> Pane(slots[i], 0)]
           n == Len(slots)
           v == TreeOf(w, slots)
<1>1. /\ slots \in Seq(Nat \ {0}) /\ DOMAIN slots = 1 .. n /\ n \in Nat /\ n # 0 /\ IsInjective(slots)
      /\ k \in Nat /\ \A i \in 1 .. n : slots[i] \in Nat /\ slots[i] # 0 /\ slots[i] <= k
  <2>1. slots \in Seq(Nat \ {0}) /\ slots # <<>>
    BY DEF TreeSlots
  <2>2. DOMAIN slots = 1 .. n /\ n \in Nat /\ n # 0 /\ Range(slots) \subseteq Nat \ {0}
    BY <2>1, InRange
  <2>3. \A i \in 1 .. n : slots[i] \in Range(slots)
    BY <2>2 DEF Range
  <2> QED BY <2>1, <2>2, <2>3 DEF TreeSlots
<1>2. Max(Range(slots) \cup {0}) = k
  <2> DEFINE S == Range(slots) \cup {0}
  <2>1. k \in S /\ S \subseteq Nat /\ \A x \in S : x <= k
    BY <1>1 DEF TreeSlots, Range
  <2> HIDE DEF S
  <2>2. Max(S) = k
    BY <2>1, MaxIs
  <2> QED BY <2>2 DEF S
<1>3. \A i \in 1 .. n : ps[i] = Pane(slots[i], 0) /\ Pane(slots[i], 0) \in PaneRec
                        /\ Pane(slots[i], 0).id = slots[i] /\ Pane(slots[i], 0).at = 0
  BY <1>1 DEF Pane, PaneRec
<1>4. ps \in [1 .. n -> PaneRec]
  BY <1>1, <1>3
<1>9. v = [w EXCEPT !.mode = "split", !.focus = 0, !.overflow = <<>>, !.next = 1 + k, !.panes = ps]
  BY Zenon, <1>2 DEF TreeOf, NoPane, Nobody
<1> HIDE DEF ps, v
<1>5. /\ DOMAIN ps = 1 .. n /\ \A i \in 1 .. n : ps[i].id = slots[i] /\ ps[i].at = 0
  BY <1>3, <1>4
<1> HIDE DEF n
<1>6. ps \in Seq(PaneRec) /\ Len(ps) = n
  BY <1>1, <1>4, FunctionIsSeq
<1>7. Relaid(v, w, "split", ps, 1 + k)
  BY Zenon, <1>9 DEF Relaid
<1>8. w \in Workspace /\ ps \in PaneSeqs /\ 1 + k \in Nat /\ "split" \in Modes
  BY <1>1, <1>6 DEF Core, Sound, Shape, PaneSeqs, Modes
<1>10. /\ v \in Workspace
       /\ v.mode = "split" /\ v.focus = 0 /\ v.overflow = <<>> /\ v.next = 1 + k /\ v.panes = ps
       /\ v.list = w.list
  BY <1>7, <1>8, RelaidFacts
<1>11. ps # <<>>
  BY <1>1, <1>6
<1>12. \A i, j \in DOMAIN ps : ps[i].id = ps[j].id => i = j
  BY <1>1, <1>5 DEF IsInjective
<1>13. \A i \in DOMAIN ps : ps[i].id # 0 /\ ps[i].id < 1 + k
  BY <1>1, <1>5
<1>14. Shape(v)
  BY <1>10, <1>11, <1>12, <1>13 DEF Shape
<1>15. \A j \in DOMAIN v.panes : v.panes[j].at = IF j <= 0 THEN q[j].active ELSE 0
  BY <1>1, <1>5, <1>10
<1>16. Filling(v, w, n, q, 0)
  BY <1>6, <1>10, <1>14, <1>15 DEF Filling
<1> QED BY <1>16 DEF v, n

(* rebuild_split_state.                                                    *)
LEMMA RebuildSplitFacts ==
  ASSUME NEW w, Core(w), NEW q, Division(q, w), NEW slots, NEW k, TreeSlots(slots, k)
  PROVE  Rebuilt(RebuildSplit(w, slots, q), w, q, "split")
<1> DEFINE t == TreeOf(w, slots)
           x == Filled(t, q)
           y == LayoutFocus(x, FocusedSession(w))
<1>1. RebuildSplit(w, slots, q) = FocusSomething(y)
  BY Zenon DEF RebuildSplit
<1>2. Filling(t, w, Len(slots), q, 0)
  BY TreeOfFacts
<1> HIDE DEF t
<1>3. Filling(x, w, Len(slots), q, Len(q))
  BY <1>2, FilledFacts
<1> HIDE DEF x
<1>4. /\ Shape(x) /\ x.mode = "split" /\ x.list = w.list /\ x.focus = 0
      /\ \A j \in DOMAIN x.panes : x.panes[j].at = IF j <= Len(q) THEN q[j].active ELSE 0
  BY <1>3 DEF Filling
<1>5. PICK e : Shows(x, q, e)
  BY <1>4, FirstShown
<1>6. FullOrNone(x)
  BY <1>4 DEF FullOrNone
<1>7. Laid(x, w, q, e)
  BY <1>4, <1>5, <1>6 DEF Laid, Shows
<1>8. Rebuilt(x, w, q, "split")
  BY <1>4, <1>7 DEF Rebuilt
<1>9. OnlyFocus(y, x)
  BY <1>4, FocusOps
<1> HIDE DEF y
<1>10. Rebuilt(y, w, q, "split")
  BY <1>8, <1>9, RebuiltKeeps
<1>11. OnlyFocus(FocusSomething(y), y)
  BY <1>10, RebuiltShape, FocusOps
<1> QED BY <1>1, <1>10, <1>11, RebuiltKeeps

(* set_layout of a split tree.                                             *)
LEMMA SetSplitTreeFacts ==
  ASSUME NEW w, Core(w), NEW slots, NEW k, TreeSlots(slots, k)
  PROVE  Rearranged(SetSplitTree(w, slots), w, "split")
<1> DEFINE q == TransitionStacks(w)
           v == RebuildSplit(w, slots, q)
<1>1. Division(q, w)
  BY TransitionFacts
<1>2. Rebuilt(v, w, q, "split")
  BY <1>1, RebuildSplitFacts
<1>3. SetSplitTree(w, slots) = Arranged(v, q)
  BY Zenon DEF SetSplitTree, AsTree
<1> HIDE DEF v
<1>4. Rearranged(Arranged(v, q), w, "split")
  BY <1>2, RebuiltArranged
<1> QED BY <1>3, <1>4

(***************************************************************************)
(* A leaf of a tree is split or closed.                                    *)
(***************************************************************************)

(* The two parts of a sequence without repetition.                         *)
LEMMA SplitSequence ==
  ASSUME NEW S, NEW q \in Seq(S), IsInjective(q), NEW i \in 1 .. Len(q) + 1
  PROVE  LET a == SubSeq(q, 1, i - 1) b == SubSeq(q, i, Len(q)) IN
         /\ a \in Seq(S) /\ b \in Seq(S) /\ IsInjective(a) /\ IsInjective(b)
         /\ Range(a) \cap Range(b) = {} /\ Range(a) \cup Range(b) = Range(q)
<1> DEFINE a == SubSeq(q, 1, i - 1)
           b == SubSeq(q, i, Len(q))
           n == Len(q)
<1>1. n \in Nat /\ DOMAIN q = 1 .. n /\ i \in Nat /\ 1 <= i /\ i <= n + 1
  OBVIOUS
<1>2. a \in Seq(S) /\ Len(a) = i - 1 /\ \A j \in 1 .. i - 1 : a[j] = q[j]
  <2>1. \A j \in 1 .. i - 1 : q[j] \in S
    BY <1>1
  <2>2. /\ a \in Seq(S)
        /\ Len(a) = IF 1 <= i - 1 THEN (i - 1) - 1 + 1 ELSE 0
        /\ \A j \in 1 .. (i - 1) - 1 + 1 : a[j] = q[1 + j - 1]
    <3> HIDE DEF n
    <3> QED BY <1>1, <2>1, SubSeqProperties
  <2> HIDE DEF a
  <2>3. Len(a) = i - 1
    BY <1>1, <2>2
  <2>4. \A j \in 1 .. i - 1 : a[j] = q[j]
    <3> SUFFICES ASSUME NEW j \in 1 .. i - 1 PROVE a[j] = q[j]
      OBVIOUS
    <3>1. j \in 1 .. (i - 1) - 1 + 1 /\ 1 + j - 1 = j
      BY <1>1
    <3> QED BY <2>2, <3>1
  <2> QED BY <2>2, <2>3, <2>4
<1>3. b \in Seq(S) /\ \A j \in 1 .. Len(b) : b[j] = q[i + j - 1] /\ i + j - 1 \in 1 .. n /\ i + j - 1 >= i
  <2>1. \A j \in i .. n : q[j] \in S
    BY <1>1
  <2>2. /\ b \in Seq(S)
        /\ Len(b) = IF i <= n THEN n - i + 1 ELSE 0
        /\ \A j \in 1 .. n - i + 1 : b[j] = q[i + j - 1]
    <3> HIDE DEF n
    <3> QED BY <1>1, <2>1, SubSeqProperties DEF n
  <2> HIDE DEF b
  <2>3. ASSUME NEW j \in 1 .. Len(b) PROVE b[j] = q[i + j - 1] /\ i + j - 1 \in 1 .. n /\ i + j - 1 >= i
    <3>1. j \in 1 .. n - i + 1
      <4>1. CASE i <= n
        BY <2>2, <4>1
      <4>2. CASE ~ (i <= n)
        BY <2>2, <4>2
      <4> QED BY <4>1, <4>2
    <3> HIDE DEF n
    <3> QED BY <1>1, <2>2, <3>1
  <2> QED BY <2>2, <2>3
<1>4. Range(a) \cup Range(b) = Range(q)
  <2>1. a \o b = q
    <3> DEFINE k == i - 1
    <3>1. k + 1 = i /\ 1 \in 1 .. n + 1 /\ k \in 1 - 1 .. n /\ n \in k .. n
      BY <1>1
    <3> HIDE DEF k
    <3>4. SubSeq(q, 1, k) \o SubSeq(q, k + 1, n) = SubSeq(q, 1, n)
      BY <3>1, ConcatAdjacentSubSeq
    <3>2. SubSeq(q, 1, i - 1) \o SubSeq(q, i, n) = SubSeq(q, 1, n)
      BY Zenon, <3>1, <3>4 DEF k
    <3>3. SubSeq(q, 1, n) = q
      BY SubSeqFull
    <3> QED BY <3>1, <3>2, <3>3
  <2> HIDE DEF a, b
  <2>2. Range(a \o b) = Range(a) \cup Range(b)
    BY <1>2, <1>3, RangeConcatenation
  <2> QED BY <2>1, <2>2
<1> HIDE DEF a, b, n
<1>5. IsInjective(a)
  BY <1>1, <1>2 DEF IsInjective
<1>6. IsInjective(b)
  <2> SUFFICES ASSUME NEW j \in DOMAIN b, NEW k \in DOMAIN b, b[j] = b[k] PROVE j = k
    BY DEF IsInjective
  <2>1. j \in 1 .. Len(b) /\ k \in 1 .. Len(b) /\ j \in Nat /\ k \in Nat
    BY <1>3
  <2>2. i + j - 1 = i + k - 1
    BY <1>1, <1>3, <2>1 DEF IsInjective
  <2> QED BY <1>1, <2>1, <2>2
<1>7. Range(a) \cap Range(b) = {}
  <2> SUFFICES ASSUME NEW x \in Range(a), x \in Range(b) PROVE FALSE
    OBVIOUS
  <2>1. PICK j \in DOMAIN a : x = a[j]
    BY DEF Range
  <2>2. PICK k \in DOMAIN b : x = b[k]
    BY DEF Range
  <2>3. j \in 1 .. i - 1 /\ x = q[j] /\ j \in 1 .. n
    BY <1>1, <1>2, <2>1
  <2>4. k \in 1 .. Len(b)
    BY <1>3, <2>2
  <2>5. x = q[i + k - 1] /\ i + k - 1 \in 1 .. n /\ i + k - 1 >= i
    BY <1>3, <2>2, <2>4
  <2>6. j = i + k - 1
    BY <1>1, <2>3, <2>5 DEF IsInjective
  <2> QED BY <1>1, <2>3, <2>5, <2>6
<1> QED BY <1>2, <1>3, <1>4, <1>5, <1>6, <1>7 DEF a, b, n

(* A new element in a sequence without repetition.                         *)
Widened(r, q, e, S) ==
  r \in Seq(S) /\ IsInjective(r) /\ Range(r) = Range(q) \cup {e}

(* insert of an element into a sequence that does not have it.             *)
LEMMA InsertedFacts ==
  ASSUME NEW S, NEW q \in Seq(S), IsInjective(q), NEW i \in 1 .. Len(q) + 1, NEW e \in S, e \notin Range(q)
  PROVE  Widened(InsertAt(q, i, e), q, e, S)
<1> DEFINE a == SubSeq(q, 1, i - 1)
           b == SubSeq(q, i, Len(q))
           o == <<e>>
           c == a \o o
           r == c \o b
<1>1. InsertAt(q, i, e) = r
  BY DEF InsertAt
<1>2. /\ a \in Seq(S) /\ b \in Seq(S) /\ IsInjective(a) /\ IsInjective(b)
      /\ Range(a) \cap Range(b) = {} /\ Range(a) \cup Range(b) = Range(q)
  BY SplitSequence
<1>3. o \in Seq(S) /\ Range(o) = {e} /\ IsInjective(o)
  BY SingletonRange
<1> HIDE DEF a, b, o
<1>4. c \in Seq(S) /\ Range(c) = Range(a) \cup {e}
  BY <1>2, <1>3, RangeConcatenation
<1>5. IsInjective(c)
  BY <1>2, <1>3, ConcatInjective
<1> HIDE DEF c
<1>6. r \in Seq(S) /\ Range(r) = Range(c) \cup Range(b)
  BY <1>2, <1>4, RangeConcatenation
<1>7. IsInjective(r)
  BY <1>2, <1>4, <1>5, ConcatInjective
<1> HIDE DEF r
<1>8. Range(r) = Range(q) \cup {e}
  BY <1>2, <1>4, <1>6
<1> QED BY <1>1, <1>6, <1>7, <1>8 DEF Widened

(* The leaves of a tree, as a set.                                         *)
LEMMA LeavesView ==
  ASSUME NEW w, Shape(w)
  PROVE  /\ w.panes \in Seq(PaneRec) /\ IsInjective(w.panes)
         /\ Range(w.panes) # {}
         /\ \A e \in Range(w.panes) : e \in PaneRec /\ e.id \in PaneIds(w) /\ At(w, e.id) = e.at
         /\ \A p \in PaneIds(w) : \E e \in Range(w.panes) : e.id = p
         /\ \A d, e \in Range(w.panes) : d.id = e.id => d = e
<1>1. /\ w.panes \in Seq(PaneRec) /\ w.panes # <<>>
      /\ \A i, j \in DOMAIN w.panes : w.panes[i].id = w.panes[j].id => i = j
      /\ \A i \in DOMAIN w.panes : w.panes[i] \in PaneRec
  BY WorkspaceFields, PaneSeqFacts DEF Shape
<1>2. IsInjective(w.panes)
  BY <1>1 DEF IsInjective
<1>3. Range(w.panes) # {}
  <2>1. w.panes = <<>> <=> Range(w.panes) = {}
    BY <1>1, EmptyRange
  <2> QED BY <1>1, <2>1
<1>4. \A e \in Range(w.panes) : \E i \in DOMAIN w.panes : e = w.panes[i]
  BY DEF Range
<1>5. \A p \in PaneIds(w) : \E e \in Range(w.panes) : e.id = p
  BY DEF PaneIds, Range
<1>6. \A e \in Range(w.panes) : e \in PaneRec /\ e.id \in PaneIds(w) /\ At(w, e.id) = e.at
  BY <1>1, <1>4, View
<1> QED BY <1>1, <1>2, <1>3, <1>4, <1>5, <1>6

(* v is the tree w with other leaves.                                      *)
Branches(v, w, ps, k) == v = [w EXCEPT !.panes = ps, !.next = k]

(* Leaves with numbers of their own make a tree.                           *)
LEMMA BranchesFacts ==
  ASSUME NEW w, Shape(w), w.mode = "split", NEW ps \in Seq(PaneRec), IsInjective(ps), Range(ps) # {},
         NEW k \in Nat, \A e \in Range(ps) : e.id # 0 /\ e.id < k,
         \A d, e \in Range(ps) : d.id = e.id => d = e,
         NEW v, Branches(v, w, ps, k)
  PROVE  /\ Shape(v)
         /\ v.mode = "split" /\ v.panes = ps /\ v.overflow = <<>> /\ v.focus = w.focus
         /\ v.groups = w.groups /\ v.hidden = w.hidden /\ v.list = w.list
         /\ PaneIds(v) = {e.id : e \in Range(ps)}
         /\ \A e \in Range(ps) : At(v, e.id) = e.at
<1>1. w \in Workspace /\ ps \in PaneSeqs /\ w.overflow = <<>>
  BY DEF Shape, PaneSeqs
<1> DEFINE a == [w EXCEPT !.panes = ps]
           b == [a EXCEPT !.next = k]
<1>2. v = b
  BY DEF Branches
<1>3. /\ a \in Workspace /\ a.panes = ps /\ a.mode = w.mode /\ a.overflow = w.overflow /\ a.focus = w.focus
      /\ a.groups = w.groups /\ a.hidden = w.hidden /\ a.list = w.list
  BY <1>1 DEF Workspace
<1> HIDE DEF a
<1>4. /\ b \in Workspace /\ b.next = k /\ b.panes = a.panes /\ b.mode = a.mode /\ b.overflow = a.overflow
      /\ b.focus = a.focus /\ b.groups = a.groups /\ b.hidden = a.hidden /\ b.list = a.list
  BY <1>3 DEF Workspace
<1> HIDE DEF b
<1>5. /\ v \in Workspace /\ v.next = k
      /\ v.mode = "split" /\ v.panes = ps /\ v.overflow = <<>> /\ v.focus = w.focus
      /\ v.groups = w.groups /\ v.hidden = w.hidden /\ v.list = w.list
  BY <1>1, <1>2, <1>3, <1>4
<1>6. \A i \in DOMAIN ps : ps[i] \in Range(ps)
  BY DEF Range
<1>7. \A i, j \in DOMAIN ps : ps[i].id = ps[j].id => i = j
  <2> SUFFICES ASSUME NEW i \in DOMAIN ps, NEW j \in DOMAIN ps, ps[i].id = ps[j].id PROVE i = j
    OBVIOUS
  <2>1. ps[i] = ps[j]
    BY <1>6
  <2> QED BY <2>1 DEF IsInjective
<1>8. ps # <<>>
  BY InRange
<1>9. Shape(v)
  BY <1>5, <1>6, <1>7, <1>8 DEF Shape
<1>10. PaneIds(v) = {e.id : e \in Range(ps)}
  BY <1>5 DEF PaneIds, Range
<1>11. \A e \in Range(ps) : At(v, e.id) = e.at
  BY <1>5, <1>9, LeavesView
<1> QED BY <1>5, <1>9, <1>10, <1>11

(* A leaf is split: the new one is empty.                                  *)
Branched(v, w) ==
  /\ Loose(v) /\ v.mode = "split" /\ v.list = w.list
  /\ (HiddenListed(w) => HiddenListed(v))
  /\ \A B : OnlyActive(w, B) => OnlyActive(v, B)

(* An empty leaf is inserted after another.                                *)
LEMMA LeafAdded ==
  ASSUME NEW w, Loose(w), w.mode = "split", NEW ps, Widened(ps, w.panes, Pane(w.next, 0), PaneRec),
         NEW v, Branches(v, w, ps, w.next + 1)
  PROVE  Branched(v, w)
<1> DEFINE x == Pane(w.next, 0)
<1>1. Shape(w) /\ Sound(w) /\ Neat(w)
  BY DEF Loose, Sound
<1>2. ps \in Seq(PaneRec) /\ IsInjective(ps) /\ Range(ps) = Range(w.panes) \cup {x}
  BY DEF Widened
<1>3. /\ Range(w.panes) # {}
      /\ \A e \in Range(w.panes) : e \in PaneRec /\ e.id \in PaneIds(w) /\ At(w, e.id) = e.at
      /\ \A p \in PaneIds(w) : \E e \in Range(w.panes) : e.id = p
      /\ \A d, e \in Range(w.panes) : d.id = e.id => d = e
  BY <1>1, LeavesView
<1>4. w.next \in Nat /\ x.id = w.next /\ x.at = 0
  BY <1>1, WorkspaceFields DEF Shape, Pane
<1>5. \A e \in Range(w.panes) : e.id \in Nat /\ e.id # 0 /\ e.id < w.next
  <2>1. \A i \in DOMAIN w.panes : w.panes[i].id # 0 /\ w.panes[i].id < w.next
    BY <1>1 DEF Shape
  <2>2. \A e \in Range(w.panes) : e.id \in Nat
    BY <1>3 DEF PaneRec
  <2> QED BY <2>1, <2>2 DEF Range
<1>6. w.next # 0
  BY <1>3, <1>4, <1>5
<1> HIDE DEF x
<1>7. \A e \in Range(ps) : e.id # 0 /\ e.id < w.next + 1
  BY <1>2, <1>4, <1>5, <1>6
<1>8. \A d, e \in Range(ps) : d.id = e.id => d = e
  BY <1>2, <1>3, <1>4, <1>5
<1>9. /\ Shape(v)
      /\ v.mode = "split" /\ v.panes = ps /\ v.overflow = <<>> /\ v.focus = w.focus
      /\ v.groups = w.groups /\ v.hidden = w.hidden /\ v.list = w.list
      /\ PaneIds(v) = {e.id : e \in Range(ps)}
      /\ \A e \in Range(ps) : At(v, e.id) = e.at
  <2>1. Range(ps) # {} /\ w.next + 1 \in Nat
    BY <1>2, <1>4
  <2> QED BY <1>1, <1>2, <1>7, <1>8, <2>1, BranchesFacts
<1>10. PaneIds(v) = PaneIds(w) \cup {w.next}
  BY <1>2, <1>3, <1>4, <1>9
<1>11. w.next \notin PaneIds(w)
  BY <1>3, <1>5
<1>12. \A p : At(v, p) = At(w, p)
  <2> SUFFICES ASSUME NEW p PROVE At(v, p) = At(w, p)
    OBVIOUS
  <2>1. CASE p \in PaneIds(w)
    <3>1. PICK e \in Range(w.panes) : e.id = p
      BY <1>3, <2>1
    <3> QED BY <1>2, <1>3, <1>9, <3>1
  <2>2. CASE p = w.next
    <3>1. At(v, p) = 0
      BY <1>2, <1>4, <1>9, <2>2
    <3> QED BY <1>1, <1>11, <2>2, <3>1, View
  <2>3. CASE p \notin PaneIds(v)
    BY <1>1, <1>9, <1>10, <2>3, View
  <2> QED BY <1>10, <2>1, <2>2, <2>3
<1>13. InPanes(v) = InPanes(w)
  <2>1. InPanes(v) = {At(v, p) : p \in PaneIds(v)} \ {0} /\ InPanes(w) = {At(w, p) : p \in PaneIds(w)} \ {0}
    BY <1>1, <1>9, View
  <2>2. At(w, w.next) = 0
    BY <1>1, <1>11, View
  <2> QED BY <1>10, <1>12, <2>1, <2>2
<1>14. Sound(v)
  <2>1. v.overflow = w.overflow
    BY <1>1, <1>9 DEF Shape
  <2> QED BY <1>1, <1>9, <1>10, <1>13, <2>1 DEF Sound
<1>15. Neat(v)
  BY <1>1, <1>9 DEF Neat
<1>16. ASSUME NEW p \in PaneIds(v), NEW q \in PaneIds(v), At(v, p) = At(v, q), At(v, p) # 0 PROVE p = q
  <2>1. At(w, w.next) = 0
    BY <1>1, <1>11, View
  <2> QED BY <1>10, <1>12, <1>16, <2>1 DEF Loose
<1>17. Loose(v)
  BY <1>9, <1>12, <1>14, <1>15, <1>16 DEF Loose
<1>18. (HiddenListed(w) => HiddenListed(v)) /\ \A B : OnlyActive(w, B) => OnlyActive(v, B)
  BY <1>9, <1>12 DEF HiddenListed, OnlyActive
<1> QED BY <1>9, <1>17, <1>18 DEF Branched

(* split_pane of the focused leaf, which may promote hidden sessions.      *)
LEMMA SplitAtFocusFacts ==
  ASSUME NEW w, Loose(w), w.mode = "split"
  PROVE  Branched(SplitAtFocus(w), w)
<1> DEFINE I == {j \in 1 .. Len(w.panes) : w.panes[j].id = w.focus}
           i == SelectInSeq(w.panes, LAMBDA e : e.id = w.focus)
           x == Pane(w.next, 0)
           ps == InsertAt(w.panes, i + 1, x)
           u == [w EXCEPT !.panes = ps, !.next = w.next + 1]
<1>1. i = IF I # {} THEN CHOOSE j \in I : \A k \in I : j <= k ELSE 0
  BY Zenon DEF SelectInSeq, Min
<1>2. Shape(w)
  BY DEF Loose, Sound
<1>3. DOMAIN w.panes = 1 .. Len(w.panes) /\ Len(w.panes) \in Nat
  BY <1>2, PaneCount
<1>4. i # 0 => i \in 1 .. Len(w.panes)
  <2> HIDE DEF i
  <2> SUFFICES ASSUME I # {} PROVE i \in 1 .. Len(w.panes)
    BY <1>1
  <2>1. I \subseteq Nat /\ I \subseteq 1 .. Len(w.panes)
    BY <1>3
  <2> HIDE DEF I
  <2>2. \E j \in I : \A k \in I : j <= k
    BY <2>1, LeastOne
  <2> QED BY <1>1, <2>1, <2>2
<1>5. SplitAtFocus(w) = IF i = 0 THEN w ELSE PromoteSplit(u)
  BY Zenon DEF SplitAtFocus, Nobody
<1> HIDE DEF i, I
<1>6. CASE i = 0
  <2>1. SplitAtFocus(w) = w
    BY <1>5, <1>6
  <2> QED BY <2>1 DEF Branched
<1>7. CASE i # 0
  <2>1. SplitAtFocus(w) = PromoteSplit(u)
    BY <1>5, <1>7
  <2>2. i + 1 \in 1 .. Len(w.panes) + 1
    BY <1>3, <1>4, <1>7
  <2>3. w.panes \in Seq(PaneRec) /\ IsInjective(w.panes)
    BY <1>2, LeavesView
  <2>4. x \in PaneRec /\ x \notin Range(w.panes)
    <3>1. w.next \in Nat /\ x.id = w.next /\ x \in PaneRec
      BY <1>2, WorkspaceFields DEF Shape, Pane, PaneRec
    <3>2. \A j \in DOMAIN w.panes : w.panes[j].id < w.next
      BY <1>2 DEF Shape
    <3>3. \A j \in DOMAIN w.panes : w.panes[j] # x
      BY <3>1, <3>2
    <3> QED BY <3>1, <3>3 DEF Range
  <2> HIDE DEF x
  <2>5. Widened(ps, w.panes, x, PaneRec)
    <3> DEFINE j == i + 1
    <3> HIDE DEF j
    <3>1. Widened(InsertAt(w.panes, j, x), w.panes, x, PaneRec)
      BY <2>2, <2>3, <2>4, InsertedFacts DEF j
    <3> QED BY Zenon, <3>1 DEF j
  <2> HIDE DEF ps
  <2>6. Branches(u, w, ps, w.next + 1)
    BY DEF Branches
  <2> HIDE DEF u
  <2>7. Branched(u, w)
    BY <2>5, <2>6, LeafAdded DEF x
  <2> DEFINE v == PromoteSplit(u)
  <2>8. Loose(u) /\ u.mode = "split" /\ u.list = w.list
    BY <2>7 DEF Branched
  <2>9. /\ v.mode = u.mode /\ v.list = u.list
        /\ Loose(v)
        /\ HiddenListed(u) => HiddenListed(v)
        /\ \A B : OnlyActive(u, B) => OnlyActive(v, B)
    BY <2>8, PromoteSplitFacts
  <2> HIDE DEF v
  <2>10. Branched(v, w)
    BY <2>7, <2>8, <2>9 DEF Branched
  <2> QED BY <2>1, <2>10 DEF v
<1> QED BY <1>6, <1>7

(* A tree in which a pane may show an inactive tab of a group only if the  *)
(* session had no pane in w.                                               *)
Loosened(v, w) ==
  /\ v.mode = "split" /\ Loose(v) /\ HiddenListed(v) /\ OnlyActive(v, InPanes(w))
  /\ Range(v.list) \subseteq Range(w.list)

(* The cells of a grid as the slots of a tree.                             *)
LEMMA CellSlots ==
  ASSUME NEW w, Shape(w)
  PROVE  TreeSlots([i \in DOMAIN w.panes |-> i], Len(w.panes))
<1> DEFINE n == Len(w.panes)
           q == [i \in DOMAIN w.panes |-> i]
<1>1. n \in Nat /\ n # 0 /\ DOMAIN w.panes = 1 .. n
  BY PaneCount
<1>2. q \in [1 .. n -> Nat \ {0}] /\ \A i \in 1 .. n : q[i] = i
  BY <1>1
<1> HIDE DEF n, q
<1>3. q \in Seq(Nat \ {0}) /\ Len(q) = n /\ DOMAIN q = 1 .. n
  BY <1>1, <1>2, FunctionIsSeq
<1>4. IsInjective(q)
  BY <1>2, <1>3 DEF IsInjective
<1>5. Range(q) = 1 .. n
  BY <1>2, <1>3 DEF Range
<1>6. q # <<>>
  BY <1>1, <1>3
<1>7. TreeSlots(q, n)
  BY <1>1, <1>3, <1>4, <1>5, <1>6 DEF TreeSlots
<1> QED BY <1>7 DEF q, n

(* split_pane.                                                             *)
LEMMA SplitPaneFacts ==
  ASSUME NEW w, Good(w)
  PROVE  Loosened(SplitPane(w), w)
<1> DEFINE t == IF w.mode = "grid" THEN SetSplitTree(w, [i \in DOMAIN w.panes |-> i]) ELSE w
<1>1. SplitPane(w) = SplitAtFocus(t)
  BY Zenon DEF SplitPane
<1>2. Core(w) /\ Shape(w) /\ HiddenListed(w) /\ w.mode \in {"grid", "split"}
  BY WorkspaceFields DEF Good, Core, Sound, Shape
<1>3. /\ t.mode = "split" /\ Core(t) /\ HiddenListed(t) /\ t.list = w.list /\ OnlyActive(t, InPanes(w))
  <2>1. CASE w.mode = "grid"
    <3> DEFINE slots == [i \in DOMAIN w.panes |-> i]
    <3>1. t = SetSplitTree(w, slots)
      BY <2>1
    <3>2. TreeSlots(slots, Len(w.panes))
      BY <1>2, CellSlots
    <3> HIDE DEF t, slots
    <3>3. Rearranged(t, w, "split")
      BY <1>2, <3>1, <3>2, SetSplitTreeFacts
    <3> QED BY <3>3 DEF Rearranged, Good
  <2>2. CASE w.mode # "grid"
    <3>1. t = w /\ w.mode = "split"
      BY <1>2, <2>2
    <3>2. OnlyActive(w, InPanes(w))
      BY <1>2, CoreIsLoose
    <3> HIDE DEF t
    <3> QED BY <1>2, <3>1, <3>2
  <2> QED BY <2>1, <2>2
<1> HIDE DEF t
<1>4. Loose(t)
  BY <1>3, CoreIsLoose
<1>5. Branched(SplitAtFocus(t), t)
  BY <1>3, <1>4, SplitAtFocusFacts
<1>6. Loosened(SplitAtFocus(t), w)
  BY <1>3, <1>5 DEF Branched, Loosened
<1> QED BY <1>1, <1>6

(* A pane of a tree loses its group.                                       *)
LEMMA Ungrouped ==
  ASSUME NEW w, Good(w), w.mode = "split", NEW p \in PaneIds(w)
  PROVE  Settles(WithoutGroup(w, p), w)
<1> DEFINE v == WithoutGroup(w, p)
<1>1. Core(w) /\ Shape(w) /\ HiddenListed(w) /\ w.overflow = <<>>
  BY DEF Good, Core, Sound, Shape
<1>2. /\ Shape(v)
      /\ v.mode = w.mode /\ v.panes = w.panes /\ v.overflow = w.overflow /\ v.focus = w.focus
      /\ v.next = w.next /\ v.hidden = w.hidden /\ v.list = w.list
      /\ PaneIds(v) = PaneIds(w) /\ InPanes(v) = InPanes(w) /\ \A x : At(v, x) = At(w, x)
      /\ DOMAIN v.groups = DOMAIN w.groups \ {p}
      /\ \A x \in DOMAIN w.groups : x # p => v.groups[x] = w.groups[x]
  BY <1>1, WithoutGroupFacts
<1> HIDE DEF v
<1>3. Tabs(v, p) \subseteq Tabs(w, p) \cup {}
  <2>1. Tabs(v, p) = {At(w, p)} \ {0}
    BY <1>2 DEF Tabs
  <2>2. At(w, p) # 0 => At(w, p) \in Tabs(w, p)
    BY <1>1, CoreView
  <2> QED BY <2>1, <2>2
<1>4. v.focus \in PaneIds(w) \cup {0} /\ IsInjective(v.list) /\ 0 \notin Range(v.list)
  BY <1>1, <1>2 DEF Core, Sound
<1>5. OnePaneChanges(w, v, p, {})
  BY <1>2, <1>3, <1>4 DEF OnePaneChanges
<1>6. Core(v)
  BY <1>1, <1>5, OnePane
<1>7. HiddenListed(v) /\ FullOrNone(v)
  BY <1>1, <1>2 DEF HiddenListed, FullOrNone
<1> QED BY <1>2, <1>6, <1>7 DEF Settles, Good, v

(* A leaf of a tree is gone, with its group; another is focused.           *)
Pruned(v, w, p) ==
  /\ Core(v) /\ HiddenListed(v) /\ v.mode = "split" /\ v.list = w.list
  /\ InPanes(v) \subseteq InPanes(w)
  /\ OnlyActive(v, InPanes(w))
  /\ GroupTabs(v) \cap Tabs(w, p) = {}

(* close_pane makes such a tree.                                           *)
LEMMA LeafRemoved ==
  ASSUME NEW w, Good(w), w.mode = "split", NEW p \in PaneIds(w), Len(w.panes) # 1
  PROVE  Pruned(FocusFirst(WithoutPane(WithoutGroup(w, p), p)), w, p)
<1> DEFINE u == WithoutGroup(w, p)
           ps == RetainAll(w.panes, {e \in Range(w.panes) : e.id # p})
           y == [u EXCEPT !.panes = ps, !.next = u.next]
           f == FirstPane(y, FALSE)
           v == [y EXCEPT !.focus = f]
<1>1. Core(w) /\ Sound(w) /\ Neat(w) /\ Tidy(w) /\ Shape(w) /\ HiddenListed(w) /\ w.overflow = <<>>
  BY DEF Good, Core, Sound, Shape
<1>2. /\ Shape(u)
      /\ u.mode = w.mode /\ u.panes = w.panes /\ u.overflow = w.overflow /\ u.focus = w.focus
      /\ u.next = w.next /\ u.hidden = w.hidden /\ u.list = w.list
      /\ PaneIds(u) = PaneIds(w) /\ InPanes(u) = InPanes(w) /\ \A x : At(u, x) = At(w, x)
      /\ DOMAIN u.groups = DOMAIN w.groups \ {p}
      /\ \A x \in DOMAIN w.groups : x # p => u.groups[x] = w.groups[x]
  BY <1>1, WithoutGroupFacts
<1> HIDE DEF u
<1>3. WithoutPane(u, p) = y
  <2>1. WithoutPane(u, p) = [u EXCEPT !.panes = ps]
    BY Zenon, <1>2 DEF WithoutPane
  <2>2. [u EXCEPT !.panes = ps] = y
    BY <1>2 DEF Shape, Workspace
  <2> QED BY <2>1, <2>2
<1>4. /\ w.panes \in Seq(PaneRec) /\ IsInjective(w.panes)
      /\ \A e \in Range(w.panes) : e \in PaneRec /\ e.id \in PaneIds(w) /\ At(w, e.id) = e.at
      /\ \A q \in PaneIds(w) : \E e \in Range(w.panes) : e.id = q
      /\ \A d, e \in Range(w.panes) : d.id = e.id => d = e
  BY <1>1, LeavesView
<1>5. /\ ps \in Seq(PaneRec) /\ IsInjective(ps)
      /\ Range(ps) = {e \in Range(w.panes) : e.id # p}
  <2> DEFINE K == {e \in Range(w.panes) : e.id # p}
  <2>1. ps = RetainAll(w.panes, K)
    OBVIOUS
  <2>4. K \subseteq Range(w.panes)
    OBVIOUS
  <2> HIDE DEF ps, K
  <2>2. ps \in Seq(PaneRec) /\ Range(ps) = Range(w.panes) \cap K
    BY <1>4, <2>1, RetainAllRange
  <2>3. IsInjective(ps)
    BY <1>4, <2>1, RetainAllInjective
  <2>5. Range(ps) = K
    BY <2>2, <2>4
  <2> QED BY <2>2, <2>3, <2>5 DEF K
<1>6. Range(ps) # {}
  <2> DEFINE n == Len(w.panes)
  <2>1. DOMAIN w.panes = 1 .. n /\ n \in Nat /\ n # 0
    BY <1>1, PaneCount
  <2>5. n # 1
    OBVIOUS
  <2> HIDE DEF n
  <2>6. 1 \in 1 .. n /\ 2 \in 1 .. n
    BY <2>1, <2>5
  <2>2. 1 \in DOMAIN w.panes /\ 2 \in DOMAIN w.panes
    BY <2>1, <2>6
  <2>3. w.panes[1].id # w.panes[2].id
    BY <1>1, <2>2 DEF Shape
  <2>4. w.panes[1] \in Range(w.panes) /\ w.panes[2] \in Range(w.panes)
    BY <2>2 DEF Range
  <2> HIDE DEF ps
  <2> QED BY <1>5, <2>3, <2>4
<1>7. \A e \in Range(ps) : e.id # 0 /\ e.id < u.next
  <2>1. \A e \in Range(w.panes) : e.id # 0 /\ e.id < w.next
    BY <1>1 DEF Shape, Range
  <2> HIDE DEF ps
  <2> QED BY <1>2, <1>5, <2>1
<1>8. Branches(y, u, ps, u.next)
  BY DEF Branches
<1> HIDE DEF ps, y
<1>9. /\ Shape(y)
      /\ y.mode = "split" /\ y.panes = ps /\ y.overflow = <<>> /\ y.focus = u.focus
      /\ y.groups = u.groups /\ y.hidden = u.hidden /\ y.list = u.list
      /\ PaneIds(y) = {e.id : e \in Range(ps)}
      /\ \A e \in Range(ps) : At(y, e.id) = e.at
  <2>1. u.next \in Nat
    BY <1>2, WorkspaceFields DEF Shape
  <2>2. \A d, e \in Range(ps) : d.id = e.id => d = e
    BY <1>4, <1>5
  <2>3. u.mode = "split"
    BY <1>2
  <2> QED BY <1>2, <1>5, <1>6, <1>7, <1>8, <2>1, <2>2, <2>3, BranchesFacts
<1>10. f \in PaneIds(y) \cup {0} /\ f \in Nat
  <2>1. f # 0 => f \in PaneIds(y)
    BY <1>9, FirstPaneFacts
  <2> HIDE DEF f
  <2> QED BY <1>9, <2>1, View
<1>11. FocusFirst(WithoutPane(u, p)) = v
  BY Zenon, <1>3 DEF FocusFirst
<1> HIDE DEF f
<1>12. /\ Shape(v) /\ v.focus = f
       /\ v.mode = y.mode /\ v.panes = y.panes /\ v.overflow = y.overflow /\ v.next = y.next
       /\ v.groups = y.groups /\ v.hidden = y.hidden /\ v.list = y.list
       /\ PaneIds(v) = PaneIds(y) /\ InPanes(v) = InPanes(y) /\ \A q : At(v, q) = At(y, q)
  BY <1>9, <1>10, SetFocus
<1> HIDE DEF v
<1>13. PaneIds(v) = PaneIds(w) \ {p}
  BY <1>4, <1>5, <1>9, <1>12
<1>14. \A q \in PaneIds(v) : At(v, q) = At(w, q)
  <2> SUFFICES ASSUME NEW q \in PaneIds(v) PROVE At(v, q) = At(w, q)
    OBVIOUS
  <2>1. PICK e \in Range(ps) : e.id = q
    BY <1>9, <1>12
  <2> QED BY <1>4, <1>5, <1>9, <1>12, <2>1
<1>15. InPanes(v) = {At(v, q) : q \in PaneIds(v)} \ {0} /\ InPanes(w) = {At(w, q) : q \in PaneIds(w)} \ {0}
  BY <1>1, <1>12, View
<1>16. InPanes(v) \subseteq InPanes(w)
  BY <1>13, <1>14, <1>15
<1>17. /\ DOMAIN v.groups = DOMAIN w.groups \ {p} /\ v.list = w.list /\ v.hidden = w.hidden
       /\ v.overflow = w.overflow /\ v.mode = "split" /\ v.mode = w.mode
       /\ \A x \in DOMAIN v.groups : v.groups[x] = w.groups[x]
  BY <1>1, <1>2, <1>9, <1>12
<1>18. Sound(v)
  BY <1>1, <1>9, <1>10, <1>12, <1>13, <1>16, <1>17 DEF Sound
<1>19. Neat(v)
  BY <1>1, <1>17 DEF Neat
<1>20. \A q \in PaneIds(v) : Tabs(v, q) = Tabs(w, q)
  BY <1>13, <1>14, <1>17 DEF Tabs
<1>21. /\ \A q, r \in PaneIds(w) : q # r => Tabs(w, q) \cap Tabs(w, r) = {}
       /\ \A q \in DOMAIN w.groups : /\ At(w, q) = w.groups[q].active
                                     /\ w.groups[q].active \in Range(w.groups[q].tabs)
  BY <1>1, TidyView
<1>22. DOMAIN v.groups \subseteq PaneIds(v)
  BY <1>18 DEF Sound
<1>23. Tidy(v)
  <2>1. \A q, r \in PaneIds(v) : q # r => Tabs(v, q) \cap Tabs(v, r) = {}
    BY <1>13, <1>20, <1>21
  <2>2. \A q \in DOMAIN v.groups : /\ At(v, q) = v.groups[q].active
                                   /\ v.groups[q].active \in Range(v.groups[q].tabs)
    BY <1>14, <1>17, <1>21, <1>22
  <2> QED BY <1>12, <2>1, <2>2, TidyView
<1>24. OnlyActive(v, InPanes(w))
  <2> SUFFICES ASSUME NEW q \in DOMAIN v.groups, NEW x \in Range(v.groups[q].tabs), x \in InPanes(w)
               PROVE  x = At(v, q)
    BY DEF OnlyActive
  <2>1. q \in PaneIds(v) /\ x \in Tabs(w, q)
    BY <1>17, <1>22 DEF Tabs
  <2>2. x = At(w, q)
    BY <1>1, <2>1, CoreView
  <2> QED BY <1>14, <2>1, <2>2
<1>25. GroupTabs(v) \cap Tabs(w, p) = {}
  <2> SUFFICES ASSUME NEW q \in DOMAIN v.groups, NEW x \in Range(v.groups[q].tabs), x \in Tabs(w, p)
               PROVE  FALSE
    BY DEF GroupTabs
  <2>1. q \in PaneIds(w) /\ q # p /\ x \in Tabs(w, q)
    BY <1>13, <1>17, <1>22 DEF Tabs
  <2> QED BY <1>21, <2>1
<1>26. HiddenListed(v)
  BY <1>1, <1>17 DEF HiddenListed
<1>27. Pruned(v, w, p)
  BY <1>16, <1>17, <1>18, <1>19, <1>23, <1>24, <1>25, <1>26 DEF Pruned, Core
<1> QED BY <1>11, <1>27 DEF u

(* Sessions are removed from a tidy grid.                                  *)
LEMMA GridEmptied ==
  ASSUME NEW w, Good(w), w.mode = "grid", NEW q \in Seq(Nat)
  PROVE  Good(RemoveAll(w, q)) /\ Range(RemoveAll(w, q).list) \subseteq Range(w.list)
<1> DEFINE T == {v \in Workspace : Good(v) /\ v.mode = "grid" /\ Range(v.list) \subseteq Range(w.list)}
<1>1. \A v : Good(v) => v \in Workspace /\ Core(v)
  BY DEF Good, Core, Sound, Shape
<1>2. w \in T
  BY <1>1
<1>3. \A v \in T : \A i \in 1 .. Len(q) : RemoveSession(v, q[i]) \in T
  <2> SUFFICES ASSUME NEW v \in T, NEW i \in 1 .. Len(q)
               PROVE  RemoveSession(v, q[i]) \in T
    OBVIOUS
  <2>1. q[i] \in Nat
    OBVIOUS
  <2>2. RemovedFrom(RemoveSession(v, q[i]), v, q[i], InPanes(v))
    BY <1>1, <2>1, RemoveSessionFacts
  <2> QED BY <1>1, <2>2 DEF RemovedFrom
<1>4. Len(q) \in Nat
  OBVIOUS
<1> HIDE DEF T
<1>5. PICK f : RemovesDown(f, w, q, T)
  BY <1>2, <1>3, <1>4, RemoveAllUnfolds
<1>6. RemoveAll(w, q) = f[Len(q)] /\ f[Len(q)] \in T
  BY <1>4, <1>5 DEF RemovesDown
<1> QED BY <1>6 DEF T

(* Sessions that are in no group are removed from a tree.                  *)
LEMMA TreeEmptied ==
  ASSUME NEW w, Loose(w), HiddenListed(w), w.mode = "split", NEW B, OnlyActive(w, B),
         NEW q \in Seq(Nat), GroupTabs(w) \cap Range(q) = {}
  PROVE  LET v == RemoveAll(w, q) IN
         /\ v.mode = "split" /\ Loose(v) /\ HiddenListed(v) /\ OnlyActive(v, B)
         /\ Range(v.list) \subseteq Range(w.list)
<1> DEFINE T == {v \in Workspace : /\ v.mode = "split" /\ Loose(v) /\ HiddenListed(v) /\ OnlyActive(v, B)
                                   /\ Range(v.list) \subseteq Range(w.list) /\ v.groups = w.groups}
<1>1. \A v : Loose(v) => v \in Workspace
  BY DEF Loose, Sound, Shape
<1>2. w \in T
  BY <1>1
<1>3. \A v \in T : \A i \in 1 .. Len(q) : RemoveSession(v, q[i]) \in T
  <2> SUFFICES ASSUME NEW v \in T, NEW i \in 1 .. Len(q)
               PROVE  RemoveSession(v, q[i]) \in T
    OBVIOUS
  <2>1. q[i] \in Nat /\ q[i] \in Range(q)
    BY DEF Range
  <2>2. q[i] \notin GroupTabs(v)
    BY <2>1 DEF GroupTabs
  <2>3. /\ RemovedFrom(RemoveSession(v, q[i]), v, q[i], B)
        /\ RemoveSession(v, q[i]).groups = v.groups
    BY <2>1, <2>2, RemoveUngrouped
  <2> QED BY <1>1, <2>3 DEF RemovedFrom
<1>4. Len(q) \in Nat
  OBVIOUS
<1> HIDE DEF T
<1>5. PICK f : RemovesDown(f, w, q, T)
  BY <1>2, <1>3, <1>4, RemoveAllUnfolds
<1>6. RemoveAll(w, q) = f[Len(q)] /\ f[Len(q)] \in T
  BY <1>4, <1>5 DEF RemovesDown
<1> QED BY <1>6 DEF T

(* v is w after a call that ends tidy, or that may have taken an inactive  *)
(* tab for a hidden session.                                               *)
Ends(v, w) == Loosened(v, w) \/ (Good(v) /\ Range(v.list) \subseteq Range(w.list))

(* close_session.                                                          *)
LEMMA CloseSessionFacts ==
  ASSUME NEW w, Good(w), NEW s \in Nat
  PROVE  Ends(RemoveSession(w, s), w)
<1>1. RemovedFrom(RemoveSession(w, s), w, s, InPanes(w))
  BY RemoveSessionFacts DEF Good
<1>2. w.mode \in {"grid", "split"}
  BY CoreView DEF Good
<1> QED BY <1>1, <1>2 DEF RemovedFrom, Ends, Loosened

(* close_pane, and close_session of all that the pane held.                *)
LEMMA CloseFocusedPaneFacts ==
  ASSUME NEW w, Good(w), w.mode = "split", w.focus # 0
  PROVE  Ends(CloseFocusedPane(w), w)
<1> DEFINE p == w.focus
           y == FocusFirst(WithoutPane(WithoutGroup(w, p), p))
           q == TabsOf(w, p)
<1>1. Core(w) /\ p \in PaneIds(w)
  BY DEF Good, Core, Sound
<1>2. q \in Seq(Nat) /\ Range(q) = Tabs(w, p)
  BY <1>1, TabsOfFacts
<1>3. CASE Len(w.panes) = 1
  <2>1. CloseFocusedPane(w) = WithoutGroup(w, p)
    BY Zenon, <1>3 DEF CloseFocusedPane
  <2>2. Settles(WithoutGroup(w, p), w)
    BY <1>1, Ungrouped
  <2> QED BY Zenon, <2>1, <2>2 DEF Settles, Ends
<1>4. CASE Len(w.panes) # 1
  <2>1. CloseFocusedPane(w) = RemoveAll(AsSingle(y), q)
    BY Zenon, <1>4 DEF CloseFocusedPane
  <2>2. Pruned(y, w, p)
    BY <1>1, <1>4, LeafRemoved
  <2> HIDE DEF y, q, p
  <2>3. CASE Len(y.panes) = 1
    <3>1. AsSingle(y) = SetLayout(y, 1)
      BY Zenon, <2>3 DEF AsSingle
    <3>2. Rearranged(SetLayout(y, 1), y, "grid")
      BY <2>2, SetLayoutFacts DEF Pruned
    <3>3. /\ Good(SetLayout(y, 1)) /\ SetLayout(y, 1).mode = "grid"
          /\ SetLayout(y, 1).list = w.list
      BY <2>2, <3>2 DEF Rearranged, Pruned
    <3> QED BY <1>2, <2>1, <3>1, <3>3, GridEmptied DEF Ends
  <2>4. CASE Len(y.panes) # 1
    <3>1. AsSingle(y) = y
      BY Zenon, <2>4 DEF AsSingle
    <3>2. Loose(y)
      BY <2>2, CoreIsLoose DEF Pruned
    <3>3. /\ HiddenListed(y) /\ y.mode = "split" /\ OnlyActive(y, InPanes(w)) /\ y.list = w.list
          /\ GroupTabs(y) \cap Range(q) = {}
      BY <1>2, <2>2 DEF Pruned
    <3>4. Loosened(RemoveAll(y, q), w)
      BY <1>2, <3>2, <3>3, TreeEmptied DEF Loosened
    <3> QED BY <2>1, <3>1, <3>4 DEF Ends
  <2> QED BY <2>3, <2>4
<1> QED BY <1>3, <1>4

(* The step from w to v takes an inactive tab for a hidden session.        *)
Promotes(v, w) ==
  /\ v.mode = "split"
  /\ \E p \in DOMAIN v.groups : \E s \in Range(v.groups[p].tabs) :
       s # At(v, p) /\ s \in InPanes(v) \ InPanes(w)

(* What such a call leaves is sound, and tidy unless a tab was promoted.   *)
LEMMA EndsTidy ==
  ASSUME NEW w, NEW v, Ends(v, w)
  PROVE  /\ Sound(v) /\ HiddenListed(v) /\ Range(v.list) \subseteq Range(w.list)
         /\ Tidy(v) => Good(v)
         /\ Tidy(v) \/ Promotes(v, w)
<1>1. CASE Good(v) /\ Range(v.list) \subseteq Range(w.list)
  BY <1>1 DEF Good, Core
<1>2. CASE Loosened(v, w)
  <2>1. /\ v.mode = "split" /\ Loose(v) /\ HiddenListed(v) /\ OnlyActive(v, InPanes(w))
        /\ Range(v.list) \subseteq Range(w.list)
    BY <1>2 DEF Loosened
  <2>2. Sound(v) /\ Neat(v) /\ FullOrNone(v)
    BY <2>1 DEF Loose, FullOrNone
  <2>3. Tidy(v) => Good(v)
    BY <2>1, <2>2 DEF Good, Core
  <2>4. CASE OnlyActive(v, InPanes(v))
    <3>1. Tidy(v)
      BY <2>1, <2>4, CoreIsLoose DEF Core
    <3> QED BY <2>1, <2>2, <2>3, <3>1
  <2>5. CASE ~ OnlyActive(v, InPanes(v))
    <3>4. PICK p \in DOMAIN v.groups :
            \E x \in Range(v.groups[p].tabs) : x \in InPanes(v) /\ x # At(v, p)
      BY <2>5 DEF OnlyActive
    <3>1. PICK s \in Range(v.groups[p].tabs) : s \in InPanes(v) /\ s # At(v, p)
      BY <3>4
    <3>2. s \notin InPanes(w)
      BY <2>1, <3>1 DEF OnlyActive
    <3>3. Promotes(v, w)
      BY <2>1, <3>1, <3>2 DEF Promotes
    <3> QED BY <2>1, <2>2, <2>3, <3>3
  <2> QED BY <2>4, <2>5
<1> QED BY <1>1, <1>2 DEF Ends

(***************************************************************************)
(* The inductive invariant, and the theorems.                              *)
(***************************************************************************)

(* v is w after a call: it is tidy and more, or it has become untidy in    *)
(* one of the two known ways; the sessions are those of w, and of S.       *)
Outcome(v, w, S) ==
  /\ Sound(v) /\ HiddenListed(v)
  /\ Tidy(v) => Good(v)
  /\ Range(v.list) \subseteq Range(w.list) \cup S
  /\ Tidy(v) \/ Promotes(v, w) \/ SwappedPast(v, w)

(* A call that ends tidy.                                                  *)
LEMMA GoodOutcome ==
  ASSUME NEW v, Good(v), NEW w, NEW S, Range(v.list) \subseteq Range(w.list) \cup S
  PROVE  Outcome(v, w, S)
BY DEF Outcome, Good, Core

(* A selection.                                                            *)
LEMMA SettledOutcome ==
  ASSUME NEW v, NEW w, Good(w), Settles(v, w) \/ SwappedPast(v, w)
  PROVE  Outcome(v, w, {})
<1>1. CASE Settles(v, w)
  BY <1>1, GoodOutcome DEF Settles
<1>2. CASE SwappedPast(v, w)
  <2>1. /\ Grouped(w, 1) /\ Grouped(v, 1)
        /\ At(v, 1) # At(w, 1) /\ v.groups[1].active = w.groups[1].active
        /\ Sound(v) /\ HiddenListed(v) /\ v.list = w.list
    BY <1>2 DEF SwappedPast
  <2>2. 1 \in DOMAIN v.groups /\ 1 \in DOMAIN w.groups
    BY <2>1 DEF Grouped
  <2>3. At(w, 1) = w.groups[1].active
    BY <2>2 DEF Good, Core, Tidy
  <2>4. ~ Tidy(v)
    BY <2>1, <2>2, <2>3 DEF Tidy
  <2> QED BY <1>2, <2>1, <2>4 DEF Outcome
<1> QED BY <1>1, <1>2

(* A call that removes sessions or splits a pane.                          *)
LEMMA EndsOutcome ==
  ASSUME NEW v, NEW w, Ends(v, w)
  PROVE  Outcome(v, w, {})
BY EndsTidy DEF Outcome

(* A call that adds a session.                                             *)
LEMMA AddsOutcome ==
  ASSUME NEW v, NEW w, NEW s, Adds(v, w, s)
  PROVE  Outcome(v, w, {s})
BY GoodOutcome DEF Adds

(* A change of the layout.                                                 *)
LEMMA RearrangedOutcome ==
  ASSUME NEW v, NEW w, NEW m, Rearranged(v, w, m)
  PROVE  Outcome(v, w, {})
BY GoodOutcome DEF Rearranged

(* The inductive invariant: every workspace is sound, a tidy one is good   *)
(* as well, and the sessions that may still be added are not listed.       *)
LayoutInvariant ==
  /\ Sound(ws) /\ HiddenListed(ws)
  /\ Tidy(ws) => Good(ws)
  /\ Range(ws.list) \subseteq Ids \ fresh /\ fresh \subseteq Ids

(* The workspace at the start: a grid of n empty cells.                    *)
Blank(w, n) ==
  w = [mode |-> "grid", panes |-> [i \in 1 .. n |-> Pane(i, Nobody)], overflow |-> <<>>,
       focus |-> NoPane, next |-> 1, groups |-> <<>>, hidden |-> <<>>, list |-> <<>>]

(* It is tidy.                                                             *)
LEMMA EmptyGrid ==
  ASSUME NEW n \in Nat \ {0}, NEW w, Blank(w, n)
  PROVE  Good(w) /\ Range(w.list) = {}
<1> DEFINE ps == [i \in 1 .. n |-> Pane(i, Nobody)]
<1>1. /\ w.mode = "grid" /\ w.panes = ps /\ w.overflow = <<>> /\ w.focus = 0 /\ w.next = 1
      /\ w.groups = <<>> /\ w.hidden = <<>> /\ w.list = <<>>
  BY DEF NoPane, Blank
<1>2. ps \in [1 .. n -> PaneRec] /\ \A i \in 1 .. n : ps[i].id = i /\ ps[i].at = 0
  BY DEF Pane, Nobody, PaneRec
<1>3. ps \in Seq(PaneRec) /\ Len(ps) = n /\ DOMAIN ps = 1 .. n
  BY <1>2, FunctionIsSeq
<1>4. 1 \in DOMAIN ps
  BY <1>3
<1> HIDE DEF ps
<1>5. <<>> \in Groupings /\ DOMAIN <<>> = {}
  <2>1. DOMAIN <<>> = {}
    OBVIOUS
  <2>2. <<>> \in [{} -> StackRec]
    OBVIOUS
  <2> QED BY <2>1, <2>2 DEF Groupings
<1>6. w \in Workspace
  <2>1. ps \in PaneSeqs /\ <<>> \in IdSeqs /\ <<>> \in StackSeqs
    BY <1>3 DEF PaneSeqs, IdSeqs, StackSeqs
  <2>2. "grid" \in Modes
    BY DEF Modes
  <2> QED BY <1>5, <2>1, <2>2 DEF Workspace, NoPane, Blank, ps
<1>7. Shape(w)
  <2>1. ps # <<>>
    BY <1>4
  <2>2. \A i \in DOMAIN ps : ps[i].id = i /\ ps[i].id # 0
    BY <1>2, <1>3
  <2> QED BY <1>1, <1>6, <2>1, <2>2 DEF Shape
<1>8. \A p : At(w, p) = 0
  <2>1. \A i \in DOMAIN ps : ps[i].at = 0
    BY <1>2, <1>3
  <2>2. w.panes = ps
    BY <1>1
  <2> SUFFICES ASSUME NEW p PROVE At(w, p) = 0
    OBVIOUS
  <2>3. p \in PaneIds(w) => \E i \in DOMAIN w.panes : w.panes[i].id = p /\ w.panes[i].at = At(w, p)
    BY Zenon, <1>7, View
  <2>4. p \notin PaneIds(w) => At(w, p) = 0
    BY Zenon, <1>7, View
  <2>5. p \in PaneIds(w) => At(w, p) = 0
    BY Zenon, <2>1, <2>2, <2>3
  <2> QED BY Zenon, <2>4, <2>5
<1>9. InPanes(w) = {}
  BY <1>7, <1>8, View
<1>10. DOMAIN w.groups = {} /\ DOMAIN w.hidden = {} /\ Range(w.list) = {} /\ Range(w.overflow) = {}
  BY <1>1, <1>5 DEF Range
<1>11. IsInjective(w.list)
  BY <1>1, <1>5 DEF IsInjective
<1>12. Sound(w)
  BY <1>1, <1>7, <1>9, <1>10, <1>11 DEF Sound
<1>13. Neat(w)
  BY <1>10 DEF Neat, Stacked
<1>14. Tidy(w)
  <2>1. \A p : Tabs(w, p) = {}
    BY <1>8, <1>10 DEF Tabs
  <2> QED BY <1>7, <1>10, <2>1, TidyView
<1>15. HiddenListed(w) /\ FullOrNone(w)
  BY <1>1, <1>10 DEF HiddenListed, FullOrNone
<1> QED BY <1>10, <1>12, <1>13, <1>14, <1>15 DEF Good, Core

(* The inductive invariant holds at the start.                             *)
LEMMA LayoutStarts == LayoutInit => LayoutInvariant
<1> SUFFICES ASSUME LayoutInit PROVE LayoutInvariant
  OBVIOUS
<1>1. PICK n \in Grids : Blank(ws, n)
  BY DEF LayoutInit, Blank
<1>2. n \in Nat \ {0}
  BY LayoutAssumption
<1>3. Good(ws) /\ Range(ws.list) = {}
  BY <1>1, <1>2, EmptyGrid
<1>4. fresh = Ids
  BY DEF LayoutInit
<1> QED BY <1>3, <1>4 DEF LayoutInvariant, Good, Core

(* What a step of the layout does to a tidy workspace.                     *)
Stepped ==
  /\ Good(ws)
  /\ \E S : Outcome(ws', ws, S) /\ S \subseteq fresh /\ fresh' = fresh \ S

(* A step that changes the workspace only.                                 *)
LEMMA ChangeSteps ==
  ASSUME LayoutInvariant, NEW w, Change(w), Good(ws) => Outcome(w, ws, {})
  PROVE  Stepped
<1>1. Good(ws) /\ ws' = w /\ fresh' = fresh
  BY DEF Change, LayoutInvariant
<1>2. Outcome(ws', ws, {}) /\ {} \subseteq fresh /\ fresh' = fresh \ {}
  BY <1>1
<1> QED BY <1>1, <1>2 DEF Stepped

(* A step that adds a session.                                             *)
LEMMA AddedSteps ==
  ASSUME LayoutInvariant, NEW s, NEW w, Added(s, w), Good(ws) => Adds(w, ws, s)
  PROVE  Stepped
<1>1. Good(ws) /\ ws' = w /\ fresh' = fresh \ {s} /\ s \in fresh
  BY DEF Added, LayoutInvariant
<1>2. Outcome(ws', ws, {s})
  BY <1>1, AddsOutcome
<1> QED BY <1>1, <1>2 DEF Stepped

(* Each operation keeps a tidy workspace tidy, but for the two exceptions. *)
LEMMA LayoutSteps ==
  ASSUME LayoutInvariant, LayoutNext
  PROVE  Stepped
<1>1. Range(ws.list) \subseteq Nat \ {0} /\ fresh \subseteq Nat \ {0} /\ fresh \cap Range(ws.list) = {}
  BY LayoutAssumption DEF LayoutInvariant
<1>2. ASSUME NEW s \in Ids, AddHere(s)
      PROVE  Stepped
  <2>1. Added(s, AddSession(ws, s)) /\ s \in fresh
    BY <1>2 DEF AddHere, Added
  <2>2. Good(ws) => Adds(AddSession(ws, s), ws, s)
    BY <1>1, <2>1, AddSessionFacts
  <2> QED BY <2>1, <2>2, AddedSteps
<1>3. ASSUME NEW s \in Ids, CloseOne(s)
      PROVE  Stepped
  <2>1. Change(RemoveSession(ws, s)) /\ s \in Nat
    BY <1>1, <1>3 DEF CloseOne
  <2>2. Good(ws) => Outcome(RemoveSession(ws, s), ws, {})
    BY <2>1, CloseSessionFacts, EndsOutcome
  <2> QED BY <2>1, <2>2, ChangeSteps
<1>4. ASSUME NEW s \in Ids, SelectOne(s)
      PROVE  Stepped
  <2>1. Change(Focused(ws, s).w) /\ s \in Range(ws.list)
    BY <1>4 DEF SelectOne
  <2>2. Good(ws) => Outcome(Focused(ws, s).w, ws, {})
    BY <2>1, FocusedFacts, SettledOutcome
  <2> QED BY <2>1, <2>2, ChangeSteps
<1>5. ASSUME NEW s \in Ids, NEW mode \in {"grid", "split"}, NEW p \in PaneNames, AddThere(s, mode, p)
      PROVE  Stepped
  <2>1. Added(s, AddToPane(ws, s, mode, p)) /\ s \in fresh
    BY <1>5 DEF AddThere, Added
  <2>2. Good(ws) => Adds(AddToPane(ws, s, mode, p), ws, s)
    BY <1>1, <2>1, AddToPaneFacts
  <2> QED BY <2>1, <2>2, AddedSteps
<1>6. ASSUME NEW n \in PaneNames, SelectNumber(n)
      PROVE  Stepped
  <2>1. Change(FocusNumber(ws, n))
    BY <1>6 DEF SelectNumber
  <2>2. Good(ws) => Outcome(FocusNumber(ws, n), ws, {})
    BY FocusNumberFacts, SettledOutcome
  <2> QED BY <2>1, <2>2, ChangeSteps
<1>7. ASSUME NEW n \in Grids, ChooseGrid(n)
      PROVE  Stepped
  <2>1. Change(SetLayout(ws, n)) /\ n \in Nat \ {0}
    BY <1>7, LayoutAssumption DEF ChooseGrid
  <2>2. Good(ws) => Outcome(SetLayout(ws, n), ws, {})
    BY <2>1, SetLayoutFacts, RearrangedOutcome DEF Good
  <2> QED BY <2>1, <2>2, ChangeSteps
<1>8. ASSUME ChooseTree
      PROVE  Stepped
  <2>1. Change(SetSplitTree(ws, <<2, 1>>))
    BY <1>8 DEF ChooseTree
  <2>2. TreeSlots(<<2, 1>>, 2)
    <3> DEFINE t == <<2, 1>>
    <3>1. t \in Seq(Nat \ {0}) /\ t # <<>> /\ DOMAIN t = {1, 2} /\ t[1] = 2 /\ t[2] = 1
      OBVIOUS
    <3> HIDE DEF t
    <3>2. Range(t) = {1, 2} /\ IsInjective(t)
      BY <3>1 DEF Range, IsInjective
    <3>3. TreeSlots(t, 2)
      BY <3>1, <3>2 DEF TreeSlots
    <3> QED BY <3>3 DEF t
  <2>3. Good(ws) => Outcome(SetSplitTree(ws, <<2, 1>>), ws, {})
    BY <2>2, SetSplitTreeFacts, RearrangedOutcome DEF Good
  <2> QED BY <2>1, <2>3, ChangeSteps
<1>9. ASSUME SplitFocused
      PROVE  Stepped
  <2>1. Change(SplitPane(ws))
    BY <1>9 DEF SplitFocused
  <2>2. Good(ws) => Outcome(SplitPane(ws), ws, {})
    BY SplitPaneFacts, EndsOutcome DEF Ends
  <2> QED BY <2>1, <2>2, ChangeSteps
<1>10. ASSUME ClosePane
       PROVE  Stepped
  <2>1. Change(CloseFocusedPane(ws)) /\ ws.mode = "split" /\ ws.focus # 0
    BY <1>10 DEF ClosePane, NoPane
  <2>2. Good(ws) => Outcome(CloseFocusedPane(ws), ws, {})
    BY <2>1, CloseFocusedPaneFacts, EndsOutcome
  <2> QED BY <2>1, <2>2, ChangeSteps
<1>11. ASSUME NEW p \in PaneNames, NEW s \in Ids, ClickTab(p, s)
       PROVE  Stepped
  <2>1. Change(ActivateTab(ws, p, s)) /\ p \in DOMAIN ws.groups /\ s \in Range(ws.groups[p].tabs)
    BY <1>11 DEF ClickTab, Grouped
  <2>2. Good(ws) => Outcome(ActivateTab(ws, p, s), ws, {})
    BY <2>1, ActivateTabFacts, SettledOutcome
  <2> QED BY <2>1, <2>2, ChangeSteps
<1>12. ASSUME NEW p \in PaneNames, NEW s \in Ids, DropOnHeader(s, p)
       PROVE  Stepped
  <2>1. Change(GroupInto(ws, s, p)) /\ p \in PaneIds(ws)
    BY <1>12 DEF DropOnHeader
  <2>2. Good(ws) => Outcome(GroupInto(ws, s, p), ws, {})
    BY <2>1, GroupIntoFacts, SettledOutcome
  <2> QED BY <2>1, <2>2, ChangeSteps
<1>13. ASSUME NEW i \in PaneNames, NEW j \in PaneNames, DropOnBody(i, j)
       PROVE  Stepped
  <2>1. Change(SwapPanes(ws, i, j)) /\ i \in DOMAIN ws.panes /\ j \in DOMAIN ws.panes /\ i # j
    BY <1>13 DEF DropOnBody
  <2>2. Good(ws) => Outcome(SwapPanes(ws, i, j), ws, {})
    BY <2>1, SwapPanesFacts, SettledOutcome
  <2> QED BY <2>1, <2>2, ChangeSteps
<1> QED BY <1>2, <1>3, <1>4, <1>5, <1>6, <1>7, <1>8, <1>9, <1>10, <1>11, <1>12, <1>13 DEF LayoutNext

(* Every step keeps the inductive invariant.                               *)
LEMMA LayoutKeepsInvariant == LayoutInvariant /\ [LayoutNext]_layoutVars => LayoutInvariant'
<1>1. ASSUME LayoutInvariant, LayoutNext
      PROVE  LayoutInvariant'
  <2>1. PICK S : Outcome(ws', ws, S) /\ S \subseteq fresh /\ fresh' = fresh \ S
    BY <1>1, LayoutSteps DEF Stepped
  <2>2. /\ Sound(ws') /\ HiddenListed(ws') /\ (Tidy(ws') => Good(ws'))
        /\ Range(ws'.list) \subseteq Range(ws.list) \cup S
    BY <2>1 DEF Outcome
  <2>3. Range(ws'.list) \subseteq Ids \ fresh' /\ fresh' \subseteq Ids
    BY <1>1, <2>1, <2>2 DEF LayoutInvariant
  <2> QED BY <2>2, <2>3 DEF LayoutInvariant
<1>2. ASSUME LayoutInvariant, UNCHANGED layoutVars
      PROVE  LayoutInvariant'
  <2>1. ws' = ws /\ fresh' = fresh
    BY <1>2 DEF layoutVars
  <2> QED BY <1>2, <2>1 DEF LayoutInvariant
<1> QED BY <1>1, <1>2

(* Every state the layout reaches satisfies the inductive invariant.       *)
THEOREM LayoutIsSound == LayoutSpec => []LayoutInvariant
BY LayoutStarts, LayoutKeepsInvariant, PTL DEF LayoutSpec

(* Panes with numbers of their own are as many as the numbers.             *)
LEMMA PanesCounted ==
  ASSUME NEW w, Shape(w)
  PROVE  Cardinality(PaneIds(w)) = Len(w.panes)
<1> DEFINE n == Len(w.panes)
           f == [i \in 1 .. n |-> w.panes[i].id]
<1>1. n \in Nat /\ DOMAIN w.panes = 1 .. n
  BY PaneCount
<1>2. \A i, j \in 1 .. n : w.panes[i].id = w.panes[j].id => i = j
  BY <1>1 DEF Shape
<1>3. PaneIds(w) = {w.panes[i].id : i \in 1 .. n}
  BY <1>1 DEF PaneIds
<1> HIDE DEF n
<1>4. f \in Bijection(1 .. n, PaneIds(w))
  BY <1>2, <1>3 DEF Bijection, Injection, Surjection, IsInjective
<1>5. ExistsBijection(1 .. n, PaneIds(w))
  BY <1>4 DEF ExistsBijection
<1> QED BY <1>1, <1>5, FS_CountingElements DEF n

LEMMA LayoutTyped == LayoutInvariant => LayoutTypeOK
<1> SUFFICES ASSUME LayoutInvariant PROVE LayoutTypeOK
  OBVIOUS
<1>1. Sound(ws) /\ HiddenListed(ws) /\ Range(ws.list) \subseteq Ids \ fresh
  BY DEF LayoutInvariant
<1>2. Shape(ws)
  BY <1>1 DEF Sound
<1>3. ws.mode \in {"grid", "split"}
  BY <1>2, WorkspaceFields DEF Shape
<1>4. Cardinality(PaneIds(ws)) = Len(ws.panes)
  BY <1>2, PanesCounted
<1> QED BY <1>1, <1>3, <1>4 DEF LayoutTypeOK, Sound, HiddenListed, NoPane

(* The layout's types: no two panes have the same number, and what panes,  *)
(* groups, overflow list and hidden stacks have are listed sessions.       *)
THEOREM LayoutTypeCorrect == LayoutSpec => []LayoutTypeOK
BY LayoutStarts, LayoutKeepsInvariant, LayoutTyped, PTL DEF LayoutSpec

(* No operation makes a session a tab of two panes, or shows another than  *)
(* the active tab of a group, but for the promotion of an inactive tab and *)
(* the swap past the group of a single cell.                               *)
THEOREM TabsStayApartAlways == LayoutSpec => TabsStayApart
<1>1. LayoutInvariant /\ [LayoutNext]_layoutVars
        => [Tidy(ws) /\ ~ Tidy(ws') => PromotesATab \/ SwapsPastAGroup]_layoutVars
  <2> SUFFICES ASSUME LayoutInvariant, LayoutNext, ~ Tidy(ws')
               PROVE  PromotesATab \/ SwapsPastAGroup
    BY DEF layoutVars
  <2>1. PICK S : Outcome(ws', ws, S)
    BY LayoutSteps DEF Stepped
  <2>2. Promotes(ws', ws) \/ SwappedPast(ws', ws)
    BY <2>1 DEF Outcome
  <2>3. Promotes(ws', ws) => PromotesATab
    BY DEF Promotes, PromotesATab
  <2>4. SwappedPast(ws', ws) => SwapsPastAGroup
    BY DEF SwappedPast, SwapsPastAGroup
  <2> QED BY <2>2, <2>3, <2>4
<1> QED BY <1>1, LayoutIsSound, PTL DEF LayoutSpec, TabsStayApart

(* A change of the layout of a tidy workspace keeps every stack of tabs.   *)
THEOREM StacksAreKept == LayoutSpec => []LayoutKeepsStacks
<1>1. LayoutInvariant => LayoutKeepsStacks
  <2> SUFFICES ASSUME LayoutInvariant, Tidy(ws), NEW n \in Grids
               PROVE  StackSets(SetLayout(ws, n)) = StackSets(ws)
    BY DEF LayoutKeepsStacks
  <2>1. Core(ws) /\ n \in Nat \ {0}
    BY LayoutAssumption DEF LayoutInvariant, Good
  <2> QED BY <2>1, SetLayoutFacts DEF Rearranged
<1> QED BY <1>1, LayoutIsSound, PTL
================================================================================
