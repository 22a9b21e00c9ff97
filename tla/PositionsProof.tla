---------------------------- MODULE PositionsProof ----------------------------
(***************************************************************************)
(* What is kept of a sequence by position: the k-th member of a set of     *)
(* numbers exists and grows with k, so that a filter loses and reorders    *)
(* nothing, and merging keeps every element once.  Also: induction over a  *)
(* set of numbers, and functions defined from one number to the next, by a *)
(* loop, or along moves that take a rank down.                             *)
(***************************************************************************)
EXTENDS Positions, Sequences, FiniteSetTheorems, SequenceTheorems, WellFoundedInduction, TLAPS

(* A larger member has a larger ordinal.                                   *)
LEMMA OrdinalGrows ==
  ASSUME NEW I, IsFiniteSet(I), I \subseteq Int, NEW i \in I, NEW j \in I, i < j
  PROVE  Ordinal(I, i) \in Nat /\ Ordinal(I, j) \in Nat /\ Ordinal(I, i) < Ordinal(I, j)
  <1> DEFINE A == {n \in I : n <= i}
             B == {n \in I : n <= j}
  <1>1. IsFiniteSet(A) /\ IsFiniteSet(B)
    BY FS_Subset
  <1>2. A \subseteq B /\ j \in B /\ j \notin A
    <2>1. \A n \in I : n <= i => n <= j
      <3>1. \A n \in Int : n <= i => n <= j
        OBVIOUS
      <3>2. QED
        BY <3>1
    <2>2. j <= j /\ ~(j <= i)
      OBVIOUS
    <2>3. QED
      BY <2>1, <2>2
  <1>3. Cardinality(A) \in Nat /\ Cardinality(B) \in Nat
    BY <1>1, FS_CardinalityType
  <1>4. Cardinality(A) <= Cardinality(B) /\ (Cardinality(B) = Cardinality(A) => B = A)
    <2> HIDE DEF A, B
    <2> QED BY <1>1, <1>2, FS_Subset
  <1>5. Cardinality(A) < Cardinality(B)
    <2>1. A # B
      BY <1>2
    <2> HIDE DEF A, B
    <2>2. QED
      BY <1>3, <1>4, <2>1
  <1>6. QED
    BY <1>3, <1>5 DEF Ordinal

(* Every number up to the size of the set is the ordinal of a member.      *)
LEMMA OrdinalsCount ==
  ASSUME NEW I, IsFiniteSet(I), I \subseteq Int
  PROVE  /\ Cardinality(I) \in Nat
         /\ \A i \in I : Ordinal(I, i) \in 1..Cardinality(I)
         /\ \A k \in 1..Cardinality(I) : Nth(I, k) \in I /\ Ordinal(I, Nth(I, k)) = k
  <1> DEFINE n == Cardinality(I)
             f == [i \in I |-> Ordinal(I, i)]
  <1>1. n \in Nat
    BY FS_CardinalityType
  <1>2. ASSUME NEW i \in I PROVE Ordinal(I, i) \in 1..n
    <2> DEFINE A == {m \in I : m <= i}
    <2>1. A \in SUBSET I /\ i \in A
      BY <1>2
    <2>2. IsFiniteSet(A) /\ Cardinality(A) <= n
      BY <2>1, FS_Subset
    <2>3. Cardinality(A) \in Nat /\ Cardinality(A) # 0
      <3> HIDE DEF A
      <3> QED BY <2>1, <2>2, FS_EmptySet, FS_CardinalityType
    <2>4. QED
      <3> HIDE DEF n
      <3> QED BY <1>1, <2>2, <2>3 DEF Ordinal
  <1>3. f \in [I -> 1..n]
    BY <1>2
  <1>4. \A i, j \in I : i # j => f[i] # f[j]
    <2>1. ASSUME NEW i \in I, NEW j \in I, i < j PROVE f[i] # f[j]
      <3>1. Ordinal(I, i) \in Nat /\ Ordinal(I, j) \in Nat /\ Ordinal(I, i) < Ordinal(I, j)
        BY <2>1, OrdinalGrows
      <3>2. f[i] = Ordinal(I, i) /\ f[j] = Ordinal(I, j)
        OBVIOUS
      <3> HIDE DEF f
      <3>3. QED
        BY <3>1, <3>2
    <2> HIDE DEF f
    <2>2. QED
      BY <2>1
  <1>5. f \in Injection(I, 1..n)
    <2> HIDE DEF f, n
    <2> QED BY <1>3, <1>4 DEF Injection, IsInjective
  <1>6. f \in Surjection(I, 1..n)
    <2>1. IsFiniteSet(1..n) /\ Cardinality(1..n) = n
      <3> HIDE DEF n
      <3> QED BY <1>1, FS_Interval
    <2> HIDE DEF f
    <2>2. QED
      BY <1>5, <2>1, FS_Injection
  <1>7. ASSUME NEW k \in 1..n PROVE Nth(I, k) \in I /\ Ordinal(I, Nth(I, k)) = k
    <2>1. \E i \in I : f[i] = k
      <3> HIDE DEF f
      <3> QED BY <1>6, <1>7 DEF Surjection
    <2>2. \E i \in I : Ordinal(I, i) = k
      BY <2>1
    <2>3. QED
      BY <2>2 DEF Nth
  <1>8. QED
    BY <1>1, <1>2, <1>7

(* Positions are taken in their order.                                    *)
LEMMA NthGrows ==
  ASSUME NEW I, IsFiniteSet(I), I \subseteq Int,
         NEW k \in 1..Cardinality(I), NEW l \in 1..Cardinality(I), k < l
  PROVE  Nth(I, k) < Nth(I, l)
  <1> DEFINE i == Nth(I, k)
             j == Nth(I, l)
  <1>1. i \in I /\ j \in I /\ Ordinal(I, i) = k /\ Ordinal(I, j) = l /\ Cardinality(I) \in Nat
    BY OrdinalsCount
  <1> HIDE DEF i, j
  <1>2. i \in Int /\ j \in Int /\ k \in Int /\ l \in Int
    BY <1>1
  <1>3. CASE j < i
    <2>1. Ordinal(I, j) < Ordinal(I, i)
      BY <1>1, <1>3, OrdinalGrows
    <2>2. QED
      BY <1>1, <1>2, <2>1
  <1>4. QED
    BY <1>1, <1>2, <1>3 DEF i, j

(* What is kept of a sequence: what stood at those positions, and all of   *)
(* it.                                                                     *)
Held(s, I) == {s[i] : i \in I}

LEMMA PositionsKept ==
  ASSUME NEW T, NEW s \in Seq(T), NEW I, I \subseteq DOMAIN s
  PROVE  /\ AtPositions(s, I) \in Seq(Held(s, I))
         /\ Len(AtPositions(s, I)) = Cardinality(I)
         /\ \A i \in I : \E k \in 1..Len(AtPositions(s, I)) : AtPositions(s, I)[k] = s[i]
         /\ \A k, l \in 1..Len(AtPositions(s, I)) :
              k < l => \E i, j \in I : /\ i < j
                                      /\ AtPositions(s, I)[k] = s[i] /\ AtPositions(s, I)[l] = s[j]
  <1> DEFINE n == Cardinality(I)
             kept == AtPositions(s, I)
             V == Held(s, I)
  <1>1. DOMAIN s = 1..Len(s) /\ Len(s) \in Nat
    BY LenProperties
  <1>2. IsFiniteSet(I) /\ I \subseteq Int
    <2>1. I \in SUBSET (1..Len(s))
      BY <1>1
    <2>2. IsFiniteSet(1..Len(s))
      BY <1>1, FS_Interval
    <2>3. QED
      BY <1>1, <2>1, <2>2, FS_Subset
  <1>3. /\ n \in Nat
        /\ \A i \in I : Ordinal(I, i) \in 1..n
        /\ \A k \in 1..n : Nth(I, k) \in I /\ Ordinal(I, Nth(I, k)) = k
    BY <1>2, OrdinalsCount
  <1>4. kept = [k \in 1..n |-> s[Nth(I, k)]]
    <2> DEFINE row == [k \in 1..n |-> s[Nth(I, k)]]
    <2>1. row \in [1..n -> V]
      <3>1. \A k \in 1..n : s[Nth(I, k)] \in V
        BY <1>3 DEF Held
      <3> HIDE DEF V, n
      <3>2. QED
        BY <3>1
    <2>2. row \in Seq(V)
      <3> HIDE DEF V, n, row
      <3> QED BY <1>3, <2>1, SeqDef
    <2>3. kept = <<>> \o row
      BY DEF AtPositions
    <2> HIDE DEF row, V
    <2>4. kept = row
      BY <2>2, <2>3, ConcatEmptySeq
    <2>5. QED
      BY <2>4 DEF row
  <1>5. kept \in [1..n -> V]
    <2> HIDE DEF kept, n
    <2>1. \A k \in 1..n : s[Nth(I, k)] \in V
      BY <1>3 DEF Held
    <2> HIDE DEF V
    <2>2. QED
      BY <1>4, <2>1
  <1>6. kept \in Seq(V) /\ Len(kept) = n
    <2> HIDE DEF kept, n, V
    <2>1. kept \in Seq(V)
      BY <1>3, <1>5, SeqDef
    <2>2. QED
      BY <1>3, <1>5, <2>1, LenProperties
  <1>7. ASSUME NEW i \in I PROVE \E k \in 1..n : kept[k] = s[i]
    <2> DEFINE k == Ordinal(I, i)
    <2>1. k \in 1..n
      BY <1>3
    <2>2. Nth(I, k) \in I /\ Ordinal(I, Nth(I, k)) = Ordinal(I, i)
      BY <1>3, <2>1
    <2>3. Nth(I, k) = i
      <3>1. \A j \in I : j # i => Ordinal(I, j) # Ordinal(I, i)
        <4>1. ASSUME NEW j \in I, j # i PROVE Ordinal(I, j) # Ordinal(I, i)
          <5>1. i \in Int /\ j \in Int
            BY <1>2
          <5>2. CASE i < j
            BY <1>2, <5>2, OrdinalGrows
          <5>3. CASE j < i
            BY <1>2, <5>3, OrdinalGrows
          <5>4. QED
            BY <4>1, <5>1, <5>2, <5>3
        <4>2. QED
          BY <4>1
      <3>2. QED
        BY <2>2, <3>1
    <2>4. kept[k] = s[i]
      <3> HIDE DEF kept, n, k
      <3> QED BY <1>4, <2>1, <2>3
    <2>5. QED
      BY <2>1, <2>4
  <1>8. ASSUME NEW k \in 1..n, NEW l \in 1..n, k < l
        PROVE  \E i, j \in I : i < j /\ kept[k] = s[i] /\ kept[l] = s[j]
    <2>1. Nth(I, k) \in I /\ Nth(I, l) \in I /\ Nth(I, k) < Nth(I, l)
      BY <1>2, <1>3, <1>8, NthGrows
    <2> HIDE DEF kept, n
    <2>2. kept[k] = s[Nth(I, k)] /\ kept[l] = s[Nth(I, l)]
      BY <1>4, <1>8
    <2>3. QED
      BY <2>1, <2>2
  <1>9. QED
    <2> HIDE DEF kept, n, V
    <2> SUFFICES /\ kept \in Seq(V) /\ Len(kept) = n
                 /\ \A i \in I : \E k \in 1..Len(kept) : kept[k] = s[i]
                 /\ \A k, l \in 1..Len(kept) :
                      k < l => \E i, j \in I : i < j /\ kept[k] = s[i] /\ kept[l] = s[j]
      BY DEF kept, n, V
    <2> QED BY <1>6, <1>7, <1>8

-----------------------------------------------------------------------------
(* A set of natural numbers has a least one.                               *)
LEMMA LeastNumber ==
  ASSUME NEW S, S \subseteq Nat, S # {}
  PROVE  \E x \in S : \A y \in S : x <= y
  <1>1. PICK x \in S : \A y \in S : <<y, x>> \notin OpToRel(<, Nat)
    BY NatLessThanWellFounded, WFMin
  <1>2. ASSUME NEW y \in S
        PROVE  x <= y
    <2>1. <<y, x>> \in Nat \X Nat /\ <<y, x>>[1] = y /\ <<y, x>>[2] = x
      OBVIOUS
    <2>2. ~(y < x)
      BY <1>1, <2>1 DEF OpToRel
    <2>3. QED
      BY <2>2
  <1>3. QED
    BY <1>2

(* A set that has 0 and with every number the next has all.                *)
LEMMA Induction ==
  ASSUME NEW P, 0 \in P, \A n \in Nat : n \in P => n + 1 \in P
  PROVE  \A n \in Nat : n \in P
  <1> DEFINE B == {n \in Nat : n \notin P}
  <1>1. ASSUME B # {} PROVE FALSE
    <2>1. PICK x \in B : \A y \in B : x <= y
      BY <1>1, LeastNumber
    <2>2. x \in Nat \ {0} /\ x \notin P
      BY <2>1
    <2>3. x - 1 \in Nat /\ x - 1 \notin B
      BY <2>1, <2>2
    <2>4. QED
      BY <2>2, <2>3
  <1>2. QED
    BY <1>1

(* What starts with a and goes on by the steps F, within S.                *)
StepsIn(S) == [Nat -> [S -> S]]
Courses(S, a, F) == {f \in [Nat -> S] : f[0] = a /\ \A n \in Nat : f[n + 1] = F[n][f[n]]}

(* From a first value and a next one, a function on the natural numbers.   *)
LEMMA Recursion ==
  ASSUME NEW S, NEW a \in S, NEW F \in StepsIn(S)
  PROVE  \E f : f \in Courses(S, a, F)
  <1>0. F \in [Nat -> [S -> S]]
    BY DEF StepsIn
  <1> DEFINE A(n) == {g \in [0..n -> S] : g[0] = a /\ \A m \in 0..(n - 1) : g[m + 1] = F[m][g[m]]}
             P == {n \in Nat : \E g \in A(n) : TRUE}
  <1>1. 0 \in P
    <2>1. [m \in 0..0 |-> a] \in A(0)
      OBVIOUS
    <2>2. QED
      BY <2>1
  <1>2. ASSUME NEW n \in Nat, n \in P PROVE n + 1 \in P
    <2>1. PICK g \in A(n) : TRUE
      BY <1>2
    <2>2. g \in [0..n -> S] /\ g[0] = a /\ \A m \in 0..(n - 1) : g[m + 1] = F[m][g[m]]
      BY <2>1
    <2> DEFINE h == [m \in 0..(n + 1) |-> IF m = n + 1 THEN F[n][g[n]] ELSE g[m]]
    <2>3. g[n] \in S /\ F[n][g[n]] \in S
      <3>1. n \in 0..n
        BY <1>2
      <3>2. QED
        BY <1>0, <1>2, <2>2, <3>1
    <2>4. h \in [0..(n + 1) -> S]
      <3>1. ASSUME NEW m \in 0..(n + 1) PROVE (IF m = n + 1 THEN F[n][g[n]] ELSE g[m]) \in S
        <4>1. m # n + 1 => m \in 0..n
          BY <1>2
        <4>2. QED
          BY <2>2, <2>3, <4>1
      <3>2. QED
        BY <3>1
    <2>5. h[0] = a
      BY <1>2, <2>2
    <2>6. ASSUME NEW m \in 0..(n + 1 - 1) PROVE h[m + 1] = F[m][h[m]]
      <3>0. m \in Nat /\ m + 1 \in 0..(n + 1) /\ m \in 0..(n + 1)
        BY <1>2
      <3>1. CASE m = n
        BY <1>2, <3>0, <3>1
      <3>2. CASE m # n
        <4>1. m \in 0..(n - 1) /\ m + 1 \in 0..n /\ m \in 0..n /\ m # n + 1 /\ m + 1 # n + 1
          BY <1>2, <3>2
        <4>2. h[m + 1] = g[m + 1] /\ h[m] = g[m]
          BY <3>0, <4>1
        <4>3. QED
          BY <2>2, <4>1, <4>2
      <3>3. QED
        BY <3>1, <3>2
    <2>7. h \in A(n + 1)
      <3> HIDE DEF h
      <3> QED BY <1>2, <2>4, <2>5, <2>6
    <2>8. QED
      BY <2>7
  <1>3. \A n \in Nat : \E g \in A(n) : TRUE
    <2>1. \A n \in Nat : n \in P
      <3> HIDE DEF P
      <3> QED BY <1>1, <1>2, Induction
    <2>2. QED
      BY <2>1
  <1>4. ASSUME NEW k \in Nat, NEW l \in Nat, NEW g \in A(k), NEW h \in A(l)
        PROVE  \A n \in Nat : n <= k /\ n <= l => g[n] = h[n]
    <2> DEFINE Q == {n \in Nat : n <= k /\ n <= l => g[n] = h[n]}
    <2>1. 0 \in Q
      OBVIOUS
    <2>2. ASSUME NEW n \in Nat, n \in Q PROVE n + 1 \in Q
      <3>1. n + 1 <= k /\ n + 1 <= l => n \in 0..(k - 1) /\ n \in 0..(l - 1) /\ n <= k /\ n <= l
        BY <1>4, <2>2
      <3>2. n + 1 <= k /\ n + 1 <= l => g[n + 1] = F[n][g[n]] /\ h[n + 1] = F[n][h[n]]
        BY <3>1
      <3>3. QED
        BY <2>2, <3>1, <3>2
    <2>3. \A n \in Nat : n \in Q
      <3> HIDE DEF Q
      <3> QED BY <2>1, <2>2, Induction
    <2>4. QED
      BY <2>3
  <1> DEFINE G(n) == CHOOSE g \in A(n) : TRUE
             f == [n \in Nat |-> G(n)[n]]
  <1>5. \A n \in Nat : G(n) \in A(n)
    BY <1>3
  <1> HIDE DEF G
  <1>6. f \in [Nat -> S]
    <2>1. ASSUME NEW n \in Nat PROVE G(n)[n] \in S
      <3>1. G(n) \in [0..n -> S] /\ n \in 0..n
        BY <1>5, <2>1
      <3>2. QED
        BY <3>1
    <2>2. QED
      BY <2>1
  <1>7. f[0] = a
    BY <1>5
  <1>8. ASSUME NEW n \in Nat PROVE f[n + 1] = F[n][f[n]]
    <2>1. n + 1 \in Nat /\ n <= n /\ n <= n + 1 /\ n \in 0..(n + 1 - 1)
      BY <1>8
    <2>2. G(n + 1)[n + 1] = F[n][G(n + 1)[n]]
      BY <1>5, <2>1
    <2>3. G(n + 1)[n] = G(n)[n]
      <3> HIDE DEF A
      <3> QED BY <1>4, <1>5, <2>1
    <2>4. QED
      BY <2>1, <2>2, <2>3
  <1>9. QED
    <2> HIDE DEF f
    <2> QED BY <1>6, <1>7, <1>8 DEF Courses

-----------------------------------------------------------------------------
(* A sequence that holds nothing twice, and what it holds.                 *)
Once(s) == \A i, j \in DOMAIN s : i < j => s[i] # s[j]
Elements(s) == {s[i] : i \in DOMAIN s}

LEMMA OnceCounts ==
  ASSUME NEW T, NEW s \in Seq(T), Once(s)
  PROVE  IsFiniteSet(Elements(s)) /\ Cardinality(Elements(s)) = Len(s)
  <1>1. DOMAIN s = 1..Len(s) /\ Len(s) \in Nat
    BY LenProperties
  <1> DEFINE f == [i \in 1..Len(s) |-> s[i]]
  <1>2. f \in Bijection(1..Len(s), Elements(s))
    <2>1. f \in [1..Len(s) -> Elements(s)]
      BY <1>1 DEF Elements
    <2>2. ASSUME NEW i \in 1..Len(s), NEW j \in 1..Len(s), f[i] = f[j] PROVE i = j
      <3>1. i \in Int /\ j \in Int /\ ~(i < j) /\ ~(j < i)
        BY <1>1, <2>2 DEF Once
      <3>2. QED
        BY <3>1
    <2>3. \A e \in Elements(s) : \E i \in 1..Len(s) : f[i] = e
      BY <1>1 DEF Elements
    <2> HIDE DEF f
    <2>4. QED
      BY <2>1, <2>2, <2>3 DEF Bijection, Injection, Surjection, IsInjective
  <1>3. ExistsBijection(1..Len(s), Elements(s))
    BY <1>2 DEF ExistsBijection
  <1>4. IsFiniteSet(1..Len(s)) /\ Cardinality(1..Len(s)) = Len(s)
    BY <1>1, FS_Interval, SMTT(40)
  <1>5. QED
    BY <1>3, <1>4, FS_Bijection

(* What a sequence holds it holds somewhere first.                         *)
LEMMA FirstsCover ==
  ASSUME NEW T, NEW s \in Seq(T), NEW j \in DOMAIN s
  PROVE  \E i \in FirstPositions(s) : s[i] = s[j]
  <1>1. DOMAIN s = 1..Len(s) /\ Len(s) \in Nat
    BY LenProperties
  <1> DEFINE S == {i \in DOMAIN s : s[i] = s[j]}
  <1>2. S \subseteq Nat /\ S # {}
    BY <1>1
  <1>3. PICK i \in S : \A k \in S : i <= k
    <2> HIDE DEF S
    <2> QED BY <1>2, LeastNumber
  <1>4. ASSUME NEW k \in 1..(i - 1) PROVE s[k] # s[i]
    <2>1. k \in DOMAIN s /\ ~(i <= k)
      BY <1>1, <1>3, <1>4
    <2>2. QED
      BY <1>3, <2>1
  <1>5. QED
    BY <1>3, <1>4 DEF FirstPositions

(* A filter loses nothing it should keep, and keeps what is single single. *)
LEMMA KeptOnce ==
  ASSUME NEW T, NEW s \in Seq(T), NEW I, I \subseteq DOMAIN s, \A i, j \in I : i < j => s[i] # s[j]
  PROVE  Once(AtPositions(s, I))
  <1> DEFINE kept == AtPositions(s, I)
  <1>1. /\ kept \in Seq(Held(s, I))
        /\ \A k, l \in 1..Len(kept) : k < l => \E i, j \in I : i < j /\ kept[k] = s[i] /\ kept[l] = s[j]
    BY PositionsKept
  <1> HIDE DEF kept
  <1>2. DOMAIN kept = 1..Len(kept)
    BY <1>1, LenProperties
  <1>3. Once(kept)
    BY <1>1, <1>2 DEF Once
  <1>4. QED
    BY <1>3 DEF kept

LEMMA KeptElements ==
  ASSUME NEW T, NEW s \in Seq(T), NEW I, I \subseteq DOMAIN s
  PROVE  AtPositions(s, I) \in Seq(T) /\ Elements(AtPositions(s, I)) = {s[i] : i \in I}
  <1> DEFINE kept == AtPositions(s, I)
  <1>1. /\ kept \in Seq(Held(s, I))
        /\ \A i \in I : \E k \in 1..Len(kept) : kept[k] = s[i]
    BY PositionsKept
  <1>2. Held(s, I) \subseteq T
    BY LenProperties, ElementOfSeq DEF Held
  <1> HIDE DEF kept
  <1>3. DOMAIN kept = 1..Len(kept) /\ \A k \in 1..Len(kept) : kept[k] \in Held(s, I)
    BY <1>1, LenProperties, ElementOfSeq
  <1>4. Elements(kept) = {s[i] : i \in I}
    BY <1>1, <1>3 DEF Elements, Held
  <1>5. kept \in Seq(T)
    BY <1>1, <1>2, SeqMonotonic
  <1>6. QED
    BY <1>4, <1>5 DEF kept

(* Merging adds behind what is there what is new, once.                    *)
LEMMA MergeOnce ==
  ASSUME NEW T, NEW s \in Seq(T), NEW more \in Seq(T), Once(s)
  PROVE  /\ Merge(s, more) \in Seq(T) /\ Once(Merge(s, more))
         /\ Elements(Merge(s, more)) = Elements(s) \cup Elements(more)
         /\ Len(s) <= Len(Merge(s, more))
         /\ \A i \in DOMAIN s : Merge(s, more)[i] = s[i]
         /\ \A i \in DOMAIN Merge(s, more) \ DOMAIN s :
              Merge(s, more)[i] \in Elements(more) \ Elements(s)
  <1> DEFINE I == {i \in FirstPositions(more) : \A j \in DOMAIN s : s[j] # more[i]}
             new == AtPositions(more, I)
             all == s \o new
  <1>1. /\ DOMAIN s = 1..Len(s) /\ Len(s) \in Nat
        /\ DOMAIN more = 1..Len(more) /\ Len(more) \in Nat
    BY LenProperties
  <1>2. I \subseteq DOMAIN more
    BY DEF FirstPositions
  <1>3. \A i, j \in I : i < j => more[i] # more[j]
    <2>1. ASSUME NEW i \in I, NEW j \in I, i < j PROVE more[i] # more[j]
      <3>1. i \in 1..(j - 1)
        BY <1>1, <1>2, <2>1
      <3>2. QED
        BY <2>1, <3>1 DEF FirstPositions
    <2>2. QED
      BY <2>1
  <1>4. {more[i] : i \in I} = Elements(more) \ Elements(s)
    <2>1. ASSUME NEW j \in DOMAIN more, more[j] \notin Elements(s) PROVE \E i \in I : more[i] = more[j]
      <3>1. PICK i \in FirstPositions(more) : more[i] = more[j]
        BY <2>1, FirstsCover
      <3>2. i \in I
        BY <2>1, <3>1 DEF Elements
      <3>3. QED
        BY <3>1, <3>2
    <2>2. QED
      BY <1>2, <2>1 DEF Elements
  <1>5. new \in Seq(T) /\ Elements(new) = Elements(more) \ Elements(s) /\ Once(new)
    <2> HIDE DEF I
    <2> QED BY <1>2, <1>3, <1>4, KeptElements, KeptOnce
  <1> HIDE DEF new
  <1>6. DOMAIN new = 1..Len(new) /\ Len(new) \in Nat
    BY <1>5, LenProperties
  <1>7. /\ all \in Seq(T) /\ Len(all) = Len(s) + Len(new)
        /\ \A i \in 1..(Len(s) + Len(new)) : all[i] = IF i <= Len(s) THEN s[i] ELSE new[i - Len(s)]
    BY <1>5, ConcatProperties
  <1> HIDE DEF all
  <1>8. DOMAIN all = 1..(Len(s) + Len(new))
    BY <1>7, LenProperties
  <1>9. \A i \in DOMAIN s : i \in DOMAIN all /\ all[i] = s[i]
    BY <1>1, <1>6, <1>7, <1>8
  <1>10. ASSUME NEW i \in DOMAIN all \ DOMAIN s
         PROVE  i - Len(s) \in DOMAIN new /\ all[i] = new[i - Len(s)] /\ all[i] \in Elements(more) \ Elements(s)
    <2>1. i \in Nat /\ ~(i <= Len(s)) /\ i - Len(s) \in 1..Len(new)
      BY <1>1, <1>6, <1>8, <1>10
    <2>2. all[i] = new[i - Len(s)]
      BY <1>7, <1>8, <1>10, <2>1
    <2>3. QED
      BY <1>5, <1>6, <2>1, <2>2 DEF Elements
  <1>11. ASSUME NEW k \in DOMAIN new PROVE \E i \in DOMAIN all : all[i] = new[k]
    <2>1. k \in Nat /\ Len(s) + k \in DOMAIN all /\ ~(Len(s) + k <= Len(s)) /\ (Len(s) + k) - Len(s) = k
      BY <1>1, <1>6, <1>8, <1>11
    <2>2. Len(s) + k \notin DOMAIN s
      BY <1>1, <2>1
    <2>3. all[Len(s) + k] = new[k]
      BY <1>10, <2>1, <2>2
    <2>4. QED
      BY <2>1, <2>3
  <1>12. Elements(all) = Elements(s) \cup Elements(more)
    <2>1. Elements(all) \subseteq Elements(s) \cup Elements(more)
      <3>1. ASSUME NEW i \in DOMAIN all PROVE all[i] \in Elements(s) \cup Elements(more)
        BY <1>9, <1>10, <3>1 DEF Elements
      <3>2. QED
        BY <3>1 DEF Elements
    <2>2. Elements(s) \subseteq Elements(all)
      BY <1>9 DEF Elements
    <2>3. Elements(new) \subseteq Elements(all)
      BY <1>11 DEF Elements
    <2>4. QED
      BY <1>5, <2>1, <2>2, <2>3
  <1>13. Once(all)
    <2>1. ASSUME NEW i \in DOMAIN all, NEW j \in DOMAIN all, i < j PROVE all[i] # all[j]
      <3>1. CASE j \in DOMAIN s
        <4>1. i \in DOMAIN s
          BY <1>1, <1>6, <1>8, <2>1, <3>1
        <4>2. QED
          BY <1>9, <2>1, <3>1, <4>1 DEF Once
      <3>2. CASE j \notin DOMAIN s /\ i \in DOMAIN s
        <4>1. all[i] \in Elements(s)
          BY <1>9, <3>2 DEF Elements
        <4>2. QED
          BY <1>10, <2>1, <3>2, <4>1
      <3>3. CASE j \notin DOMAIN s /\ i \notin DOMAIN s
        <4>1. /\ i - Len(s) \in DOMAIN new /\ all[i] = new[i - Len(s)]
              /\ j - Len(s) \in DOMAIN new /\ all[j] = new[j - Len(s)]
          BY <1>10, <2>1, <3>3
        <4>2. i - Len(s) < j - Len(s)
          BY <1>1, <1>6, <1>8, <2>1
        <4>3. QED
          BY <1>5, <4>1, <4>2 DEF Once
      <3>4. QED
        BY <3>1, <3>2, <3>3
    <2>2. QED
      BY <2>1 DEF Once
  <1>14. Merge(s, more) = all
    BY DEF Merge, all, new
  <1>15. Len(s) <= Len(all)
    BY <1>1, <1>6, <1>7
  <1>16. \A i \in DOMAIN s : all[i] = s[i]
    BY <1>9
  <1>17. \A i \in DOMAIN all \ DOMAIN s : all[i] \in Elements(more) \ Elements(s)
    BY <1>10
  <1>18. QED
    BY <1>7, <1>12, <1>13, <1>14, <1>15, <1>16, <1>17

(* The front of a sequence.                                                *)
LEMMA CutOnce ==
  ASSUME NEW T, NEW s \in Seq(T), NEW n \in 0..Len(s)
  PROVE  /\ SubSeq(s, 1, n) \in Seq(T) /\ Len(SubSeq(s, 1, n)) = n /\ DOMAIN SubSeq(s, 1, n) = 1..n
         /\ \A i \in 1..n : i \in DOMAIN s /\ SubSeq(s, 1, n)[i] = s[i]
         /\ Elements(SubSeq(s, 1, n)) \subseteq Elements(s)
         /\ Once(s) => Once(SubSeq(s, 1, n))
         /\ n = Len(s) => SubSeq(s, 1, n) = s
  <1> DEFINE cut == SubSeq(s, 1, n)
  <1>1. DOMAIN s = 1..Len(s) /\ Len(s) \in Nat /\ \A i \in 1..Len(s) : s[i] \in T
    BY LenProperties, ElementOfSeq
  <1>2. /\ cut \in Seq(T) /\ Len(cut) = IF 1 <= n THEN n - 1 + 1 ELSE 0
        /\ \A i \in 1..(n - 1 + 1) : cut[i] = s[1 + i - 1]
    <2>1. n \in Int /\ 1 \in Int /\ \A i \in 1..n : s[i] \in T
      BY <1>1
    <2>2. QED
      BY <2>1, SubSeqProperties
  <1> HIDE DEF cut
  <1>3. Len(cut) = n /\ DOMAIN cut = 1..n
    <2>1. Len(cut) = n
      BY <1>1, <1>2
    <2>2. QED
      BY <1>2, <2>1, LenProperties
  <1>4. \A i \in 1..n : i \in DOMAIN s /\ cut[i] = s[i]
    <2>1. ASSUME NEW i \in 1..n PROVE i \in DOMAIN s /\ cut[i] = s[i]
      <3>1. i \in Nat /\ i \in 1..(n - 1 + 1) /\ 1 + i - 1 = i /\ i \in 1..Len(s)
        BY <1>1, <2>1
      <3>2. QED
        BY <1>1, <1>2, <3>1
    <2>2. QED
      BY <2>1
  <1>5. Elements(cut) \subseteq Elements(s) /\ (Once(s) => Once(cut))
    BY <1>3, <1>4 DEF Elements, Once
  <1>6. n = Len(s) => cut = s
    BY <1>2, <1>3, <1>4, SeqEqual
  <1>7. QED
    BY <1>2, <1>3, <1>4, <1>5, <1>6 DEF cut

-----------------------------------------------------------------------------
(* What a sequence holds with one more element, and that it holds nothing  *)
(* only if it is empty.                                                    *)
LEMMA AppendedElements ==
  ASSUME NEW T, NEW s \in Seq(T), NEW x \in T
  PROVE  Append(s, x) \in Seq(T) /\ Elements(Append(s, x)) = Elements(s) \cup {x}
  <1>1. /\ Append(s, x) \in Seq(T) /\ Len(Append(s, x)) = Len(s) + 1
        /\ \A i \in 1..Len(s) : Append(s, x)[i] = s[i]
        /\ Append(s, x)[Len(s) + 1] = x
    BY AppendProperties
  <1>2. /\ DOMAIN s = 1..Len(s) /\ Len(s) \in Nat /\ DOMAIN Append(s, x) = 1..(Len(s) + 1)
    BY <1>1, LenProperties
  <1>3. 1..(Len(s) + 1) = (1..Len(s)) \cup {Len(s) + 1}
    BY <1>2
  <1>4. QED
    BY <1>1, <1>2, <1>3 DEF Elements

(* Only the empty sequence holds nothing.                                  *)
LEMMA NoElements ==
  ASSUME NEW T, NEW s \in Seq(T)
  PROVE  s = << >> <=> Elements(s) = {}
  <1>1. DOMAIN s = 1..Len(s) /\ Len(s) \in Nat
    BY LenProperties
  <1>2. Elements(s) = {} <=> Len(s) = 0
    <2>1. Len(s) = 0 => 1..Len(s) = {}
      OBVIOUS
    <2>2. Len(s) # 0 => 1 \in 1..Len(s)
      BY <1>1
    <2>3. QED
      BY <1>1, <2>1, <2>2 DEF Elements
  <1>3. s = << >> <=> Len(s) = 0
    BY EmptySeq
  <1>4. QED
    BY <1>2, <1>3

(* What a function takes a finite set to is finite.                        *)
LEMMA ImageIsFinite ==
  ASSUME NEW S, IsFiniteSet(S), NEW f, S \subseteq DOMAIN f
  PROVE  IsFiniteSet({f[x] : x \in S})
  <1> DEFINE h == [x \in S |-> f[x]]
             T == {f[x] : x \in S}
  <1>1. h \in [S -> T] /\ \A y \in T : \E x \in S : h[x] = y
    OBVIOUS
  <1>2. h \in Surjection(S, T)
    BY <1>1 DEF Surjection
  <1> HIDE DEF h, T
  <1>3. IsFiniteSet(T)
    BY <1>2, FS_Surjection
  <1>4. QED
    BY <1>3 DEF T

-----------------------------------------------------------------------------
(* A loop of N turns over a state: what the function that a definition     *)
(* chooses for it is.                                                      *)
Loop(N, a, F, g) == [n \in 0..N |-> IF n = 0 THEN a ELSE F[n][g[n - 1]]]

Looping(S, N, a, F) == a \in S /\ N \in Nat /\ F \in [1..N -> [S -> S]]
Runs(S, N, a, F) == \E g : g \in [0..N -> S] /\ g = Loop(N, a, F, g)

(* There is a function that runs the loop.                                 *)
LEMMA LoopRuns ==
  ASSUME NEW S, NEW N, NEW a, NEW F, Looping(S, N, a, F)
  PROVE  Runs(S, N, a, F)
  <1>0. a \in S /\ N \in Nat /\ F \in [1..N -> [S -> S]]
    BY DEF Looping
  <1> DEFINE H == [n \in Nat |-> IF n < N THEN F[n + 1] ELSE [s \in S |-> s]]
  <1>1. H \in StepsIn(S)
    <2>1. ASSUME NEW n \in Nat PROVE (IF n < N THEN F[n + 1] ELSE [s \in S |-> s]) \in [S -> S]
      <3>1. n < N => n + 1 \in 1..N
        BY <1>0, <2>1
      <3>2. n < N => F[n + 1] \in [S -> S]
        BY <1>0, <3>1
      <3>3. QED
        BY <3>2
    <2>2. QED
      BY <2>1 DEF StepsIn
  <1>2. PICK f : f \in Courses(S, a, H)
    <2> HIDE DEF H
    <2> QED BY <1>0, <1>1, Recursion
  <1>3. f \in [Nat -> S] /\ f[0] = a /\ \A n \in Nat : f[n + 1] = H[n][f[n]]
    <2> HIDE DEF H
    <2> QED BY <1>2 DEF Courses
  <1> DEFINE g == [n \in 0..N |-> f[n]]
  <1>4. g \in [0..N -> S]
    BY <1>3
  <1>5. ASSUME NEW n \in 0..N PROVE f[n] = IF n = 0 THEN a ELSE F[n][g[n - 1]]
    <2>1. CASE n = 0
      BY <1>3, <2>1
    <2>2. CASE n # 0
      <3>1. n - 1 \in Nat /\ (n - 1) + 1 = n /\ n - 1 < N /\ n - 1 \in 0..N
        BY <1>0, <1>5, <2>2
      <3>2. f[(n - 1) + 1] = H[n - 1][f[n - 1]]
        <4> HIDE DEF H
        <4> QED BY <1>3, <3>1
      <3>3. H[n - 1] = F[(n - 1) + 1]
        BY <3>1
      <3>4. g[n - 1] = f[n - 1]
        BY <3>1
      <3> HIDE DEF H, g
      <3>5. QED
        BY <2>2, <3>1, <3>2, <3>3, <3>4
    <2>3. QED
      BY <2>1, <2>2
  <1>6. g = Loop(N, a, F, g)
    <2> DEFINE t(n) == IF n = 0 THEN a ELSE F[n][g[n - 1]]
    <2>1. \A n \in 0..N : f[n] = t(n)
      BY <1>5
    <2>2. Loop(N, a, F, g) = [n \in 0..N |-> t(n)]
      BY DEF Loop
    <2>3. g = [n \in 0..N |-> f[n]]
      OBVIOUS
    <2> HIDE DEF g, t
    <2>4. QED
      BY <2>1, <2>2, <2>3
  <1>7. QED
    BY <1>4, <1>6 DEF Runs

(* What holds before the first turn and is kept by every turn.             *)
LEMMA LoopInduction ==
  ASSUME NEW N \in Nat, NEW P, 0 \in P, \A n \in 1..N : n - 1 \in P => n \in P
  PROVE  \A n \in 0..N : n \in P
  <1> DEFINE Q == {n \in Nat : n <= N => n \in P}
  <1>1. 0 \in Q
    OBVIOUS
  <1>2. ASSUME NEW n \in Nat, n \in Q PROVE n + 1 \in Q
    <2>1. SUFFICES ASSUME n + 1 <= N PROVE n + 1 \in P
      BY <1>2
    <2>2. n + 1 \in 1..N /\ (n + 1) - 1 = n /\ n <= N
      BY <1>2, <2>1
    <2>3. QED
      BY <1>2, <2>2
  <1>3. \A n \in Nat : n \in Q
    <2> HIDE DEF Q
    <2> QED BY <1>1, <1>2, Induction
  <1>4. QED
    BY <1>3

-----------------------------------------------------------------------------
(* A walk over D in which every move takes a rank down: from everywhere it *)
(* ends, so there is a function that has its verdicts, and what holds of d *)
(* if it holds of all of lower rank holds of all of D.                     *)
RankInduction(D, rank, P) == \A d \in D : (\A e \in D : rank[e] < rank[d] => e \in P) => d \in P

(* Induction along ranks.                                                  *)
LEMMA RankedInduction ==
  ASSUME NEW D, NEW rank \in [D -> Nat], NEW P, RankInduction(D, rank, P)
  PROVE  \A d \in D : d \in P
  <1> DEFINE B == {d \in D : d \notin P}
             R == {rank[d] : d \in B}
  <1>1. ASSUME B # {} PROVE FALSE
    <2>1. R \subseteq Nat /\ R # {}
      BY <1>1
    <2>2. PICK x \in R : \A y \in R : x <= y
      <3> HIDE DEF R
      <3> QED BY <2>1, LeastNumber
    <2>3. PICK d \in B : x = rank[d]
      BY <2>2
    <2>4. ASSUME NEW e \in D, rank[e] < rank[d] PROVE e \in P
      <3>1. rank[e] \in Nat /\ rank[d] \in Nat
        BY <2>3
      <3>2. ~(rank[d] <= rank[e])
        BY <2>4, <3>1
      <3>3. QED
        BY <2>2, <2>3, <3>2
    <2>5. d \in P
      BY <2>3, <2>4 DEF RankInduction
    <2>6. QED
      BY <2>3, <2>5
  <1>2. QED
    BY <1>1

Walked(D, halts, verdict, onward, g) == [d \in D |-> IF d \in halts THEN verdict[d] ELSE g[onward[d]]]
Lowers(D, rank, halts, onward) == \A d \in D \ halts : onward[d] \in D /\ rank[onward[d]] < rank[d]
Ranked(D, W, rank, halts, verdict, onward) ==
  rank \in [D -> Nat] /\ verdict \in [D -> W] /\ Lowers(D, rank, halts, onward)

(* There is a function that the walk defines.                              *)
LEMMA RankedRecursion ==
  ASSUME NEW D, NEW W, NEW rank, NEW halts, NEW verdict, NEW onward,
         Ranked(D, W, rank, halts, verdict, onward)
  PROVE  \E g : g \in [D -> W] /\ g = Walked(D, halts, verdict, onward, g)
  <1>0. rank \in [D -> Nat] /\ verdict \in [D -> W] /\ Lowers(D, rank, halts, onward)
    BY DEF Ranked
  <1> DEFINE next(g) == [d \in D |-> IF d \in halts THEN verdict[d] ELSE g[onward[d]]]
             S == [D -> W]
             F == [n \in Nat |-> [g \in S |-> next(g)]]
  <1>1. \A d \in D : rank[d] \in Nat /\ verdict[d] \in W
    BY <1>0
  <1>2. \A d \in D : d \notin halts => onward[d] \in D /\ rank[onward[d]] < rank[d]
    BY <1>0 DEF Lowers
  <1>3. ASSUME NEW g \in S PROVE next(g) \in S
    BY <1>1, <1>2, <1>3
  <1>4. F \in StepsIn(S)
    <2> HIDE DEF next, S
    <2> QED BY <1>3 DEF StepsIn
  <1>5. verdict \in S
    BY <1>0
  <1>6. PICK G : G \in Courses(S, verdict, F)
    <2> HIDE DEF F, S
    <2> QED BY <1>4, <1>5, Recursion
  <1>7. /\ \A n \in Nat : G[n] \in S
        /\ \A n \in Nat : G[n + 1] = F[n][G[n]]
    <2> HIDE DEF F, S
    <2> QED BY <1>6 DEF Courses
  <1>8. \A n \in Nat : G[n + 1] = next(G[n])
    <2> HIDE DEF next, S
    <2> QED BY <1>7
  <1>9. \A n \in Nat, d \in D : G[n + 1][d] = IF d \in halts THEN verdict[d] ELSE G[n][onward[d]]
    <2>1. \A n \in Nat : \A d \in D : next(G[n])[d] = IF d \in halts THEN verdict[d] ELSE G[n][onward[d]]
      OBVIOUS
    <2> HIDE DEF next
    <2>2. QED
      BY <1>8, <2>1
  (* From its rank on, an approximation does not change any more.          *)
  <1> DEFINE P == {d \in D : \A n \in Nat : n > rank[d] => G[n][d] = G[rank[d] + 1][d]}
  <1>10. RankInduction(D, rank, P)
    <2>1. SUFFICES ASSUME NEW d \in D, \A e \in D : rank[e] < rank[d] => e \in P,
                          NEW n \in Nat, n > rank[d]
                   PROVE  G[n][d] = G[rank[d] + 1][d]
      BY DEF RankInduction
    <2>2. rank[d] \in Nat /\ n - 1 \in Nat /\ (n - 1) + 1 = n /\ n - 1 >= rank[d]
      BY <1>1, <2>1
    <2>3. CASE d \in halts
      BY <1>9, <2>1, <2>2, <2>3
    <2>4. CASE d \notin halts
      <3> DEFINE e == onward[d]
      <3>1. e \in D /\ rank[e] < rank[d] /\ rank[e] \in Nat
        BY <1>1, <1>2, <2>1, <2>4
      <3>2. e \in P
        BY <2>1, <3>1
      <3>3. n - 1 > rank[e] /\ rank[d] > rank[e]
        <4> HIDE DEF e
        <4> QED BY <2>1, <2>2, <3>1
      <3>4. G[n - 1][e] = G[rank[d]][e]
        <4> HIDE DEF e
        <4>1. \A m \in Nat : m > rank[e] => G[m][e] = G[rank[e] + 1][e]
          BY <3>2
        <4>2. QED
          BY <2>2, <3>3, <4>1
      <3>5. G[(n - 1) + 1][d] = G[n - 1][e] /\ G[rank[d] + 1][d] = G[rank[d]][e]
        BY <1>9, <2>1, <2>2, <2>4
      <3>6. QED
        BY <2>2, <3>4, <3>5
    <2>5. QED
      BY <2>3, <2>4
  <1>11. \A d \in D : d \in P
    <2> HIDE DEF P
    <2> QED BY <1>0, <1>10, RankedInduction
  <1> DEFINE g == [d \in D |-> G[rank[d] + 1][d]]
  <1>12. g \in [D -> W]
    <2>1. ASSUME NEW d \in D PROVE G[rank[d] + 1][d] \in W
      <3>1. rank[d] + 1 \in Nat
        BY <1>1, <2>1
      <3>2. G[rank[d] + 1] \in [D -> W]
        BY <1>7, <3>1
      <3>3. QED
        BY <2>1, <3>2
    <2>2. QED
      BY <2>1
  <1>13. ASSUME NEW d \in D PROVE G[rank[d] + 1][d] = IF d \in halts THEN verdict[d] ELSE g[onward[d]]
    <2>1. rank[d] \in Nat
      BY <1>1
    <2>2. G[rank[d] + 1][d] = IF d \in halts THEN verdict[d] ELSE G[rank[d]][onward[d]]
      BY <1>9, <2>1
    <2>3. ASSUME d \notin halts PROVE G[rank[d]][onward[d]] = g[onward[d]]
      <3> DEFINE e == onward[d]
      <3>1. e \in D /\ rank[d] > rank[e]
        BY <1>1, <1>2, <2>1, <2>3
      <3>2. G[rank[d]][e] = G[rank[e] + 1][e]
        <4> HIDE DEF e
        <4>1. \A m \in Nat : m > rank[e] => G[m][e] = G[rank[e] + 1][e]
          BY <1>11, <3>1
        <4>2. QED
          BY <2>1, <3>1, <4>1
      <3>3. g[e] = G[rank[e] + 1][e]
        BY <3>1
      <3>4. QED
        BY <3>2, <3>3
    <2> HIDE DEF g
    <2>4. QED
      BY <2>2, <2>3
  <1>14. g = Walked(D, halts, verdict, onward, g)
    <2> DEFINE t(d) == IF d \in halts THEN verdict[d] ELSE g[onward[d]]
    <2>1. \A d \in D : G[rank[d] + 1][d] = t(d)
      BY <1>13
    <2>2. Walked(D, halts, verdict, onward, g) = [d \in D |-> t(d)]
      BY DEF Walked
    <2>3. g = [d \in D |-> G[rank[d] + 1][d]]
      OBVIOUS
    <2> HIDE DEF g, t
    <2>4. QED
      BY <2>1, <2>2, <2>3
  <1>15. QED
    BY <1>12, <1>14

=============================================================================
