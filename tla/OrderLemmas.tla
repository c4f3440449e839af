---------------------------- MODULE OrderLemmas -----------------------------
(***************************************************************************)
(* Facts about least elements, ranks, binary digits, recursive functions,  *)
(* small sets and sequences for the proofs of the components.  The library *)
(* states induction with an operator as a parameter; what is used here     *)
(* instead is that a nonempty set of naturals has a least element.         *)
(***************************************************************************)
EXTENDS Integers, FiniteSetsExt, FiniteSetTheorems, SequenceTheorems, WellFoundedInduction, TLAPS

\* A nonempty set of naturals has a least element.
LEMMA LeastNat ==
    ASSUME NEW T \in SUBSET Nat, T # {}
    PROVE  \E n \in T : \A m \in T : n <= m
<1>1. IsWellFoundedOn(OpToRel(<, Nat), Nat)
  BY NatLessThanWellFounded
<1>2. PICK n \in T : \A m \in T : ~ (<<m, n>> \in OpToRel(<, Nat))
  BY <1>1, WFMin
<1>3. \A m \in T : m \in Nat /\ n \in Nat /\ ~ (m < n)
  BY <1>2 DEF OpToRel
<1>4. QED
  BY <1>3

\* A set of naturals that holds 0 and the successor of each of its members, up to
\* k, holds all numbers up to k.
LEMMA UpTo ==
    ASSUME NEW k \in Nat, NEW T,
           0 \in T, \A n \in 0..k - 1 : n \in T => n + 1 \in T
    PROVE  0..k \subseteq T
<1> DEFINE B == {n \in 0..k : n \notin T}
<1> SUFFICES ASSUME B # {} PROVE FALSE
  OBVIOUS
<1>1. PICK n \in B : \A m \in B : n <= m
  <2>1. B \in SUBSET Nat
    OBVIOUS
  <2>2. QED
    BY <2>1, LeastNat
<1>2. n # 0 /\ n - 1 \in 0..k - 1 /\ n - 1 \notin B
  BY <1>1
<1>3. n - 1 \in T
  BY <1>2
<1>4. n \in T
  BY <1>2, <1>3
<1>5. QED
  BY <1>1, <1>4

\* A proper subset of a finite set has fewer elements.
LEMMA FewerElements ==
    ASSUME NEW S, IsFiniteSet(S), NEW T \in SUBSET S, T # S
    PROVE  /\ IsFiniteSet(T)
           /\ Cardinality(T) \in Nat /\ Cardinality(S) \in Nat
           /\ Cardinality(T) < Cardinality(S)
BY FS_Subset, FS_CardinalityType

\* Min of the community modules is the least element, if the set is finite.
LEMMA MinIsLeast ==
    ASSUME NEW S \in SUBSET Int, IsFiniteSet(S), S # {}
    PROVE  Min(S) \in S /\ \A y \in S : Min(S) <= y
<1> DEFINE Below(x) == {y \in S : y < x}
           T == {Cardinality(Below(x)) : x \in S}
<1>1. \A x \in S : IsFiniteSet(Below(x)) /\ Cardinality(Below(x)) \in Nat
  BY FS_Subset, FS_CardinalityType
<1>2. PICK n \in T : \A m \in T : n <= m
  <2>1. T \in SUBSET Nat /\ T # {}
    BY <1>1
  <2>2. QED
    BY <2>1, LeastNat
<1>3. PICK x \in S : n = Cardinality(Below(x))
  OBVIOUS
<1>4. ASSUME NEW y \in S, y < x
      PROVE  FALSE
  <2>1. Below(y) \in SUBSET Below(x) /\ Below(y) # Below(x)
    <3>1. y \in Below(x) /\ y \notin Below(y)
      BY <1>4
    <3>2. ASSUME NEW z \in Below(y) PROVE z \in Below(x)
      <4>1. z \in Int /\ y \in Int /\ x \in Int /\ z < y /\ z \in S
        OBVIOUS
      <4>2. QED
        BY <4>1, <1>4
    <3>3. QED
      BY <3>1, <3>2
  <2>2. Cardinality(Below(y)) < Cardinality(Below(x))
    BY <2>1, <1>1, FewerElements
  <2>3. n <= Cardinality(Below(y)) /\ n \in Nat /\ Cardinality(Below(y)) \in Nat
    BY <1>1, <1>2
  <2>4. QED
    BY <2>2, <2>3, <1>3
<1>5. x \in S /\ \A y \in S : x <= y
  BY <1>4
<1>6. QED
  BY <1>5 DEF Min

\* R is a strict total order of S.
StrictOrder(R, S) ==
    /\ \A a, b \in S : a # b => R[<<a, b>>] \/ R[<<b, a>>]
    /\ \A a, b \in S : a # b => ~ (R[<<a, b>>] /\ R[<<b, a>>])
    /\ \A a, b, c \in S : a # b /\ b # c /\ a # c /\ R[<<a, b>>] /\ R[<<b, c>>] => R[<<a, c>>]

\* The number of elements before a.
PlaceIn(R, S, a) == Cardinality({b \in S \ {a} : R[<<b, a>>]})

\* The ranks of a finite set name its elements: the element that CHOOSE finds for the
\* rank of a is a itself, and every rank is less than the number of elements.
LEMMA RankNames ==
    ASSUME NEW S, IsFiniteSet(S), NEW R, StrictOrder(R, S), NEW a \in S
    PROVE  /\ PlaceIn(R, S, a) \in 0..Cardinality(S) - 1
           /\ \A b \in S : PlaceIn(R, S, b) = PlaceIn(R, S, a) => b = a
<1> DEFINE Below(x) == {y \in S \ {x} : R[<<y, x>>]}
<1>1. \A x \in S : /\ IsFiniteSet(Below(x)) /\ Cardinality(Below(x)) \in Nat
                   /\ Cardinality(Below(x)) < Cardinality(S)
  <2>1. TAKE x \in S
  <2>2. Below(x) \in SUBSET S /\ Below(x) # S
    OBVIOUS
  <2>3. QED
    BY <2>2, FewerElements
<1>2. ASSUME NEW x \in S, NEW y \in S, x # y, R[<<x, y>>]
      PROVE  Cardinality(Below(x)) < Cardinality(Below(y))
  <2>1. ASSUME NEW z \in Below(x) PROVE z \in Below(y)
    <3>1. z \in S /\ z # x /\ R[<<z, x>>]
      OBVIOUS
    <3>2. z # y
      BY <3>1, <1>2 DEF StrictOrder
    <3>3. R[<<z, y>>]
      BY <3>1, <3>2, <1>2 DEF StrictOrder
    <3>4. QED
      BY <3>1, <3>2, <3>3
  <2>2. x \in Below(y) /\ x \notin Below(x)
    BY <1>2
  <2>3. Below(x) \in SUBSET Below(y) /\ Below(x) # Below(y)
    BY <2>1, <2>2
  <2>4. QED
    BY <2>3, <1>1, FewerElements
<1>3. ASSUME NEW b \in S, b # a
      PROVE  Cardinality(Below(a)) # Cardinality(Below(b))
  <2>1. R[<<a, b>>] \/ R[<<b, a>>]
    BY <1>3 DEF StrictOrder
  <2> HIDE DEF Below
  <2>2. Cardinality(Below(a)) < Cardinality(Below(b)) \/ Cardinality(Below(b)) < Cardinality(Below(a))
    BY <1>2, <1>3, <2>1
  <2>3. Cardinality(Below(a)) \in Nat /\ Cardinality(Below(b)) \in Nat
    BY <1>1
  <2>4. QED
    BY <2>2, <2>3
<1>4. \A x \in S : PlaceIn(R, S, x) = Cardinality(Below(x))
  BY DEF PlaceIn
<1>5. Cardinality(S) \in Nat
  BY FS_CardinalityType
<1>6. PlaceIn(R, S, a) \in Nat /\ PlaceIn(R, S, a) < Cardinality(S)
  BY <1>1, <1>4
<1>7. ASSUME NEW b \in S, PlaceIn(R, S, b) = PlaceIn(R, S, a)
      PROVE  b = a
  <2>1. Cardinality(Below(b)) = Cardinality(Below(a))
    BY <1>4, <1>7
  <2>2. QED
    BY <2>1, <1>3
<1> HIDE DEF Below
<1>8. PlaceIn(R, S, a) \in 0..Cardinality(S) - 1
  BY <1>5, <1>6
<1>9. QED
  BY <1>7, <1>8

\* ... and every number below the number of elements is a rank.
LEMMA RankOnto ==
    ASSUME NEW S, IsFiniteSet(S), NEW R, StrictOrder(R, S), NEW k \in 0..Cardinality(S) - 1
    PROVE  \E a \in S : PlaceIn(R, S, a) = k
<1> DEFINE T == 0..Cardinality(S) - 1
           rank == [a \in S |-> PlaceIn(R, S, a)]
<1>1. Cardinality(S) \in Nat
  BY FS_CardinalityType
<1>2. IsFiniteSet(T) /\ Cardinality(T) = Cardinality(S)
  <2>1. 0 \in Int /\ Cardinality(S) - 1 \in Int
    BY <1>1
  <2>2. IsFiniteSet(T) /\ Cardinality(T) = IF 0 > Cardinality(S) - 1 THEN 0 ELSE Cardinality(S) - 1 - 0 + 1
    BY <2>1, FS_Interval
  <2>3. QED
    BY <1>1, <2>2
<1>3. \A a \in S : rank[a] \in T
  BY RankNames
<1>4. \A a, b \in S : rank[a] = rank[b] => a = b
  BY RankNames
<1>5. rank \in Injection(S, T)
  BY <1>3, <1>4 DEF Injection, IsInjective
<1>6. rank \in Surjection(S, T)
  BY <1>2, <1>5, FS_Injection
<1>7. PICK a \in S : rank[a] = k
  BY <1>6 DEF Surjection
<1>8. QED
  BY <1>7

\* Some element has the least key, and is the least of those that have it.
LEMMA LeastByKey ==
    ASSUME NEW S \in SUBSET Int, IsFiniteSet(S), S # {}, NEW k, \A x \in S : k[x] \in Nat
    PROVE  \E x \in S : \A y \in S : k[x] < k[y] \/ (k[x] = k[y] /\ x <= y)
<1>1. PICK n \in {k[x] : x \in S} : \A m \in {k[x] : x \in S} : n <= m
  <2>1. {k[x] : x \in S} \in SUBSET Nat /\ {k[x] : x \in S} # {}
    OBVIOUS
  <2>2. QED
    BY <2>1, LeastNat
<1> DEFINE T == {x \in S : k[x] = n}
<1>2. T \in SUBSET Int /\ IsFiniteSet(T) /\ T # {}
  BY <1>1, FS_Subset
<1>3. Min(T) \in T /\ \A y \in T : Min(T) <= y
  BY <1>2, MinIsLeast
<1>4. ASSUME NEW y \in S
      PROVE  k[Min(T)] < k[y] \/ (k[Min(T)] = k[y] /\ Min(T) <= y)
  <2>1. k[Min(T)] = n /\ n \in Nat /\ k[y] \in Nat /\ n <= k[y]
    BY <1>1, <1>3
  <2>2. CASE k[y] = n
    BY <1>3, <2>1, <2>2
  <2>3. QED
    BY <2>1, <2>2
<1>5. QED
  BY <1>3, <1>4

\* The order of the integers, on a set of them.
Less(S) == [p \in S \X S |-> p[1] < p[2]]

\* It is a strict total order, and the rank of a number is how many are smaller.
LEMMA LessIsOrder ==
    ASSUME NEW S \in SUBSET Int
    PROVE  /\ StrictOrder(Less(S), S)
           /\ \A i \in S : PlaceIn(Less(S), S, i) = Cardinality({j \in S : j < i})
<1>1. \A a, b \in S : Less(S)[<<a, b>>] <=> a < b
  BY DEF Less
<1>2. StrictOrder(Less(S), S)
  BY <1>1 DEF StrictOrder
<1>3. ASSUME NEW i \in S
      PROVE  {j \in S \ {i} : Less(S)[<<j, i>>]} = {j \in S : j < i}
  <2>1. \A j \in S : j < i => j # i
    OBVIOUS
  <2>2. QED
    BY <1>1, <2>1
<1>4. QED
  BY <1>2, <1>3 DEF PlaceIn

\* So the numbers below the size of a finite set of integers count the smaller ones.
LEMMA CountBelow ==
    ASSUME NEW S \in SUBSET Int, IsFiniteSet(S), NEW n \in 0..Cardinality(S) - 1
    PROVE  \E i \in S : Cardinality({j \in S : j < i}) = n
<1> DEFINE R == Less(S)
<1>1. StrictOrder(R, S) /\ \A i \in S : PlaceIn(R, S, i) = Cardinality({j \in S : j < i})
  BY LessIsOrder
<1> HIDE DEF R
<1>2. StrictOrder(R, S)
  BY <1>1
<1>3. \E i \in S : PlaceIn(R, S, i) = n
  BY <1>2, RankOnto
<1>4. QED
  BY <1>1, <1>3

\* ... each for one of them.
LEMMA BelowTells ==
    ASSUME NEW S \in SUBSET Int, IsFiniteSet(S), NEW i \in S
    PROVE  /\ Cardinality({j \in S : j < i}) \in 0..Cardinality(S) - 1
           /\ \A k \in S : Cardinality({j \in S : j < k}) = Cardinality({j \in S : j < i}) => k = i
<1> DEFINE R == Less(S)
<1>1. StrictOrder(R, S) /\ \A k \in S : PlaceIn(R, S, k) = Cardinality({j \in S : j < k})
  BY LessIsOrder
<1> HIDE DEF R
<1>2. /\ PlaceIn(R, S, i) \in 0..Cardinality(S) - 1
      /\ \A k \in S : PlaceIn(R, S, k) = PlaceIn(R, S, i) => k = i
  BY <1>1, RankNames
<1>3. QED
  BY <1>1, <1>2
\* One more element doubles the number of subsets.
LEMMA PowerDoubles ==
    ASSUME NEW n \in Nat
    PROVE  /\ 2 ^ n \in Nat \ {0}
           /\ 2 ^ (n + 1) = 2 * 2 ^ n
           /\ 2 ^ 0 = 1
<1> DEFINE S == 1..n
           T == 1..n + 1
           with == [s \in SUBSET S |-> s \cup {n + 1}]
           New == {s \cup {n + 1} : s \in SUBSET S}
<1>1. IsFiniteSet(S) /\ Cardinality(S) = n /\ IsFiniteSet(T) /\ Cardinality(T) = n + 1
  <2>1. 1 \in Int /\ n \in Int /\ n + 1 \in Int
    OBVIOUS
  <2>2. QED
    BY <2>1, FS_Interval
<1>2. /\ IsFiniteSet(SUBSET S) /\ Cardinality(SUBSET S) = 2 ^ n
      /\ IsFiniteSet(SUBSET T) /\ Cardinality(SUBSET T) = 2 ^ (n + 1)
  BY <1>1, FS_SUBSET
<1>3. SUBSET T = (SUBSET S) \cup New
  <2>1. T = S \cup {n + 1}
    OBVIOUS
  <2>2. ASSUME NEW s \in SUBSET T PROVE s \in (SUBSET S) \cup New
    <3>1. CASE n + 1 \in s
      <4>1. s \ {n + 1} \in SUBSET S /\ s = (s \ {n + 1}) \cup {n + 1}
        BY <2>1, <2>2, <3>1
      <4>2. QED
        BY <4>1
    <3>2. CASE n + 1 \notin s
      BY <2>1, <2>2, <3>2
    <3>3. QED
      BY <3>1, <3>2
  <2>3. ASSUME NEW s \in (SUBSET S) \cup New PROVE s \in SUBSET T
    BY <2>1, <2>3
  <2>4. QED
    BY <2>2, <2>3
<1>4. (SUBSET S) \cap New = {}
  OBVIOUS
<1>5. IsFiniteSet(New) /\ Cardinality(New) = 2 ^ n
  <2>1. with \in Bijection(SUBSET S, New)
    <3>1. with \in [SUBSET S -> New]
      OBVIOUS
    <3>2. \A s, t \in SUBSET S : with[s] = with[t] => s = t
      OBVIOUS
    <3>3. \A x \in New : \E s \in SUBSET S : with[s] = x
      OBVIOUS
    <3>4. QED
      BY <3>1, <3>2, <3>3 DEF Bijection, Injection, Surjection, IsInjective
  <2>2. QED
    BY <1>2, <2>1, FS_Bijection DEF ExistsBijection
<1> HIDE DEF S, T, New
<1>6. 2 ^ (n + 1) = 2 ^ n + 2 ^ n - Cardinality({})
  BY <1>2, <1>3, <1>4, <1>5, FS_Union
<1>7. 2 ^ n \in Nat
  BY <1>2, FS_CardinalityType
<1>8. 2 ^ n # 0
  BY <1>2, FS_EmptySet
<1>9. QED
  BY <1>6, <1>7, <1>8, FS_EmptySet

\* A power of two is an even multiple of each smaller one.
LEMMA PowerSplits ==
    ASSUME NEW i \in Nat, NEW j \in Nat, i < j
    PROVE  \E q \in Nat : 2 ^ j = 2 * q * 2 ^ i
<1> DEFINE T == {d \in Nat : \E q \in Nat : 2 ^ (i + 1 + d) = 2 * q * 2 ^ i}
           k == j - i - 1
<1>1. k \in Nat /\ i + 1 + k = j
  OBVIOUS
<1>2. 0 \in T
  <2>1. 2 ^ (i + 1) = 2 * 1 * 2 ^ i
    BY PowerDoubles
  <2>2. i + 1 + 0 = i + 1 /\ 1 \in Nat
    OBVIOUS
  <2>3. QED
    BY <2>1, <2>2
<1>3. ASSUME NEW n \in 0..k - 1, n \in T PROVE n + 1 \in T
  <2>1. PICK q \in Nat : 2 ^ (i + 1 + n) = 2 * q * 2 ^ i
    BY <1>3
  <2>2. i + 1 + n \in Nat /\ i + 1 + (n + 1) = (i + 1 + n) + 1 /\ n + 1 \in Nat
    BY <1>1
  <2>3. 2 ^ (i + 1 + (n + 1)) = 2 * 2 ^ (i + 1 + n) /\ 2 ^ i \in Nat
    BY <2>2, PowerDoubles
  <2>4. 2 ^ (i + 1 + (n + 1)) = 2 * (2 * q) * 2 ^ i /\ 2 * q \in Nat
    BY <2>1, <2>3
  <2>5. QED
    BY <2>2, <2>4
<1> HIDE DEF T, k
<1>4. 0..k \subseteq T
  BY <1>1, <1>2, <1>3, UpTo
<1>5. k \in T
  BY <1>1, <1>4
<1>6. QED
  BY <1>1, <1>5 DEF T

\* Adding a multiple of the divisor.
LEMMA DivAdds ==
    ASSUME NEW n \in Nat, NEW q \in Nat, NEW p \in Nat \ {0}
    PROVE  (n + q * p) \div p = (n \div p) + q /\ n \div p \in Nat /\ (n < p => n \div p = 0)
OBVIOUS

\* Bit i of n.
BitAt(n, i) == (n \div 2 ^ i) % 2

\* The next power of two is the next bit.
LEMMA NextBit ==
    ASSUME NEW j \in Nat, NEW n \in 0..2 ^ j - 1
    PROVE  /\ n \in 0..2 ^ (j + 1) - 1 /\ BitAt(n, j) = 0
           /\ n + 2 ^ j \in 0..2 ^ (j + 1) - 1 /\ BitAt(n + 2 ^ j, j) = 1
           /\ \A i \in 0..j - 1 : BitAt(n + 2 ^ j, i) = BitAt(n, i)
<1> DEFINE m == n + 2 ^ j
<1>1. 2 ^ j \in Nat \ {0} /\ 2 ^ (j + 1) = 2 * 2 ^ j
  BY PowerDoubles
<1>2. n \in 0..2 ^ (j + 1) - 1 /\ m \in 0..2 ^ (j + 1) - 1 /\ n \in Nat /\ n < 2 ^ j
  BY <1>1
<1>3. m = n + 1 * 2 ^ j
  BY <1>1
<1>4. n \div 2 ^ j = 0 /\ m \div 2 ^ j = 0 + 1
  <2>1. n \div 2 ^ j = 0
    BY <1>1, <1>2, DivAdds
  <2> HIDE DEF m
  <2>2. m \div 2 ^ j = (n \div 2 ^ j) + 1
    <3>1. \A q \in Nat : (n + q * 2 ^ j) \div 2 ^ j = (n \div 2 ^ j) + q
      BY <1>1, <1>2, DivAdds
    <3>2. QED
      BY <1>3, <3>1
  <2>3. QED
    BY <2>1, <2>2
<1>5. ASSUME NEW i \in 0..j - 1 PROVE BitAt(m, i) = BitAt(n, i)
  <2>1. i \in Nat /\ i < j
    OBVIOUS
  <2>2. PICK q \in Nat : 2 ^ j = 2 * q * 2 ^ i
    BY <2>1, PowerSplits
  <2>3. 2 ^ i \in Nat \ {0} /\ 2 * q \in Nat
    BY <2>1, PowerDoubles
  <2>4. m = n + (2 * q) * 2 ^ i
    BY <2>2
  <2> HIDE DEF m
  <2>5. m \div 2 ^ i = (n \div 2 ^ i) + 2 * q /\ n \div 2 ^ i \in Nat
    BY <1>2, <2>3, <2>4, DivAdds
  <2>6. (m \div 2 ^ i) % 2 = (n \div 2 ^ i) % 2
    <3> DEFINE x == n \div 2 ^ i
               y == m \div 2 ^ i
    <3>1. x \in Nat /\ y = x + 2 * q
      BY <2>5
    <3> HIDE DEF x, y
    <3>2. y % 2 = x % 2
      BY <3>1
    <3>3. QED
      BY <3>2 DEF x, y
  <2>7. QED
    BY <2>6 DEF BitAt
<1> HIDE DEF m
<1>6. BitAt(n, j) = 0 /\ BitAt(m, j) = 1
  BY <1>4 DEF BitAt
<1>7. QED
  BY <1>2, <1>5, <1>6 DEF m

\* Every choice of k bits is that of a number below 2^k.
LEMMA BitsOf ==
    ASSUME NEW k \in Nat, NEW b
    PROVE  \E n \in 0..2 ^ k - 1 : \A i \in 0..k - 1 : BitAt(n, i) = 1 <=> b[i] = TRUE
<1> DEFINE Is(n, j) == \A i \in 0..j - 1 : BitAt(n, i) = 1 <=> b[i] = TRUE
           T == {j \in Nat : \E n \in 0..2 ^ j - 1 : Is(n, j)}
<1>1. 0 \in T
  <2>1. 0 \in 0..2 ^ 0 - 1 /\ 0..0 - 1 = {}
    BY PowerDoubles
  <2>2. QED
    BY <2>1
<1>2. ASSUME NEW j \in 0..k - 1, j \in T PROVE j + 1 \in T
  <2>1. PICK n \in 0..2 ^ j - 1 : Is(n, j)
    BY <1>2
  <2>2. j \in Nat /\ j + 1 \in Nat /\ \A i \in 0..(j + 1) - 1 : i \in 0..j - 1 \/ i = j
    OBVIOUS
  <2>3. CASE b[j] = TRUE
    <3>1. /\ n + 2 ^ j \in 0..2 ^ (j + 1) - 1 /\ BitAt(n + 2 ^ j, j) = 1
          /\ \A i \in 0..j - 1 : BitAt(n + 2 ^ j, i) = BitAt(n, i)
      BY <2>2, NextBit
    <3>2. Is(n + 2 ^ j, j + 1)
      BY <2>1, <2>2, <2>3, <3>1
    <3>3. QED
      BY <2>2, <3>1, <3>2
  <2>4. CASE b[j] # TRUE
    <3>1. n \in 0..2 ^ (j + 1) - 1 /\ BitAt(n, j) = 0
      BY <2>2, NextBit
    <3>2. BitAt(n, j) # 1
      BY <3>1
    <3>3. Is(n, j + 1)
      BY <2>1, <2>2, <2>4, <3>2
    <3>4. QED
      BY <2>2, <3>1, <3>3
  <2>5. QED
    BY <2>3, <2>4
<1> HIDE DEF T
<1>3. 0..k \subseteq T
  BY <1>1, <1>2, UpTo
<1>4. k \in T
  BY <1>3
<1>5. QED
  BY <1>4 DEF T

\* The elements of a set get the bits of a number, the least element the lowest: every
\* choice of truth values for the elements is that of a number.
LEMMA BitsOnto ==
    ASSUME NEW S \in SUBSET Int, IsFiniteSet(S), NEW a \in [S -> BOOLEAN]
    PROVE  \E n \in 0..2 ^ Cardinality(S) - 1 :
              \A u \in S : ((n \div 2 ^ Cardinality({w \in S : w < u})) % 2 = 1) = a[u]
<1> DEFINE K == Cardinality(S)
           Below(u) == Cardinality({w \in S : w < u})
           b == [i \in 0..K - 1 |-> \E u \in S : Below(u) = i /\ a[u]]
<1>1. K \in Nat
  BY FS_CardinalityType
<1>2. \A u \in S : Below(u) \in 0..K - 1 /\ \A v \in S : Below(v) = Below(u) => v = u
  BY BelowTells
<1> HIDE DEF K, Below
<1>3. PICK n \in 0..2 ^ K - 1 : \A i \in 0..K - 1 : BitAt(n, i) = 1 <=> b[i] = TRUE
  <2> HIDE DEF b
  <2>1. QED
    BY <1>1, BitsOf
<1>4. ASSUME NEW u \in S PROVE ((n \div 2 ^ Below(u)) % 2 = 1) = a[u]
  <2>1. b[Below(u)] = TRUE <=> a[u]
    BY <1>2
  <2>2. (n \div 2 ^ Below(u)) % 2 = 1 <=> a[u]
    BY <1>2, <1>3, <2>1 DEF BitAt
  <2>3. QED
    BY <2>2
<1>5. QED
  BY <1>3, <1>4 DEF K, Below

----------------------------------------------------------------------------
\* Recursive functions over the numbers up to N.

\* f goes through N steps.
IsRecursion(f, N, b, g) == f = [k \in 0..N |-> IF k = 0 THEN b ELSE g[<<k, f[k-1]>>]]

\* A recursive function over the numbers up to N exists.
LEMMA RecursionExists ==
    ASSUME NEW N \in Nat, NEW X, NEW b \in X, NEW g \in [(1..N) \X X -> X]
    PROVE  \E f : IsRecursion(f, N, b, g)
<1> DEFINE Upto(n, f) == f \in [0..n -> X] /\ f = [k \in 0..n |-> IF k = 0 THEN b ELSE g[<<k, f[k-1]>>]]
           T == {n \in 0..N : \E f : Upto(n, f)}
<1>1. 0 \in T
  <2>1. Upto(0, [k \in 0..0 |-> b])
    OBVIOUS
  <2> HIDE DEF Upto
  <2>2. QED
    BY <2>1
<1>2. ASSUME NEW n \in 0..N - 1, n \in T PROVE n + 1 \in T
  <2>1. PICK f : Upto(n, f)
    BY <1>2
  <2> DEFINE h == [k \in 0..n + 1 |-> IF k = n + 1 THEN g[<<n + 1, f[n]>>] ELSE f[k]]
  <2>2. /\ f[n] \in X /\ n + 1 \in 1..N
        /\ \A k \in 0..n : f[k] = (IF k = 0 THEN b ELSE g[<<k, f[k-1]>>]) /\ f[k] \in X
    BY <2>1
  <2>3. h \in [0..n + 1 -> X]
    <3>1. \A k \in 0..n + 1 : k = n + 1 \/ k \in 0..n
      OBVIOUS
    <3>2. g[<<n + 1, f[n]>>] \in X
      BY <2>2
    <3> HIDE DEF Upto, T
    <3>3. QED
      BY <2>2, <3>1, <3>2
  <2>4. ASSUME NEW k \in 0..n + 1
        PROVE  h[k] = IF k = 0 THEN b ELSE g[<<k, h[k-1]>>]
    <3>1. CASE k = n + 1
      <4>1. k # 0 /\ k - 1 = n /\ n \in 0..n + 1 /\ n # n + 1
        BY <3>1
      <4>2. h[k-1] = f[n]
        BY <4>1
      <4>3. QED
        BY <3>1, <4>1, <4>2
    <3>2. CASE k # n + 1
      <4>1. k \in 0..n /\ h[k] = f[k] /\ (k # 0 => k - 1 \in 0..n /\ h[k-1] = f[k-1])
        BY <3>2
      <4>2. QED
        BY <4>1, <2>2
    <3>3. QED
      BY <3>1, <3>2
  <2> HIDE DEF h
  <2>5. Upto(n + 1, h)
    <3>1. DOMAIN h = 0..n + 1 /\ h = [k \in 0..n + 1 |-> h[k]]
      BY <2>3
    <3>2. h = [k \in 0..n + 1 |-> IF k = 0 THEN b ELSE g[<<k, h[k-1]>>]]
      BY <2>4, <3>1
    <3>3. QED
      BY <2>3, <3>2
  <2> HIDE DEF Upto
  <2>6. QED
    BY <2>2, <2>5
<1> HIDE DEF Upto, T
<1>3. 0..N \subseteq T
  BY <1>1, <1>2, UpTo
<1>4. PICK f : Upto(N, f)
  BY <1>3 DEF T
<1>5. QED
  BY <1>4 DEF Upto, IsRecursion

\* ... and every one of that definition is of that type.
StepsThrough(f, N, X, b, g) ==
    /\ f \in [0..N -> X]
    /\ f[0] = b
    /\ \A k \in 1..N : f[k] = g[<<k, f[k-1]>>]

\* Its values stay in X, and each comes from the one before.
LEMMA RecursionTyped ==
    ASSUME NEW N \in Nat, NEW X, NEW b \in X, NEW g \in [(1..N) \X X -> X],
           NEW f, IsRecursion(f, N, b, g)
    PROVE  StepsThrough(f, N, X, b, g)
<1> DEFINE T == {k \in 0..N : f[k] \in X}
<1>1. \A k \in 0..N : f[k] = IF k = 0 THEN b ELSE g[<<k, f[k-1]>>]
  <2>1. \A h : f = [k \in 0..N |-> h[k]] => \A k \in 0..N : f[k] = h[k]
    OBVIOUS
  <2> DEFINE h == [k \in 0..N |-> IF k = 0 THEN b ELSE g[<<k, f[k-1]>>]]
  <2>2. f = h
    BY DEF IsRecursion
  <2>3. \A k \in 0..N : h[k] = IF k = 0 THEN b ELSE g[<<k, f[k-1]>>]
    OBVIOUS
  <2> HIDE DEF h
  <2>4. QED
    BY <2>2, <2>3
<1>0. 0 \in 0..N /\ f[0] = b
  <2>1. 0 \in 0..N
    OBVIOUS
  <2> HIDE DEF T
  <2>2. f[0] = IF 0 = 0 THEN b ELSE g[<<0, f[0-1]>>]
    BY <1>1, <2>1
  <2>3. QED
    BY <2>1, <2>2
<1>2. 0 \in T
  BY <1>0
<1>3. ASSUME NEW n \in 0..N - 1, n \in T PROVE n + 1 \in T
  <2>1. n + 1 \in 1..N /\ n + 1 \in 0..N /\ n + 1 # 0 /\ (n + 1) - 1 = n /\ f[n] \in X
    BY <1>3
  <2>2. f[n + 1] = g[<<n + 1, f[n]>>]
    BY <1>1, <2>1
  <2>3. QED
    BY <2>1, <2>2
<1>4. 0..N \subseteq T
  <2> HIDE DEF T
  <2>1. QED
    BY <1>2, <1>3, UpTo
<1>5. \A k \in 0..N : f[k] \in X
  BY <1>4
<1>6. f = [k \in 0..N |-> f[k]]
  <2> DEFINE h == [k \in 0..N |-> IF k = 0 THEN b ELSE g[<<k, f[k-1]>>]]
  <2>1. f = h /\ h = [k \in 0..N |-> h[k]]
    BY DEF IsRecursion
  <2> HIDE DEF h
  <2>2. QED
    BY <2>1
<1>7. f \in [0..N -> X]
  BY <1>5, <1>6
<1>8. \A k \in 1..N : f[k] = g[<<k, f[k-1]>>]
  <2>1. \A k \in 1..N : k \in 0..N /\ k # 0
    OBVIOUS
  <2>2. QED
    BY <1>1, <2>1
<1>9. QED
  BY <1>0, <1>7, <1>8 DEF StepsThrough

\* There is such a function, with the type that follows.
LEMMA RecursionSteps ==
    ASSUME NEW N \in Nat, NEW X, NEW b \in X, NEW g \in [(1..N) \X X -> X]
    PROVE  \E f : StepsThrough(f, N, X, b, g)
<1>1. PICK f : IsRecursion(f, N, b, g)
  BY RecursionExists
<1>2. StepsThrough(f, N, X, b, g)
  BY <1>1, RecursionTyped
<1>3. QED
  BY <1>2

----------------------------------------------------------------------------
\* What repeats a step that adds elements until it adds none.

\* A step that adds elements of a finite set leaves less of it to add.
LEMMA LessIsLeft ==
    ASSUME NEW D, IsFiniteSet(D), NEW S \in SUBSET D, NEW T \in SUBSET D, S \subseteq T, S # T
    PROVE  /\ Cardinality(D \ S) \in Nat /\ Cardinality(D \ T) \in Nat
           /\ Cardinality(D \ T) < Cardinality(D \ S)
<1>1. D \ S \in SUBSET D /\ D \ T \in SUBSET (D \ S) /\ D \ T # D \ S
  OBVIOUS
<1>2. IsFiniteSet(D \ S)
  BY <1>1, FS_Subset
<1>3. QED
  BY <1>1, <1>2, FewerElements

\* f repeats g until it adds nothing.
IsClosure(f, D, g) == f = [S \in SUBSET D |-> IF g[S] = S THEN S ELSE f[g[S]]]

\* The function that repeats such a step until it adds nothing exists.
LEMMA ClosureExists ==
    ASSUME NEW D, IsFiniteSet(D), NEW g \in [SUBSET D -> SUBSET D], \A S \in SUBSET D : S \subseteq g[S]
    PROVE  \E f : IsClosure(f, D, g)
<1> DEFINE left == [S \in SUBSET D |-> Cardinality(D \ S)]
           Dom(n) == {S \in SUBSET D : left[S] <= n}
           Upto(n, f) == f = [S \in Dom(n) |-> IF g[S] = S THEN S ELSE f[g[S]]]
           N == Cardinality(D)
           T == {n \in 0..N : \E f : Upto(n, f)}
<1>0. N \in Nat
  BY FS_CardinalityType
<1>1. \A S \in SUBSET D : left[S] \in 0..N /\ (g[S] # S => left[g[S]] < left[S])
  <2>1. TAKE S \in SUBSET D
  <2>2. D \ S \in SUBSET D
    OBVIOUS
  <2>3. Cardinality(D \ S) \in Nat /\ Cardinality(D \ S) <= N
    BY <2>2, FS_Subset, FS_CardinalityType
  <2>4. g[S] \in SUBSET D /\ S \subseteq g[S]
    OBVIOUS
  <2>5. g[S] # S => Cardinality(D \ g[S]) < Cardinality(D \ S)
    BY <2>4, LessIsLeft
  <2> HIDE DEF N
  <2>6. QED
    BY <1>0, <2>3, <2>4, <2>5
<1> HIDE DEF left, N
<1>2. 0 \in T
  <2> DEFINE f == [S \in Dom(0) |-> S]
  <2>1. \A S \in Dom(0) : g[S] = S
    <3>1. TAKE S \in Dom(0)
    <3>2. S \in SUBSET D /\ left[S] <= 0 /\ g[S] \in SUBSET D
      OBVIOUS
    <3>3. left[S] \in 0..N /\ left[g[S]] \in 0..N /\ (g[S] # S => left[g[S]] < left[S])
      BY <1>1, <3>2
    <3>4. QED
      BY <3>2, <3>3
  <2>2. Upto(0, f)
    BY <2>1
  <2>4. 0 \in 0..N
    BY <1>0
  <2> HIDE DEF Upto, f
  <2>5. QED
    BY <2>2, <2>4
<1>3. ASSUME NEW n \in 0..N - 1, n \in T PROVE n + 1 \in T
  <2>0. n \in Nat /\ n + 1 \in 0..N
    BY <1>0
  <2>1. PICK f : Upto(n, f)
    BY <1>3
  <2> DEFINE h == [S \in Dom(n + 1) |-> IF g[S] = S THEN S ELSE f[g[S]]]
  <2>2. \A S \in Dom(n) : f[S] = IF g[S] = S THEN S ELSE f[g[S]]
    <3> DEFINE e == [S \in Dom(n) |-> IF g[S] = S THEN S ELSE f[g[S]]]
    <3>1. f = e /\ \A S \in Dom(n) : e[S] = IF g[S] = S THEN S ELSE f[g[S]]
      BY <2>1
    <3> HIDE DEF e, Upto
    <3>2. QED
      BY <3>1
  <2>3. ASSUME NEW S \in Dom(n + 1), g[S] # S
        PROVE  g[S] \in Dom(n)
    <3>1. S \in SUBSET D /\ left[S] <= n + 1 /\ g[S] \in SUBSET D
      OBVIOUS
    <3>2. left[S] \in 0..N /\ left[g[S]] \in 0..N /\ left[g[S]] < left[S]
      BY <1>1, <2>3, <3>1
    <3>3. left[g[S]] <= n
      BY <1>0, <2>0, <3>1, <3>2
    <3>4. QED
      BY <3>1, <3>3
  <2>4. \A S \in Dom(n) : S \in Dom(n + 1) /\ h[S] = f[S]
    <3>1. TAKE S \in Dom(n)
    <3>2. S \in SUBSET D /\ left[S] <= n /\ left[S] \in 0..N
      BY <1>1
    <3>3. S \in Dom(n + 1)
      BY <1>0, <2>0, <3>2
    <3> HIDE DEF Dom
    <3>4. QED
      BY <2>2, <3>3
  <2>5. \A S \in Dom(n + 1) : g[S] # S => h[g[S]] = f[g[S]]
    <3> HIDE DEF h, Dom
    <3>1. QED
      BY <2>3, <2>4
  <2>6. Upto(n + 1, h)
    <3>1. h = [S \in Dom(n + 1) |-> IF g[S] = S THEN S ELSE f[g[S]]]
      OBVIOUS
    <3> HIDE DEF h, Dom
    <3>2. \A S \in Dom(n + 1) : (IF g[S] = S THEN S ELSE f[g[S]]) = IF g[S] = S THEN S ELSE h[g[S]]
      BY <2>5
    <3>3. QED
      BY <3>1, <3>2
  <2> HIDE DEF Upto, h
  <2>7. QED
    BY <2>0, <2>6
<1>4. \E f : Upto(N, f)
  <2> HIDE DEF Upto
  <2>1. 0..N \subseteq T
    <3> HIDE DEF T
    <3>1. QED
      BY <1>0, <1>2, <1>3, UpTo
  <2>2. N \in 0..N
    BY <1>0
  <2>3. QED
    BY <2>1, <2>2
<1>5. Dom(N) = SUBSET D
  <2>1. \A S \in SUBSET D : left[S] <= N
    BY <1>0, <1>1
  <2>2. QED
    BY <2>1
<1> HIDE DEF Dom
<1>6. QED
  BY <1>4, <1>5 DEF IsClosure

\* It returns the least closed superset.
LEMMA ClosureIsLeast ==
    ASSUME NEW D, IsFiniteSet(D), NEW g \in [SUBSET D -> SUBSET D], \A S \in SUBSET D : S \subseteq g[S],
           NEW f, IsClosure(f, D, g),
           NEW S \in SUBSET D
    PROVE  /\ f[S] \in SUBSET D /\ S \subseteq f[S] /\ g[f[S]] = f[S]
           /\ \A P \in SUBSET D : S \subseteq P /\ (\A R \in SUBSET P : g[R] \subseteq P) => f[S] \subseteq P
<1> DEFINE left == [R \in SUBSET D |-> Cardinality(D \ R)]
           Fine(R) == /\ f[R] \in SUBSET D /\ R \subseteq f[R] /\ g[f[R]] = f[R]
                      /\ \A P \in SUBSET D : R \subseteq P /\ (\A Q \in SUBSET P : g[Q] \subseteq P) => f[R] \subseteq P
           Bad == {R \in SUBSET D : ~Fine(R)}
           Sizes == {left[R] : R \in Bad}
<1>1. \A R \in SUBSET D : f[R] = IF g[R] = R THEN R ELSE f[g[R]]
  <2> DEFINE e == [R \in SUBSET D |-> IF g[R] = R THEN R ELSE f[g[R]]]
  <2>1. f = e /\ \A R \in SUBSET D : e[R] = IF g[R] = R THEN R ELSE f[g[R]]
    BY DEF IsClosure
  <2> HIDE DEF e
  <2>2. QED
    BY <2>1
<1>8. \A R \in SUBSET D : left[R] \in Nat /\ (g[R] # R => left[g[R]] < left[R])
  <2>1. TAKE R \in SUBSET D
  <2>2. D \ R \in SUBSET D /\ g[R] \in SUBSET D /\ R \subseteq g[R]
    OBVIOUS
  <2>3. Cardinality(D \ R) \in Nat
    BY <2>2, FS_Subset, FS_CardinalityType
  <2>4. g[R] # R => Cardinality(D \ g[R]) < Cardinality(D \ R)
    BY <2>2, LessIsLeft
  <2>5. QED
    BY <2>2, <2>3, <2>4
<1> HIDE DEF left
<1> SUFFICES Bad = {}
  OBVIOUS
<1> SUFFICES ASSUME Bad # {} PROVE FALSE
  OBVIOUS
<1>2. PICK n \in Sizes : \A m \in Sizes : n <= m
  <2>1. Bad \in SUBSET (SUBSET D)
    OBVIOUS
  <2> HIDE DEF Bad
  <2>2. Sizes \in SUBSET Nat /\ Sizes # {}
    BY <1>8, <2>1
  <2> HIDE DEF Sizes
  <2>3. QED
    BY <2>2, LeastNat
<1>3. PICK R \in Bad : n = left[R]
  <2> HIDE DEF Bad
  <2>1. QED
    BY <1>2
<1>4. R \in SUBSET D /\ g[R] \in SUBSET D /\ R \subseteq g[R] /\ ~Fine(R)
  OBVIOUS
<1>5. CASE g[R] = R
  <2>1. f[R] = R
    BY <1>1, <1>4, <1>5
  <2>2. Fine(R)
    BY <1>4, <1>5, <2>1
  <2>3. QED
    BY <2>2, <1>4
<1>6. CASE g[R] # R
  <2>1. f[R] = f[g[R]]
    BY <1>1, <1>4, <1>6
  <2>2. left[g[R]] < left[R] /\ left[R] \in Nat /\ left[g[R]] \in Nat
    BY <1>4, <1>6, <1>8
  <2>3. Fine(g[R])
    <3>1. g[R] \notin Bad
      <4> HIDE DEF Bad
      <4>1. g[R] \in Bad => left[R] <= left[g[R]]
        BY <1>2, <1>3
      <4>2. QED
        BY <4>1, <2>2
    <3> HIDE DEF Fine
    <3>2. QED
      BY <3>1, <1>4
  <2>4. \A P \in SUBSET D : R \subseteq P /\ (\A Q \in SUBSET P : g[Q] \subseteq P) => f[R] \subseteq P
    <3>1. TAKE P \in SUBSET D
    <3>2. HAVE R \subseteq P /\ (\A Q \in SUBSET P : g[Q] \subseteq P)
    <3>3. g[R] \subseteq P
      BY <3>2
    <3>4. f[g[R]] \subseteq P
      BY <2>3, <3>2, <3>3
    <3>5. QED
      BY <2>1, <3>4
  <2>5. Fine(R)
    BY <1>4, <2>1, <2>3, <2>4
  <2>6. QED
    BY <2>5, <1>4
<1>7. QED
  BY <1>5, <1>6

----------------------------------------------------------------------------
\* Small sets, and parities.

\* How many elements small sets have.
LEMMA SmallSets ==
    /\ Cardinality({}) = 0 /\ IsFiniteSet({})
    /\ \A a : Cardinality({a}) = 1 /\ IsFiniteSet({a})
    /\ \A a, b : IsFiniteSet({a, b}) /\ Cardinality({a, b}) \in Nat /\ Cardinality({a, b}) <= 2
                   /\ (a # b => Cardinality({a, b}) = 2)
    /\ \A a, b, c : IsFiniteSet({a, b, c}) /\ Cardinality({a, b, c}) \in Nat /\ Cardinality({a, b, c}) <= 3
                      /\ (a # b /\ a # c /\ b # c => Cardinality({a, b, c}) = 3)
<1>1. Cardinality({}) = 0 /\ IsFiniteSet({})
  BY FS_EmptySet
<1>2. \A a : Cardinality({a}) = 1 /\ IsFiniteSet({a})
  BY FS_Singleton
<1>3. ASSUME NEW a, NEW b
      PROVE  IsFiniteSet({a, b}) /\ Cardinality({a, b}) \in Nat /\ Cardinality({a, b}) <= 2
                   /\ (a # b => Cardinality({a, b}) = 2)
  <2>1. {a, b} = {a} \cup {b}
    OBVIOUS
  <2>2. IsFiniteSet({a} \cup {b}) /\ Cardinality({a} \cup {b}) = IF b \in {a} THEN Cardinality({a}) ELSE Cardinality({a}) + 1
    BY <1>2, FS_AddElement
  <2>3. Cardinality({a}) = 1 /\ (b \in {a} <=> a = b)
    BY <1>2
  <2>4. QED
    BY <2>1, <2>2, <2>3
<1>4. ASSUME NEW a, NEW b, NEW c
      PROVE  IsFiniteSet({a, b, c}) /\ Cardinality({a, b, c}) \in Nat /\ Cardinality({a, b, c}) <= 3
                   /\ (a # b /\ a # c /\ b # c => Cardinality({a, b, c}) = 3)
  <2> DEFINE S == {a, b}
  <2>1. {a, b, c} = S \cup {c} /\ (c \in S <=> c = a \/ c = b)
    OBVIOUS
  <2>2. IsFiniteSet(S) /\ Cardinality(S) \in Nat /\ Cardinality(S) <= 2 /\ (a # b => Cardinality(S) = 2)
    BY <1>3
  <2> HIDE DEF S
  <2>3. IsFiniteSet(S \cup {c}) /\ Cardinality(S \cup {c}) = IF c \in S THEN Cardinality(S) ELSE Cardinality(S) + 1
    BY <2>2, FS_AddElement
  <2>4. QED
    BY <2>1, <2>2, <2>3
<1>5. QED
  BY <1>1, <1>2, <1>3, <1>4

\* Two elements at least.
LEMMA TwoElements ==
    ASSUME NEW S, IsFiniteSet(S), NEW x \in S, NEW y \in S, x # y
    PROVE  Cardinality(S) > 1
<1>1. IsFiniteSet({x}) /\ Cardinality({x}) = 1
  BY FS_Singleton
<1>2. IsFiniteSet({x} \cup {y}) /\ Cardinality({x} \cup {y}) = 2
  <2>1. y \notin {x}
    OBVIOUS
  <2> DEFINE X == {x}
  <2>2. y \notin X /\ IsFiniteSet(X) /\ Cardinality(X) = 1
    BY <1>1, <2>1
  <2> HIDE DEF X
  <2>3. IsFiniteSet(X \cup {y}) /\ Cardinality(X \cup {y}) = 2
    BY <2>2, FS_AddElement
  <2>4. QED
    BY <2>3 DEF X
<1>3. {x} \cup {y} \in SUBSET S
  OBVIOUS
<1> DEFINE Y == {x} \cup {y}
<1>4. Y \in SUBSET S /\ Cardinality(Y) = 2
  BY <1>2, <1>3
<1> HIDE DEF Y
<1>5. Cardinality(Y) <= Cardinality(S) /\ Cardinality(S) \in Nat
  BY <1>4, FS_Subset, FS_CardinalityType
<1>6. QED
  BY <1>4, <1>5

\* Max of the community modules is the greatest element, if there is a bound.
LEMMA MaxIsGreatest ==
    ASSUME NEW N \in Nat, NEW S \in SUBSET (0..N), S # {}
    PROVE  Max(S) \in S /\ \A y \in S : y <= Max(S)
<1> DEFINE T == {N - x : x \in S}
<1>1. T \in SUBSET Nat /\ T # {}
  <2>1. \A x \in S : N - x \in Nat
    OBVIOUS
  <2>2. \E x \in S : N - x \in T
    OBVIOUS
  <2>3. QED
    BY <2>1, <2>2
<1>2. PICK m \in T : \A k \in T : m <= k
  BY <1>1, LeastNat
<1>3. PICK x \in S : m = N - x
  BY <1>2
<1>4. \A y \in S : x >= y
  <2>1. TAKE y \in S
  <2>2. m <= N - y /\ x \in 0..N /\ y \in 0..N
    BY <1>2
  <2>3. QED
    BY <1>3, <2>2
<1>5. Max(S) \in S /\ \A y \in S : Max(S) >= y
  BY <1>4 DEF Max
<1>6. QED
  BY <1>5

\* Three different elements are three.
LEMMA ThreeCount ==
    ASSUME NEW a, NEW b, NEW c, a # b, a # c, b # c
    PROVE  Cardinality({a, b, c}) = 3
<1> DEFINE S == {a, b}
<1>1. {a, b, c} = S \cup {c} /\ c \notin S
  OBVIOUS
<1>2. IsFiniteSet(S) /\ Cardinality(S) = 2
  BY SmallSets
<1> HIDE DEF S
<1>3. Cardinality(S \cup {c}) = Cardinality(S) + 1
  BY <1>1, <1>2, FS_AddElement
<1>4. QED
  BY <1>1, <1>2, <1>3

\* A set of three elements.
LEMMA ThreeElements ==
    ASSUME NEW S, IsFiniteSet(S), Cardinality(S) = 3
    PROVE  \E a, b, c : S = {a, b, c} /\ a # b /\ a # c /\ b # c
<1>1. S # {}
  BY FS_EmptySet
<1>2. PICK a \in S : TRUE
  BY <1>1
<1>3. IsFiniteSet(S \ {a}) /\ Cardinality(S \ {a}) = 2
  BY <1>2, FS_RemoveElement
<1>4. S \ {a} # {}
  BY <1>3, FS_EmptySet
<1>5. PICK b \in S \ {a} : TRUE
  BY <1>4
<1>6. IsFiniteSet((S \ {a}) \ {b}) /\ Cardinality((S \ {a}) \ {b}) = 1
  BY <1>3, <1>5, FS_RemoveElement
<1>7. PICK c : (S \ {a}) \ {b} = {c}
  BY <1>6, FS_Singleton
<1>8. S = {a, b, c} /\ a # b /\ a # c /\ b # c
  BY <1>2, <1>5, <1>7
<1>9. QED
  BY <1>8

\* Membership and sign as a bit.
In(x, S) == IF x \in S THEN 1 ELSE 0

\* How many of three are in S.
CountedThree(S, x, y, z) == Cardinality(S) = In(x, S) + In(y, S) + In(z, S)

\* How many of three numbers have a property: as a set of them that have it.
LEMMA BitsCount ==
    ASSUME NEW x, NEW y, NEW z, x # y, x # z, y # z, NEW S \in SUBSET {x, y, z}
    PROVE  CountedThree(S, x, y, z)
<1> DEFINE p == In(x, S)
           q == In(y, S)
           r == In(z, S)
           k == Cardinality(S)
<1>0. /\ (x \in S => p = 1) /\ (x \notin S => p = 0)
      /\ (y \in S => q = 1) /\ (y \notin S => q = 0)
      /\ (z \in S => r = 1) /\ (z \notin S => r = 0)
  BY DEF In
<1> HIDE DEF p, q, r, k
<1>1. k = p + q + r
  <2>1. CASE x \in S /\ y \in S /\ z \in S
    <3>1. S = {x, y, z}
      BY <2>1
    <3>2. Cardinality({x, y, z}) = 3
      BY ThreeCount
    <3>3. k = 3
      BY <3>1, <3>2 DEF k
    <3>4. p = 1 /\ q = 1 /\ r = 1
      BY <1>0, <2>1
    <3>5. QED
      BY <3>3, <3>4
  <2>2. CASE x \in S /\ y \in S /\ z \notin S
    <3>1. S = {x, y}
      BY <2>2
    <3>2. Cardinality({x, y}) = 2
      BY SmallSets
    <3>3. k = 2
      BY <3>1, <3>2 DEF k
    <3>4. p = 1 /\ q = 1 /\ r = 0
      BY <1>0, <2>2
    <3>5. QED
      BY <3>3, <3>4
  <2>3. CASE x \in S /\ y \notin S /\ z \in S
    <3>1. S = {x, z}
      BY <2>3
    <3>2. Cardinality({x, z}) = 2
      BY SmallSets
    <3>3. k = 2
      BY <3>1, <3>2 DEF k
    <3>4. p = 1 /\ q = 0 /\ r = 1
      BY <1>0, <2>3
    <3>5. QED
      BY <3>3, <3>4
  <2>4. CASE x \in S /\ y \notin S /\ z \notin S
    <3>1. S = {x}
      BY <2>4
    <3>2. Cardinality({x}) = 1
      BY SmallSets
    <3>3. k = 1
      BY <3>1, <3>2 DEF k
    <3>4. p = 1 /\ q = 0 /\ r = 0
      BY <1>0, <2>4
    <3>5. QED
      BY <3>3, <3>4
  <2>5. CASE x \notin S /\ y \in S /\ z \in S
    <3>1. S = {y, z}
      BY <2>5
    <3>2. Cardinality({y, z}) = 2
      BY SmallSets
    <3>3. k = 2
      BY <3>1, <3>2 DEF k
    <3>4. p = 0 /\ q = 1 /\ r = 1
      BY <1>0, <2>5
    <3>5. QED
      BY <3>3, <3>4
  <2>6. CASE x \notin S /\ y \in S /\ z \notin S
    <3>1. S = {y}
      BY <2>6
    <3>2. Cardinality({y}) = 1
      BY SmallSets
    <3>3. k = 1
      BY <3>1, <3>2 DEF k
    <3>4. p = 0 /\ q = 1 /\ r = 0
      BY <1>0, <2>6
    <3>5. QED
      BY <3>3, <3>4
  <2>7. CASE x \notin S /\ y \notin S /\ z \in S
    <3>1. S = {z}
      BY <2>7
    <3>2. Cardinality({z}) = 1
      BY SmallSets
    <3>3. k = 1
      BY <3>1, <3>2 DEF k
    <3>4. p = 0 /\ q = 0 /\ r = 1
      BY <1>0, <2>7
    <3>5. QED
      BY <3>3, <3>4
  <2>8. CASE x \notin S /\ y \notin S /\ z \notin S
    <3>1. S = {}
      BY <2>8
    <3>2. Cardinality({}) = 0
      BY SmallSets
    <3>3. k = 0
      BY <3>1, <3>2 DEF k
    <3>4. p = 0 /\ q = 0 /\ r = 0
      BY <1>0, <2>8
    <3>5. QED
      BY <3>3, <3>4
  <2>9. QED
    BY <2>1, <2>2, <2>3, <2>4, <2>5, <2>6, <2>7, <2>8
<1>2. QED
  BY <1>1 DEF p, q, r, k, CountedThree

\* What is in one of two sets but not in both.
LEMMA ParityAdds ==
    ASSUME NEW X, IsFiniteSet(X), NEW Y, IsFiniteSet(Y), NEW Z, Z = (X \ Y) \cup (Y \ X)
    PROVE  /\ IsFiniteSet(Z) /\ Cardinality(X) \in Nat /\ Cardinality(Y) \in Nat /\ Cardinality(Z) \in Nat
           /\ Cardinality(Z) % 2 = (Cardinality(X) + Cardinality(Y)) % 2
<1> DEFINE a == Cardinality(X)
           b == Cardinality(Y)
           i == Cardinality(X \cap Y)
           u == Cardinality(X \cup Y)
           z == Cardinality(Z)
<1>1. IsFiniteSet(X \cup Y) /\ u = a + b - i
  BY FS_Union
<1>2. IsFiniteSet(X \cap Y)
  BY FS_Intersection
<1>3. Z = (X \cup Y) \ (X \cap Y) /\ (X \cup Y) \cap (X \cap Y) = X \cap Y
  OBVIOUS
<1>4. IsFiniteSet(Z) /\ z = u - i
  BY <1>1, <1>3, FS_Difference
<1>5. a \in Nat /\ b \in Nat /\ i \in Nat /\ z \in Nat /\ u \in Nat
  BY <1>1, <1>2, <1>4, FS_CardinalityType
<1> HIDE DEF a, b, i, u, z
<1>6. z % 2 = (a + b) % 2
  <2>1. z + 2 * i = a + b
    BY <1>1, <1>4, <1>5
  <2>2. (z + 2 * i) % 2 = z % 2
    BY <1>5
  <2>3. QED
    BY <2>1, <2>2
<1>7. QED
  BY <1>4, <1>5, <1>6 DEF a, b, z

----------------------------------------------------------------------------
\* Sequences one after the other.

\* Two sequences one after the other.
LEMMA ConcatShape ==
    ASSUME NEW T, NEW s \in Seq(T), NEW t \in Seq(T)
    PROVE  /\ s \o t \in Seq(T)
           /\ Len(s) \in Nat /\ Len(t) \in Nat /\ Len(s \o t) = Len(s) + Len(t)
           /\ s \o t = [i \in 1..Len(s) + Len(t) |-> IF i <= Len(s) THEN s[i] ELSE t[i - Len(s)]]
<1>1. s \o t \in Seq(T) /\ Len(s) \in Nat /\ Len(t) \in Nat /\ Len(s \o t) = Len(s) + Len(t)
  OBVIOUS
<1>2. \A i \in 1..Len(s) + Len(t) : (s \o t)[i] = IF i <= Len(s) THEN s[i] ELSE t[i - Len(s)]
  OBVIOUS
<1>3. \A q \in Seq(T) : q = [i \in 1..Len(q) |-> q[i]]
  <2>1. TAKE q \in Seq(T)
  <2>2. q \in [1..Len(q) -> T]
    BY LenProperties
  <2>3. QED
    BY <2>2
<1>4. QED
  <2> DEFINE u == s \o t
  <2> HIDE DEF u
  <2>1. u = [i \in 1..Len(u) |-> u[i]]
    BY <1>1, <1>3 DEF u
  <2>2. Len(u) = Len(s) + Len(t)
    BY <1>1 DEF u
  <2>3. \A i \in 1..Len(u) : u[i] = IF i <= Len(s) THEN s[i] ELSE t[i - Len(s)]
    BY <1>2, <2>2 DEF u
  <2>4. u = [i \in 1..Len(s) + Len(t) |-> IF i <= Len(s) THEN s[i] ELSE t[i - Len(s)]]
    BY <2>1, <2>2, <2>3
  <2>5. QED
    BY <1>1, <2>4 DEF u

\* Two lists without common members, one after the other.
LEMMA DisjointJoin ==
    ASSUME NEW T, NEW s \in Seq(T), NEW t \in Seq(T), IsInjective(s), IsInjective(t), Range(s) \cap Range(t) = {}
    PROVE  s \o t \in Seq(T) /\ IsInjective(s \o t) /\ Range(s \o t) = Range(s) \cup Range(t)
<1> DEFINE u == s \o t
           M == Len(s)
           N == Len(t)
<1>1. /\ u \in Seq(T) /\ M \in Nat /\ N \in Nat
      /\ u = [i \in 1..M + N |-> IF i <= M THEN s[i] ELSE t[i - M]]
      /\ DOMAIN s = 1..M /\ DOMAIN t = 1..N
  BY ConcatShape
<1> HIDE DEF u, M, N
<1>2. DOMAIN u = 1..M + N /\ \A i \in 1..M + N : u[i] = IF i <= M THEN s[i] ELSE t[i - M]
  BY <1>1
<1>3. \A i \in 1..M + N : (i <= M => i \in 1..M) /\ (~(i <= M) => i - M \in 1..N)
  BY <1>1
<1>4. \A i \in 1..M : s[i] \in Range(s)
  BY <1>1 DEF Range
<1>5. \A i \in 1..N : t[i] \in Range(t)
  BY <1>1 DEF Range
<1>6. IsInjective(u)
  <2>1. ASSUME NEW i \in 1..M + N, NEW j \in 1..M + N, u[i] = u[j] PROVE i = j
    <3>1. CASE i <= M /\ j <= M
      BY <1>1, <1>2, <1>3, <2>1, <3>1 DEF IsInjective
    <3>2. CASE i <= M /\ ~(j <= M)
      BY <1>2, <1>3, <1>4, <1>5, <2>1, <3>2
    <3>3. CASE ~(i <= M) /\ j <= M
      BY <1>2, <1>3, <1>4, <1>5, <2>1, <3>3
    <3>4. CASE ~(i <= M) /\ ~(j <= M)
      <4>1. i - M = j - M
        BY <1>1, <1>2, <1>3, <2>1, <3>4 DEF IsInjective
      <4>2. QED
        BY <1>1, <4>1
    <3>5. QED
      BY <3>1, <3>2, <3>3, <3>4
  <2>2. QED
    BY <1>2, <2>1 DEF IsInjective
<1>7. Range(u) = Range(s) \cup Range(t)
  <2>1. Range(u) \subseteq Range(s) \cup Range(t)
    BY <1>2, <1>3, <1>4, <1>5 DEF Range
  <2>2. Range(s) \subseteq Range(u)
    <3>1. \A i \in 1..M : i \in 1..M + N /\ i <= M
      BY <1>1
    <3>2. \A i \in 1..M : s[i] = u[i] /\ i \in DOMAIN u
      BY <1>2, <3>1
    <3>3. QED
      BY <1>1, <3>2 DEF Range
  <2>3. Range(t) \subseteq Range(u)
    <3>1. \A i \in 1..N : M + i \in 1..M + N /\ ~(M + i <= M) /\ (M + i) - M = i
      BY <1>1
    <3>2. \A i \in 1..N : t[i] = u[M + i] /\ M + i \in DOMAIN u
      BY <1>2, <3>1
    <3>3. \A i \in 1..N : t[i] \in Range(u)
      BY <3>2 DEF Range
    <3>4. QED
      BY <1>1, <3>3 DEF Range
  <2>4. QED
    BY <2>1, <2>2, <2>3
<1>8. QED
  BY <1>1, <1>6, <1>7 DEF u

\* The members of two sequences one after the other.
LEMMA RangeJoined ==
    ASSUME NEW T, NEW s \in Seq(T), NEW t \in Seq(T)
    PROVE  Range(s \o t) = Range(s) \cup Range(t)
<1> DEFINE m == Len(s)
           k == Len(t)
           q == s \o t
<1>1. m \in Nat /\ k \in Nat /\ q = [i \in 1..m + k |-> IF i <= m THEN s[i] ELSE t[i - m]]
  BY ConcatShape
<1>2. DOMAIN s = 1..m /\ DOMAIN t = 1..k
  OBVIOUS
<1> HIDE DEF q, m, k
<1>3. ASSUME NEW x \in Range(q) PROVE x \in Range(s) \cup Range(t)
  <2>1. PICK i \in 1..m + k : x = q[i]
    BY <1>1, <1>3 DEF Range
  <2>2. CASE i <= m
    <3>1. i \in 1..m /\ x = s[i]
      BY <1>1, <2>1, <2>2
    <3>2. QED
      BY <1>2, <3>1 DEF Range
  <2>3. CASE ~(i <= m)
    <3>1. i - m \in 1..k
      BY <1>1, <2>1, <2>3
    <3>2. x = t[i - m]
      BY <1>1, <2>1, <2>3
    <3>3. QED
      BY <1>2, <3>1, <3>2 DEF Range
  <2>4. QED
    BY <2>2, <2>3
<1>4. ASSUME NEW x \in Range(s) PROVE x \in Range(q)
  <2>1. PICK i \in 1..m : x = s[i]
    BY <1>2, <1>4 DEF Range
  <2>2. i \in 1..m + k /\ i <= m
    BY <1>1
  <2>3. q[i] = x /\ i \in DOMAIN q
    BY <1>1, <2>1, <2>2
  <2>4. QED
    BY <2>3 DEF Range
<1>5. ASSUME NEW x \in Range(t) PROVE x \in Range(q)
  <2>1. PICK i \in 1..k : x = t[i]
    BY <1>2, <1>5 DEF Range
  <2>2. m + i \in 1..m + k /\ ~(m + i <= m) /\ (m + i) - m = i
    BY <1>1
  <2>3. q[m + i] = x /\ m + i \in DOMAIN q
    BY <1>1, <2>1, <2>2
  <2>4. QED
    BY <2>3 DEF Range
<1>6. QED
  BY <1>3, <1>4, <1>5 DEF q
=============================================================================
