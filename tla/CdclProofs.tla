---------------------------- MODULE CdclProofs -----------------------------
(***************************************************************************)
(* The solver of the experiment is type correct, misses no consequence,    *)
(* keeps its trail justified and answers rightly, for every formula, hook  *)
(* and choice of decisions.                                                *)
(***************************************************************************)
EXTENDS Cdcl, OrderLemmas, SequenceTheorems

----------------------------------------------------------------------------
\* Numbers in order, and what is selected by them.

\* Ascending lists each number of a finite set once, smaller ones first.
LEMMA AscendingLists ==
    ASSUME NEW S \in SUBSET Int, IsFiniteSet(S)
    PROVE  /\ Ascending(S) \in [1..Cardinality(S) -> S]
           /\ Cardinality(S) \in Nat
           /\ \A i, j \in 1..Cardinality(S) : i # j => Ascending(S)[i] # Ascending(S)[j]
           /\ \A x \in S : \E i \in 1..Cardinality(S) : Ascending(S)[i] = x
<1> DEFINE Below(i) == Cardinality({j \in S : j < i})
           n == Cardinality(S)
           q == Ascending(S)
<1>1. n \in Nat
  BY FS_CardinalityType
<1>2. \A i \in S : Below(i) \in 0..n - 1 /\ \A k \in S : Below(k) = Below(i) => k = i
  BY BelowTells
<1>3. \A m \in 0..n - 1 : \E i \in S : Below(i) = m
  BY CountBelow
<1>4. q = [k \in 1..n |-> CHOOSE i \in S : Below(i) = k - 1]
  BY DEF Ascending
<1> HIDE DEF Below, n, q
<1>5. \A k \in 1..n : q[k] \in S /\ Below(q[k]) = k - 1
  <2>1. TAKE k \in 1..n
  <2>2. k - 1 \in 0..n - 1
    BY <1>1
  <2>3. \E i \in S : Below(i) = k - 1
    BY <1>3, <2>2
  <2>4. QED
    BY <1>4, <2>3
<1>6. q \in [1..n -> S]
  BY <1>4, <1>5
<1>7. \A i, j \in 1..n : i # j => q[i] # q[j]
  BY <1>5, <1>1
<1>8. ASSUME NEW x \in S PROVE \E i \in 1..n : q[i] = x
  <2>1. Below(x) \in 0..n - 1 /\ Below(x) + 1 \in 1..n /\ (Below(x) + 1) - 1 = Below(x)
    BY <1>1, <1>2
  <2>2. Below(q[Below(x) + 1]) = Below(x) /\ q[Below(x) + 1] \in S
    BY <1>5, <2>1
  <2>3. q[Below(x) + 1] = x
    BY <1>2, <2>2
  <2>4. QED
    BY <2>1, <2>3
<1>9. QED
  BY <1>1, <1>6, <1>7, <1>8 DEF n, q

\* What is selected from a sequence are its entries at the places given.
LEMMA SelectLists ==
    ASSUME NEW T, NEW s \in Seq(T), NEW S \in SUBSET DOMAIN s
    PROVE  /\ Select(s, S) \in Seq(T)
           /\ Len(Select(s, S)) = Cardinality(S)
           /\ IsFiniteSet(S) /\ Cardinality(S) \in Nat
           /\ \A k \in 1..Cardinality(S) : \E i \in S : Select(s, S)[k] = s[i]
           /\ \A i \in S : \E k \in 1..Cardinality(S) : Select(s, S)[k] = s[i]
           /\ \A j, k \in 1..Cardinality(S) : j # k =>
                 \E h, i \in S : h # i /\ Select(s, S)[j] = s[h] /\ Select(s, S)[k] = s[i]
<1>1. DOMAIN s = 1..Len(s) /\ Len(s) \in Nat /\ \A i \in DOMAIN s : s[i] \in T
  OBVIOUS
<1>2. IsFiniteSet(S)
  <2>1. 1 \in Int /\ Len(s) \in Int
    BY <1>1
  <2>2. IsFiniteSet(1..Len(s))
    BY <2>1, FS_Interval
  <2>3. S \in SUBSET (1..Len(s))
    BY <1>1
  <2>4. QED
    BY <2>2, <2>3, FS_Subset
<1>3. S \in SUBSET Int
  BY <1>1
<1> DEFINE q == Ascending(S)
           n == Cardinality(S)
<1>4. /\ q \in [1..n -> S] /\ n \in Nat
      /\ \A x \in S : \E i \in 1..n : q[i] = x
      /\ \A i, j \in 1..n : i # j => q[i] # q[j]
  BY <1>2, <1>3, AscendingLists
<1>5. Select(s, S) = [k \in DOMAIN q |-> s[q[k]]]
  BY DEF Select
<1> HIDE DEF q, n
<1>6. Select(s, S) = [k \in 1..n |-> s[q[k]]] /\ Select(s, S) \in [1..n -> T]
  BY <1>1, <1>4, <1>5
<1>7. Select(s, S) \in Seq(T) /\ Len(Select(s, S)) = n
  BY <1>4, <1>6, IsASeq
<1>8. \A k \in 1..n : \E i \in S : Select(s, S)[k] = s[i]
  BY <1>4, <1>6
<1>9. \A i \in S : \E k \in 1..n : Select(s, S)[k] = s[i]
  BY <1>4, <1>6
<1>10. ASSUME NEW j \in 1..n, NEW k \in 1..n, j # k
       PROVE  \E h, i \in S : h # i /\ Select(s, S)[j] = s[h] /\ Select(s, S)[k] = s[i]
  <2>1. q[j] \in S /\ q[k] \in S /\ q[j] # q[k]
    BY <1>4, <1>10
  <2>2. Select(s, S)[j] = s[q[j]] /\ Select(s, S)[k] = s[q[k]]
    BY <1>6
  <2>3. QED
    BY <2>1, <2>2
<1>11. QED
  BY <1>2, <1>4, <1>7, <1>8, <1>9, <1>10 DEF n
----------------------------------------------------------------------------
\* Clauses as sets and as tuples.

\* The literals of n variables.
LEMMA LiteralsFinite ==
    ASSUME NEW n \in Nat
    PROVE  /\ IsFiniteSet(Literals(n))
           /\ Literals(n) \in SUBSET (Int \ {0})
           /\ \A l \in Literals(n) : -l \in Literals(n) /\ Var(l) \in 1..n /\ Var(-l) = Var(l)
           /\ \A l \in Int : Var(l) \in 1..n => l \in Literals(n)
<1>1. -n \in Int /\ n \in Int
  OBVIOUS
<1>2. IsFiniteSet(-n..n)
  BY <1>1, FS_Interval
<1>3. Literals(n) \in SUBSET (-n..n)
  BY DEF Literals
<1>4. IsFiniteSet(Literals(n))
  BY <1>2, <1>3, FS_Subset
<1>5. QED
  BY <1>4 DEF Literals, Var

\* The tuple of a clause has each of its literals once.
LEMMA TupleIsAll ==
    ASSUME NEW c \in SUBSET (Int \ {0}), IsFiniteSet(c)
    PROVE  /\ Tuple(c) \in Seq(c)
           /\ Range(Tuple(c)) = c
           /\ Len(Tuple(c)) = Cardinality(c) /\ Cardinality(c) \in Nat
           /\ \A i, j \in 1..Len(Tuple(c)) : i # j => Tuple(c)[i] # Tuple(c)[j]
<1> DEFINE V == {Key(l) : l \in c}
           f == [l \in c |-> Key(l)]
           q == Ascending(V)
           n == Cardinality(V)
           t == Tuple(c)
<1>1. \A l, m \in Int \ {0} : Key(l) \in Int /\ (Key(l) = Key(m) => l = m)
  BY DEF Key
<1>2. V \in SUBSET Int
  BY <1>1
<1>3. f \in Bijection(c, V)
  <2>1. f \in [c -> V] /\ \A v \in V : \E l \in c : f[l] = v
    OBVIOUS
  <2>2. \A l, m \in c : f[l] = f[m] => l = m
    BY <1>1
  <2>3. QED
    BY <2>1, <2>2 DEF Bijection, Injection, Surjection, IsInjective
<1>4. IsFiniteSet(V) /\ n = Cardinality(c)
  <2>1. IsFiniteSet(V) /\ ExistsBijection(c, V)
    BY <1>3, FS_Bijection DEF ExistsBijection
  <2>2. QED
    BY <1>3, FS_Bijection DEF ExistsBijection
<1>5. /\ q \in [1..n -> V] /\ n \in Nat
      /\ \A i, j \in 1..n : i # j => q[i] # q[j]
      /\ \A x \in V : \E i \in 1..n : q[i] = x
  <2> HIDE DEF V
  <2>1. QED
    BY <1>2, <1>4, AscendingLists
<1>6. t = [i \in DOMAIN q |-> CHOOSE l \in c : Key(l) = q[i]]
  BY DEF Tuple
<1>7. \A v \in V : \E l \in c : Key(l) = v
  OBVIOUS
<1>8. \A l \in c : Key(l) \in V /\ l \in Int \ {0}
  OBVIOUS
<1> HIDE DEF V, q, n, t, f
<1>9. \A i \in 1..n : t[i] \in c /\ Key(t[i]) = q[i]
  BY <1>5, <1>6, <1>7
<1>10. t \in [1..n -> c]
  BY <1>5, <1>6, <1>9
<1>11. t \in Seq(c) /\ Len(t) = n
  BY <1>5, <1>10, IsASeq
<1>12. \A i, j \in 1..n : i # j => t[i] # t[j]
  BY <1>5, <1>9
<1>13. \A l \in c : \E i \in 1..n : t[i] = l
  <2>1. TAKE l \in c
  <2>2. PICK i \in 1..n : q[i] = Key(l)
    BY <1>5, <1>8
  <2>3. QED
    BY <2>2, <1>1, <1>8, <1>9
<1>14. Range(t) = c
  BY <1>10, <1>9, <1>13 DEF Range
<1>15. QED
  BY <1>4, <1>5, <1>11, <1>12, <1>14 DEF t
----------------------------------------------------------------------------
\* What can be learned from a cone.

\* The clauses of a cone are over n variables.
ConeTyped(cone, n) ==
    /\ \A c \in ConeClauses(cone) : c \subseteq Literals(n)
    /\ IsFiniteSet(DOMAIN cone.reasons)

\* The cuts are those that resolving leads to: what holds of the conflict and of each
\* resolvent that is not a tautology holds of all of them.
LEMMA CutsFrom ==
    ASSUME NEW n \in Nat, NEW cone, ConeTyped(cone, n), NEW P,
           WithoutRoots(cone, cone.conflict) \in P,
           \A c \in SUBSET Literals(n) : \A t \in DOMAIN cone.reasons :
              c \in P /\ -t \in c /\ Proper(Resolvent(cone, c, t)) => Resolvent(cone, c, t) \in P
    PROVE  Cuts(cone) \subseteq P \cap SUBSET Literals(n)
<1> DEFINE lits == UNION ConeClauses(cone)
           D == SUBSET lits
           Below(S) == {Resolvent(cone, x[1], x[2]) :
                            x \in {y \in S \X DOMAIN cone.reasons : -y[2] \in y[1]}}
           g == [S \in SUBSET D |-> S \union {c \in Below(S) : \A l \in c : -l \notin c}]
           start == WithoutRoots(cone, cone.conflict)
           Q == {c \in D : c \in P}
<1>1. lits \in SUBSET Literals(n) /\ IsFiniteSet(Literals(n))
  BY LiteralsFinite DEF ConeTyped
<1>2. IsFiniteSet(D)
  <2>1. IsFiniteSet(lits)
    BY <1>1, FS_Subset
  <2>2. QED
    BY <2>1, FS_SUBSET
<1>3. \A c \in D : \A t \in DOMAIN cone.reasons : Resolvent(cone, c, t) \in D
  <2>1. TAKE c \in D
  <2>2. TAKE t \in DOMAIN cone.reasons
  <2>3. cone.reasons[t] \in ConeClauses(cone)
    BY DEF ConeClauses, Range
  <2>4. QED
    BY <2>3 DEF Resolvent, WithoutRoots
<1>4. \A S \in SUBSET D : Below(S) \subseteq D
  <2>1. TAKE S \in SUBSET D
  <2>2. ASSUME NEW c \in Below(S) PROVE c \in D
    <3>1. PICK y \in S \X DOMAIN cone.reasons : c = Resolvent(cone, y[1], y[2])
      OBVIOUS
    <3>2. y[1] \in D /\ y[2] \in DOMAIN cone.reasons
      OBVIOUS
    <3> HIDE DEF D, Below
    <3>3. QED
      BY <3>1, <3>2, <1>3
  <2>3. QED
    BY <2>2
<1>5. g \in [SUBSET D -> SUBSET D] /\ \A S \in SUBSET D : S \subseteq g[S]
  <2> HIDE DEF D, Below
  <2>1. QED
    BY <1>4
<1>6. start \in D
  BY DEF WithoutRoots, ConeClauses
<1>7. Cuts(cone) = (CHOOSE f : f = [S \in SUBSET D |->
                     LET T == S \union {c \in Below(S) : \A l \in c : -l \notin c}
                     IN  IF T = S THEN S ELSE f[T]])[{start}]
  BY DEF Cuts
<1> DEFINE close == CHOOSE f : f = [S \in SUBSET D |->
                     LET T == S \union {c \in Below(S) : \A l \in c : -l \notin c}
                     IN  IF T = S THEN S ELSE f[T]]
<1>8. IsClosure(close, D, g)
  <2> DEFINE G(f) == [S \in SUBSET D |->
                     LET T == S \union {c \in Below(S) : \A l \in c : -l \notin c}
                     IN  IF T = S THEN S ELSE f[T]]
  <2>1. \A f : IsClosure(f, D, g) <=> f = G(f)
    <3> HIDE DEF D, Below
    <3>1. \A f : G(f) = [S \in SUBSET D |-> IF g[S] = S THEN S ELSE f[g[S]]]
      OBVIOUS
    <3> HIDE DEF G, g
    <3>2. QED
      BY <3>1 DEF IsClosure
  <2>2. PICK f : IsClosure(f, D, g)
    <3> HIDE DEF D, g
    <3>1. QED
      BY <1>2, <1>5, ClosureExists
  <2>3. f = G(f)
    <3> HIDE DEF G, g, D
    <3>1. QED
      BY <2>1, <2>2
  <2>4. close = CHOOSE h : h = G(h)
    BY Zenon
  <2> HIDE DEF G, close, g, D
  <2>5. close = G(close)
    BY <2>3, <2>4
  <2>6. QED
    BY <2>1, <2>5
<1>9. Cuts(cone) = close[{start}]
  BY <1>7
<1> HIDE DEF close
<1>10. Q \in SUBSET D /\ {start} \subseteq Q
  BY <1>6
<1>11. \A R \in SUBSET Q : g[R] \subseteq Q
  <2>1. TAKE R \in SUBSET Q
  <2>2. R \in SUBSET D
    OBVIOUS
  <2>3. ASSUME NEW c \in Below(R), \A l \in c : -l \notin c PROVE c \in Q
    <3>1. PICK y \in R \X DOMAIN cone.reasons : c = Resolvent(cone, y[1], y[2]) /\ -y[2] \in y[1]
      OBVIOUS
    <3>2. y[1] \in D /\ y[1] \in P /\ y[2] \in DOMAIN cone.reasons
      OBVIOUS
    <3>3. y[1] \in SUBSET Literals(n)
      BY <1>1, <3>2
    <3>4. Proper(c)
      <4>1. c \in D
        BY <1>3, <3>1, <3>2
      <4>2. \A l \in c : l \in Int
        BY <4>1, <1>1, LiteralsFinite
      <4>3. QED
        BY <2>3, <4>2 DEF Proper, Neg
    <3>5. c \in P
      <4> HIDE DEF D, Below, Q
      <4>1. QED
        BY <3>1, <3>2, <3>3, <3>4
    <3>6. QED
      BY <3>1, <3>2, <3>5, <1>3
  <2> HIDE DEF D, Q, Below
  <2>4. g[R] = R \union {c \in Below(R) : \A l \in c : -l \notin c}
    BY <2>2
  <2>5. QED
    BY <2>3, <2>4
<1>12. close[{start}] \subseteq Q
  <2>1. {start} \in SUBSET D
    BY <1>6
  <2> HIDE DEF D, Q, g, start
  <2>2. \A p \in SUBSET D : {start} \subseteq p /\ (\A R \in SUBSET p : g[R] \subseteq p) => close[{start}] \subseteq p
    BY <1>2, <1>5, <1>8, <2>1, ClosureIsLeast
  <2>3. QED
    BY <2>2, <1>10, <1>11
<1>13. QED
  BY <1>1, <1>9, <1>12
----

\* Clauses of the database: literals of n variables, each one once.
Clauses(n) == {c \in Seq(Literals(n)) : \A i, j \in 1..Len(c) : i # j => c[i] # c[j]}

\* What is over some variables is over more.
LEMMA ClausesGrow ==
    ASSUME NEW m \in Nat, NEW n \in Nat, m <= n
    PROVE  /\ Literals(m) \subseteq Literals(n)
           /\ Clauses(m) \subseteq Clauses(n)
           /\ Seq(Clauses(m)) \subseteq Seq(Clauses(n))
<1>1. Literals(m) \subseteq Literals(n)
  BY DEF Literals
<1>2. Clauses(m) \subseteq Clauses(n)
  BY <1>1, SeqMonotonic DEF Clauses
<1>3. Seq(Clauses(m)) \subseteq Seq(Clauses(n))
  BY <1>2, SeqMonotonic
<1>4. QED
  BY <1>1, <1>2, <1>3

\* The tuple of a set of literals is one of these.
LEMMA TupleTyped ==
    ASSUME NEW n \in Nat, NEW c \in SUBSET Literals(n)
    PROVE  Tuple(c) \in Clauses(n) /\ Range(Tuple(c)) = c
<1>1. c \in SUBSET (Int \ {0}) /\ IsFiniteSet(c)
  BY LiteralsFinite, FS_Subset
<1>2. /\ Tuple(c) \in Seq(c) /\ Range(Tuple(c)) = c
      /\ \A i, j \in 1..Len(Tuple(c)) : i # j => Tuple(c)[i] # Tuple(c)[j]
  BY <1>1, TupleIsAll
<1>3. Tuple(c) \in Seq(Literals(n))
  BY <1>2, SeqMonotonic
<1>4. QED
  BY <1>2, <1>3 DEF Clauses

\* The pairs that ExtLearn counts; its gates are named pairs, and the next variable is
\* one that no clause has.
HookTyped(h) ==
    /\ h = [pairs |-> h.pairs, gates |-> h.gates, next |-> h.next]
    /\ h.next \in Nat \ {0}
    /\ \A p \in h.pairs : \E a, b \in Literals(h.next - 1) : a # b /\ p = {a, b}
    /\ DOMAIN h.gates \subseteq h.pairs
    /\ \A p \in DOMAIN h.gates : h.gates[p] \in 1..h.next - 1

\* What a hook returns: clauses over the variables there are and those it adds.
Taught(r, h) ==
    /\ HookTyped(r.hook)
    /\ h.next <= r.hook.next
    /\ r.learn \in Seq(Clauses(r.hook.next - 1))

\* Only the first clause may be a unit.
UnitFirst(r, uip) == \A c \in Range(r.learn) : c = Tuple(uip) \/ Len(c) > 1

\* The first clause alone.
LEMMA OnlyFirst ==
    ASSUME NEW h, HookTyped(h), NEW c \in SUBSET Literals(h.next - 1), NEW r, r.hook = h, r.learn = <<Tuple(c)>>
    PROVE  Taught(r, h)
<1>1. h.next - 1 \in Nat /\ h.next <= h.next
  BY DEF HookTyped
<1>2. Tuple(c) \in Clauses(h.next - 1)
  BY <1>1, TupleTyped
<1>3. <<Tuple(c)>> \in Seq(Clauses(h.next - 1))
  BY <1>2
<1>4. QED
  BY <1>1, <1>3 DEF Taught

\* MultiLearn returns the first clause and some of the cuts.
LEMMA MultiResult ==
    ASSUME NEW k, NEW h, NEW cone, NEW uip, NEW r \in MultiLearn(k, h, cone, uip),
           IsFiniteSet(Cuts(cone))
    PROVE  r.hook = h /\ r.learn \in Seq({Tuple(c) : c \in Cuts(cone) \cup {uip}})
<1> DEFINE T == {Tuple(c) : c \in Cuts(cone) \cup {uip}}
           Full(q) == [learn |-> <<Tuple(uip)>> \o [i \in DOMAIN q |-> Tuple(q[i])], hook |-> h]
<1>0. Tuple(uip) \in T
  OBVIOUS
<1>1. CASE r = [learn |-> <<Tuple(uip)>>, hook |-> h]
  <2> HIDE DEF T
  <2>1. QED
    BY <1>0, <1>1
<1>2. ASSUME NEW R \in SUBSET Cuts(cone), NEW q \in ByLength(R), r = Full(q)
      PROVE  r.hook = h /\ r.learn \in Seq(T)
  <2> DEFINE m == Cardinality(R)
             t == [i \in DOMAIN q |-> Tuple(q[i])]
  <2>1. IsFiniteSet(R) /\ m \in Nat
    BY FS_Subset, FS_CardinalityType
  <2>2. q \in [1..m -> R]
    BY DEF ByLength, SetToSeqs
  <2> HIDE DEF m
  <2>3. t \in [1..m -> T]
    BY <2>2
  <2>4. t \in Seq(T)
    BY <2>1, <2>3, IsASeq
  <2>5. <<Tuple(uip)>> \in Seq(T)
    BY <1>0
  <2>6. r.learn = <<Tuple(uip)>> \o t /\ r.hook = h
    BY <1>2
  <2> HIDE DEF t, T
  <2>7. QED
    BY <2>4, <2>5, <2>6
<1>3. CASE r # [learn |-> <<Tuple(uip)>>, hook |-> h]
  <2> DEFINE cuts == Cuts(cone)
             picks == IF Cardinality(cuts) <= 4 * k THEN Shortest(FilterSubsumed(cuts) \ {uip}, k - 1)
                      ELSE UNION {kSubset(j, cuts \ {uip}) : j \in 0..k - 1}
  <2>1. \E q \in UNION {ByLength(R) : R \in picks} : r = Full(q)
    BY <1>3 DEF MultiLearn
  <2>2. PICK R \in picks : \E q \in ByLength(R) : r = Full(q)
    BY <2>1
  <2>3. PICK q \in ByLength(R) : r = Full(q)
    BY <2>2
  <2>4. R \in SUBSET cuts
    BY DEF Shortest, FilterSubsumed, kSubset
  <2>5. QED
    BY <1>2, <2>3, <2>4
<1>4. QED
  BY <1>1, <1>3
\* The cuts are finitely many, over the variables of the cone.
LEMMA CutsTyped ==
    ASSUME NEW n \in Nat, NEW cone, ConeTyped(cone, n)
    PROVE  Cuts(cone) \in SUBSET SUBSET Literals(n) /\ IsFiniteSet(Cuts(cone))
<1> DEFINE P == SUBSET Literals(n)
<1>1. \A c \in ConeClauses(cone) : WithoutRoots(cone, c) \in P /\ \A t : WithoutRoots(cone, c \ {t}) \in P
  BY DEF ConeTyped, WithoutRoots
<1>2. WithoutRoots(cone, cone.conflict) \in P
  BY <1>1 DEF ConeClauses
<1>3. \A c \in SUBSET Literals(n) : \A t \in DOMAIN cone.reasons : Resolvent(cone, c, t) \in P
  <2>1. TAKE c \in SUBSET Literals(n)
  <2>2. TAKE t \in DOMAIN cone.reasons
  <2>3. cone.reasons[t] \in ConeClauses(cone)
    BY DEF ConeClauses, Range
  <2>4. WithoutRoots(cone, cone.reasons[t] \ {t}) \in P
    BY <1>1, <2>3
  <2>5. QED
    BY <2>4 DEF Resolvent
<1> HIDE DEF P
<1>4. Cuts(cone) \subseteq P \cap SUBSET Literals(n)
  BY <1>2, <1>3, CutsFrom
<1>5. IsFiniteSet(SUBSET Literals(n))
  BY LiteralsFinite, FS_SUBSET
<1>6. QED
  BY <1>4, <1>5, FS_Subset

\* MultiLearn returns clauses over the variables there are.
LEMMA MultiTaught ==
    ASSUME NEW k, NEW h, HookTyped(h), NEW cone, ConeTyped(cone, h.next - 1),
           NEW uip \in SUBSET Literals(h.next - 1), NEW r \in MultiLearn(k, h, cone, uip)
    PROVE  Taught(r, h)
<1> DEFINE n == h.next - 1
<1>1. n \in Nat /\ h.next <= h.next
  BY DEF HookTyped
<1>2. Cuts(cone) \in SUBSET SUBSET Literals(n) /\ IsFiniteSet(Cuts(cone))
  BY <1>1, CutsTyped
<1>3. r.hook = h /\ r.learn \in Seq({Tuple(c) : c \in Cuts(cone) \cup {uip}})
  BY <1>2, MultiResult
<1>4. {Tuple(c) : c \in Cuts(cone) \cup {uip}} \subseteq Clauses(n)
  BY <1>1, <1>2, TupleTyped
<1>5. r.learn \in Seq(Clauses(n))
  BY <1>3, <1>4, SeqMonotonic
<1>6. QED
  BY <1>1, <1>3, <1>5 DEF Taught

\* ExtLearn returns the first clause, or the clause in which a name stands for a pair,
\* with the definition of the name when it is new.
Renamed(uip, p, z) == Tuple((uip \ Neg(p)) \union {-z})
Seen(h, cone) == [h EXCEPT !.pairs = @ \union PairsIn(ConeClauses(cone))]

Reused(r, h, cone, uip, p) ==
    /\ r.hook = Seen(h, cone)
    /\ r.learn = <<Renamed(uip, p, Seen(h, cone).gates[p])>>
Named(r, h, cone, uip, p) ==
    /\ r.hook = [Seen(h, cone) EXCEPT !.next = @ + 1, !.gates = Put(@, p, h.next)]
    /\ r.learn = <<Renamed(uip, p, h.next)>> \o ExtDefinition(h.next, Tuple(p)[1], Tuple(p)[2])
ExtReturns(r, h, cone, uip) ==
    \/ r.hook \in {h, Seen(h, cone)} /\ r.learn = <<Tuple(uip)>>
    \/ \E p \in Seen(h, cone).pairs :
          /\ Neg(p) \subseteq uip /\ ~(Cardinality(uip) < 4)
          /\ \/ p \in DOMAIN Seen(h, cone).gates /\ Reused(r, h, cone, uip, p)
             \/ p \notin DOMAIN Seen(h, cone).gates /\ Named(r, h, cone, uip, p)

\* What ExtLearn returns, by cases.
LEMMA ExtResult ==
    ASSUME NEW s, NEW h, NEW cone, NEW uip, NEW r \in ExtLearn(s, h, cone, uip)
    PROVE  ExtReturns(r, h, cone, uip)
<1> DEFINE seen == [h EXCEPT !.pairs = @ \union PairsIn(ConeClauses(cone))]
           best == {p \in seen.pairs : Neg(p) \subseteq uip \intersect Neg(cone.frontier)}
           Old(p) == [learn |-> <<Tuple((uip \ Neg(p)) \union {-seen.gates[p]})>>, hook |-> seen]
           Defined(p) == [learn |-> <<Tuple((uip \ Neg(p)) \union {-h.next})>>
                                   \o ExtDefinition(h.next, Tuple(p)[1], Tuple(p)[2]),
                      hook  |-> [seen EXCEPT !.next = @ + 1, !.gates = Put(@, p, h.next)]]
<1>1. \/ r = [learn |-> <<Tuple(uip)>>, hook |-> h]
      \/ r = [learn |-> <<Tuple(uip)>>, hook |-> seen]
      \/ ~(Cardinality(uip) < 4) /\ r \in {IF p \in DOMAIN seen.gates THEN Old(p) ELSE Defined(p) : p \in best}
  BY Zenon DEF ExtLearn
<1>2. seen = Seen(h, cone)
  BY DEF Seen
<1>3. CASE ~(Cardinality(uip) < 4) /\ r \in {IF p \in DOMAIN seen.gates THEN Old(p) ELSE Defined(p) : p \in best}
  <2>1. PICK p \in best : r = IF p \in DOMAIN seen.gates THEN Old(p) ELSE Defined(p)
    BY <1>3
  <2>2. p \in seen.pairs /\ Neg(p) \subseteq uip
    OBVIOUS
  <2> HIDE DEF seen
  <2>3. CASE p \in DOMAIN seen.gates
    <3>1. r.hook = seen /\ r.learn = <<Renamed(uip, p, seen.gates[p])>>
      BY <2>1, <2>3 DEF Renamed
    <3>2. QED
      BY <3>1, <2>2, <2>3, <1>2, <1>3 DEF ExtReturns, Reused
  <2>4. CASE p \notin DOMAIN seen.gates
    <3>1. /\ r.hook = [seen EXCEPT !.next = @ + 1, !.gates = Put(@, p, h.next)]
          /\ r.learn = <<Renamed(uip, p, h.next)>> \o ExtDefinition(h.next, Tuple(p)[1], Tuple(p)[2])
      BY <2>1, <2>4 DEF Renamed
    <3>2. QED
      BY <3>1, <2>2, <2>4, <1>2, <1>3 DEF ExtReturns, Named
  <2>5. QED
    BY <2>3, <2>4
<1> HIDE DEF seen
<1>4. CASE r = [learn |-> <<Tuple(uip)>>, hook |-> h]
  <2>1. r.hook = h /\ r.learn = <<Tuple(uip)>>
    BY <1>4
  <2>2. QED
    BY <2>1, Zenon DEF ExtReturns
<1>5. CASE r = [learn |-> <<Tuple(uip)>>, hook |-> seen]
  <2>1. r.hook = Seen(h, cone) /\ r.learn = <<Tuple(uip)>>
    BY <1>2, <1>5
  <2>2. QED
    BY <2>1, Zenon DEF ExtReturns
<1>6. QED
  BY <1>1, <1>3, <1>4, <1>5
\* A pair as a tuple has both of its members.
LEMMA PairSplits ==
    ASSUME NEW n \in Nat, NEW a \in Literals(n), NEW b \in Literals(n), a # b, NEW p, p = {a, b}
    PROVE  /\ Tuple(p)[1] \in Literals(n) /\ Tuple(p)[2] \in Literals(n)
           /\ Tuple(p)[1] # Tuple(p)[2] /\ p = {Tuple(p)[1], Tuple(p)[2]}
<1> DEFINE t == Tuple(p)
<1>1. p \in SUBSET (Int \ {0}) /\ IsFiniteSet(p) /\ p \in SUBSET Literals(n)
  BY LiteralsFinite, FS_Subset
<1>2. /\ t \in Seq(p) /\ Range(t) = p
      /\ Len(t) = Cardinality(p) /\ Cardinality(p) \in Nat
      /\ \A i, j \in 1..Len(t) : i # j => t[i] # t[j]
  BY <1>1, TupleIsAll
<1>3. Cardinality(p) = 2
  <2>1. a \in {a} /\ b \notin {a} /\ p = {a} \cup {b}
    OBVIOUS
  <2>2. IsFiniteSet({a}) /\ Cardinality({a}) = 1
    BY FS_Singleton
  <2>3. Cardinality({a} \cup {b}) = 2
    BY <2>1, <2>2, FS_AddElement
  <2>4. QED
    BY <2>1, <2>3
<1> HIDE DEF t
<1>4. Len(t) = 2 /\ DOMAIN t = 1..2 /\ t[1] \in p /\ t[2] \in p /\ t[1] # t[2]
  <2>1. Len(t) = 2 /\ t \in [1..2 -> p]
    BY <1>2, <1>3, LenProperties
  <2>2. 1 \in 1..Len(t) /\ 2 \in 1..Len(t) /\ 1 # 2
    BY <2>1
  <2>3. QED
    BY <2>1, <2>2, <1>2
<1>5. QED
  BY <1>1, <1>4 DEF t

\* Counting pairs changes nothing else, and they are pairs of literals.
LEMMA SeenTyped ==
    ASSUME NEW h, HookTyped(h), NEW cone, ConeTyped(cone, h.next - 1)
    PROVE  HookTyped(Seen(h, cone)) /\ Seen(h, cone).gates = h.gates /\ Seen(h, cone).next = h.next
<1> DEFINE n == h.next - 1
           seen == Seen(h, cone)
<1>1. n \in Nat /\ h.next \in Nat /\ n + 1 = h.next /\ h.next - 1 = n
  BY DEF HookTyped
<1>2. /\ seen = [pairs |-> h.pairs \cup PairsIn(ConeClauses(cone)), gates |-> h.gates, next |-> h.next]
      /\ seen.pairs = h.pairs \cup PairsIn(ConeClauses(cone)) /\ seen.gates = h.gates /\ seen.next = h.next
  <2>1. \A P, G, N, X : [[pairs |-> P, gates |-> G, next |-> N] EXCEPT !.pairs = @ \cup X]
                              = [pairs |-> P \cup X, gates |-> G, next |-> N]
    OBVIOUS
  <2>2. h = [pairs |-> h.pairs, gates |-> h.gates, next |-> h.next]
    BY DEF HookTyped
  <2>3. seen = [pairs |-> h.pairs \cup PairsIn(ConeClauses(cone)), gates |-> h.gates, next |-> h.next]
    <3> DEFINE X == PairsIn(ConeClauses(cone))
    <3> HIDE DEF X
    <3>1. Seen(h, cone) = [h EXCEPT !.pairs = @ \cup X]
      BY DEF Seen, X
    <3>2. QED
      BY <2>1, <2>2, <3>1 DEF X
  <2>4. QED
    BY <2>3
<1>3. \A p \in PairsIn(ConeClauses(cone)) : \E a, b \in Literals(n) : a # b /\ p = {a, b}
  <2>1. TAKE p \in PairsIn(ConeClauses(cone))
  <2>2. PICK c \in ConeClauses(cone) : \E x \in c \X c : x[1] # x[2] /\ p = Neg({x[1], x[2]})
    BY DEF PairsIn
  <2>7. PICK x \in c \X c : x[1] # x[2] /\ p = Neg({x[1], x[2]})
    BY <2>2
  <2>3. x[1] \in Literals(n) /\ x[2] \in Literals(n)
    BY DEF ConeTyped
  <2>4. -x[1] \in Literals(n) /\ -x[2] \in Literals(n) /\ -x[1] # -x[2]
    BY <1>1, <2>7, <2>3 DEF Literals
  <2>5. p = {-x[1], -x[2]}
    BY <2>7 DEF Neg
  <2>6. QED
    BY <2>4, <2>5
<1>4. \A p \in seen.pairs : \E a, b \in Literals(n) : a # b /\ p = {a, b}
  BY <1>2, <1>3 DEF HookTyped
<1>5. HookTyped(seen)
  BY <1>1, <1>2, <1>4 DEF HookTyped
<1>6. QED
  BY <1>2, <1>5

\* A new name is the next variable.
LEMMA NamedHook ==
    ASSUME NEW h, HookTyped(h), NEW p, NEW z
    PROVE  [h EXCEPT !.next = @ + 1, !.gates = Put(@, p, z)]
              = [pairs |-> h.pairs, gates |-> Put(h.gates, p, z), next |-> h.next + 1]
<1>1. \A P, G, N, M, H, u, v : u = [pairs |-> P, gates |-> G, next |-> N] /\ v = [u EXCEPT !.next = M, !.gates = H]
                                   => v = [pairs |-> P, gates |-> H, next |-> M]
  <2>1. TAKE P, G, N, M, H, u, v
  <2>2. HAVE u = [pairs |-> P, gates |-> G, next |-> N] /\ v = [u EXCEPT !.next = M, !.gates = H]
  <2>3. v = [x \in {"pairs", "gates", "next"} |-> IF x = "gates" THEN H ELSE IF x = "next" THEN M ELSE u[x]]
    BY <2>2
  <2>4. QED
    BY <2>2, <2>3
<1> DEFINE e == [h EXCEPT !.next = @ + 1, !.gates = Put(@, p, z)]
<1>2. h = [pairs |-> h.pairs, gates |-> h.gates, next |-> h.next]
  BY DEF HookTyped
<1>3. e = [h EXCEPT !.next = h.next + 1, !.gates = Put(h.gates, p, z)]
  OBVIOUS
<1> HIDE DEF e
<1>4. e = [pairs |-> h.pairs, gates |-> Put(h.gates, p, z), next |-> h.next + 1]
  BY <1>1, <1>2, <1>3
<1>5. QED
  BY <1>4 DEF e

\* A clause that has all but two of four literals is no unit.
LEMMA LongWithout ==
    ASSUME NEW n \in Nat, NEW uip \in SUBSET Literals(n), ~(Cardinality(uip) < 4),
           NEW T, NEW c \in Seq(T), NEW x, NEW y, uip \subseteq Range(c) \cup {x, y}
    PROVE  Len(c) > 1
<1>1. SUFFICES ASSUME ~(Len(c) > 1) PROVE FALSE
  OBVIOUS
<1>2. Range(c) \subseteq {c[1]}
  <2>1. Len(c) \in Nat /\ DOMAIN c = 1..Len(c)
    OBVIOUS
  <2>2. \A i \in 1..Len(c) : i = 1
    BY <1>1, <2>1
  <2>3. QED
    BY <2>1, <2>2 DEF Range
<1> DEFINE S == {c[1], x, y}
<1>3. uip \subseteq S
  BY <1>2
<1>4. IsFiniteSet(S) /\ Cardinality(S) \in Nat /\ Cardinality(S) <= 3
  BY SmallSets
<1> HIDE DEF S
<1>5. Cardinality(uip) \in Nat /\ Cardinality(uip) <= Cardinality(S)
  BY <1>3, <1>4, FS_Subset, FS_CardinalityType
<1>6. QED
  BY <1>4, <1>5

\* So ExtLearn returns clauses over the variables there are, and a new one.
LEMMA ExtTaught ==
    ASSUME NEW s, NEW h, HookTyped(h), NEW cone, ConeTyped(cone, h.next - 1),
           NEW uip \in SUBSET Literals(h.next - 1), NEW r \in ExtLearn(s, h, cone, uip)
    PROVE  Taught(r, h) /\ UnitFirst(r, uip)
<1> DEFINE n == h.next - 1
           seen == Seen(h, cone)
<1>1. n \in Nat /\ h.next \in Nat /\ n + 1 = h.next /\ h.next - 1 = n
  BY DEF HookTyped
<1>2. HookTyped(seen) /\ seen.gates = h.gates /\ seen.next = h.next
  BY SeenTyped
<1>4. \A p \in seen.pairs : \E a, b \in Literals(n) : a # b /\ p = {a, b}
  BY <1>1, <1>2 DEF HookTyped
<1> HIDE DEF seen
<1>5. HookTyped(seen)
  BY <1>2
<1> HIDE DEF n
<1>6. ASSUME NEW k \in {n, n + 1}, NEW p \in seen.pairs, NEW z \in 1..k
      PROVE  <<Renamed(uip, p, z)>> \in Seq(Clauses(k)) /\ (~(Cardinality(uip) < 4) => Len(Renamed(uip, p, z)) > 1)
  <2>1. k \in Nat /\ n <= k
    BY <1>1
  <2>2. uip \subseteq Literals(k) /\ -z \in Literals(k)
    BY <1>1, <2>1, ClausesGrow DEF Literals
  <2>3. (uip \ Neg(p)) \union {-z} \in SUBSET Literals(k)
    BY <2>2
  <2>4. Renamed(uip, p, z) \in Clauses(k)
    BY <2>1, <2>3, TupleTyped DEF Renamed
  <2>5. ~(Cardinality(uip) < 4) => Len(Renamed(uip, p, z)) > 1
    <3>1. PICK a, b \in Literals(n) : p = {a, b}
      BY <1>4
    <3>2. uip \subseteq ((uip \ Neg(p)) \union {-z}) \cup {-a, -b}
      BY <3>1 DEF Neg
    <3>3. Range(Renamed(uip, p, z)) = (uip \ Neg(p)) \union {-z}
      BY <2>1, <2>3, TupleTyped DEF Renamed
    <3>4. Renamed(uip, p, z) \in Seq(Literals(k))
      BY <2>4 DEF Clauses
    <3>5. QED
      BY <2>1, <2>2, <3>2, <3>3, <3>4, LongWithout
  <2>6. QED
    BY <2>4, <2>5
<1>7. CASE r.hook \in {h, Seen(h, cone)} /\ r.learn = <<Tuple(uip)>>
  <2>1. uip \in SUBSET Literals(r.hook.next - 1) /\ HookTyped(r.hook) /\ r.hook.next = h.next
    BY <1>2, <1>5, <1>7 DEF seen
  <2>2. Taught(r, r.hook)
    BY <1>7, <2>1, OnlyFirst
  <2>3. UnitFirst(r, uip)
    BY <1>7 DEF UnitFirst, Range
  <2>4. QED
    BY <2>1, <2>2, <2>3 DEF Taught
<1>8. ASSUME NEW p \in seen.pairs, Neg(p) \subseteq uip, p \in DOMAIN seen.gates, Reused(r, h, cone, uip, p),
             ~(Cardinality(uip) < 4)
      PROVE  Taught(r, h) /\ UnitFirst(r, uip)
  <2>0. r.hook = seen /\ r.learn = <<Renamed(uip, p, seen.gates[p])>>
    BY <1>8 DEF Reused, seen
  <2>1. seen.gates[p] \in 1..n
    BY <1>1, <1>2, <1>8 DEF HookTyped
  <2>2. r.learn \in Seq(Clauses(n))
    BY <1>6, <2>0, <2>1
  <2>3. seen.next - 1 = n /\ h.next <= seen.next
    BY <1>1, <1>2
  <2>4. UnitFirst(r, uip)
    BY <1>6, <1>8, <2>0, <2>1 DEF UnitFirst, Range
  <2>5. QED
    BY <1>5, <2>0, <2>2, <2>3, <2>4 DEF Taught
<1>9. ASSUME NEW p \in seen.pairs, Neg(p) \subseteq uip, p \notin DOMAIN seen.gates, Named(r, h, cone, uip, p),
             ~(Cardinality(uip) < 4)
      PROVE  Taught(r, h) /\ UnitFirst(r, uip)
  <2> DEFINE z == h.next
             a == Tuple(p)[1]
             b == Tuple(p)[2]
  <2>0. /\ r.hook = [seen EXCEPT !.next = @ + 1, !.gates = Put(@, p, z)]
        /\ r.learn = <<Renamed(uip, p, z)>> \o ExtDefinition(z, a, b)
    BY <1>9 DEF Named, seen
  <2>1. a \in Literals(n) /\ b \in Literals(n) /\ a # b
    BY <1>1, <1>4, PairSplits
  <2>2. /\ a \in Literals(z) /\ b \in Literals(z) /\ a \in Int /\ b \in Int
        /\ a # z /\ b # z /\ a # -z /\ b # -z
        /\ -a \in Literals(z) /\ -b \in Literals(z) /\ z \in Literals(z) /\ -z \in Literals(z)
    BY <1>1, <2>1 DEF Literals
  <2> HIDE DEF a, b
  <2>3. <<-z, a>> \in Clauses(z) /\ <<-z, b>> \in Clauses(z) /\ <<z, -a, -b>> \in Clauses(z)
    <3>1. <<-z, a>> \in Clauses(z) /\ <<-z, b>> \in Clauses(z)
      BY <2>1, <2>2 DEF Clauses
    <3>2. <<z, -a, -b>> \in Seq(Literals(z)) /\ Len(<<z, -a, -b>>) = 3
      BY <2>2
    <3>3. \A i, j \in 1..3 : i # j => <<z, -a, -b>>[i] # <<z, -a, -b>>[j]
      <4>1. z # -a /\ z # -b /\ -a # -b
        BY <1>1, <2>1, <2>2
      <4>2. \A i \in 1..3 : i = 1 \/ i = 2 \/ i = 3
        OBVIOUS
      <4>3. QED
        BY <4>1, <4>2
    <3>4. QED
      BY <3>1, <3>2, <3>3 DEF Clauses
  <2>4. ExtDefinition(z, a, b) \in Seq(Clauses(z))
    BY <2>3 DEF ExtDefinition
  <2>5. <<Renamed(uip, p, z)>> \in Seq(Clauses(z))
    <3>1. z \in 1..n + 1 /\ n + 1 = z
      BY <1>1
    <3>2. QED
      BY <3>1, <1>6
  <2>6. r.learn \in Seq(Clauses(z))
    BY <2>0, <2>4, <2>5
  <2>7. /\ r.hook = [pairs |-> seen.pairs, gates |-> Put(seen.gates, p, z), next |-> z + 1]
        /\ r.hook.next - 1 = z /\ h.next <= r.hook.next /\ z + 1 \in Nat \ {0}
    <3>1. [seen EXCEPT !.next = @ + 1, !.gates = Put(@, p, z)]
             = [pairs |-> seen.pairs, gates |-> Put(seen.gates, p, z), next |-> seen.next + 1]
      BY <1>5, NamedHook
    <3>4. r.hook = [pairs |-> seen.pairs, gates |-> Put(seen.gates, p, z), next |-> z + 1]
      BY <1>2, <2>0, <3>1
    <3>5. z \in Nat /\ r.hook.next = z + 1
      BY <1>1, <3>4
    <3>6. QED
      BY <3>4, <3>5
  <2>8. HookTyped(r.hook)
    <3>1. \A q \in seen.pairs : \E c, d \in Literals(z) : c # d /\ q = {c, d}
      BY <1>1, <1>4, ClausesGrow
    <3>2. DOMAIN Put(seen.gates, p, z) \subseteq seen.pairs
      BY <1>5 DEF Put, HookTyped
    <3>3. \A q \in DOMAIN Put(seen.gates, p, z) : Put(seen.gates, p, z)[q] \in 1..z
      <4>1. \A q \in DOMAIN seen.gates : seen.gates[q] \in 1..z
        BY <1>1, <1>2, <1>5 DEF HookTyped
      <4>2. z \in 1..z
        BY <1>1
      <4>3. QED
        BY <4>1, <4>2 DEF Put
    <3>4. QED
      BY <2>7, <3>1, <3>2, <3>3 DEF HookTyped
  <2>9. UnitFirst(r, uip)
    <3> DEFINE x == Renamed(uip, p, z)
    <3>1. Len(x) > 1
      <4>1. z \in 1..n + 1 /\ n + 1 = z
        BY <1>1
      <4>2. QED
        BY <4>1, <1>6, <1>9
    <3> HIDE DEF x, z
    <3>2. Len(<<-z, a>>) > 1 /\ Len(<<-z, b>>) > 1 /\ Len(<<z, -a, -b>>) > 1
      OBVIOUS
    <3>3. r.learn = <<x>> \o << <<-z, a>>, <<-z, b>>, <<z, -a, -b>> >>
      BY <2>0 DEF ExtDefinition, x
    <3>4. \A u, v, w : \A c \in Range(<<x>> \o <<u, v, w>>) : c = x \/ c = u \/ c = v \/ c = w
      BY DEF Range
    <3>5. QED
      BY <3>1, <3>2, <3>3, <3>4 DEF UnitFirst
  <2>10. QED
    BY <2>6, <2>7, <2>8, <2>9 DEF Taught
<1>10. QED
  <2>1. ExtReturns(r, h, cone, uip)
    BY ExtResult
  <2>2. QED
    BY <2>1, <1>7, <1>8, <1>9 DEF seen, ExtReturns

\* The clauses that are no units.
Wide(n) == {c \in Clauses(n) : Len(c) > 1}

\* A clause of two or three literals of different variables.
LEMMA PairClauses ==
    ASSUME NEW k \in Nat, NEW x \in Literals(k), NEW y \in Literals(k), x # y
    PROVE  <<x, y>> \in Wide(k)
<1>1. <<x, y>> \in Seq(Literals(k)) /\ Len(<<x, y>>) = 2
  OBVIOUS
<1>2. \A i, j \in 1..2 : i # j => <<x, y>>[i] # <<x, y>>[j]
  <2>1. \A i \in 1..2 : i = 1 \/ i = 2
    OBVIOUS
  <2>2. QED
    BY <2>1
<1>3. QED
  BY <1>1, <1>2 DEF Wide, Clauses

\* Two and three different literals make a clause.
LEMMA ShortClauses ==
    ASSUME NEW k \in Nat, NEW x \in Literals(k), NEW y \in Literals(k), NEW z \in Literals(k),
           x # y, x # z, y # z
    PROVE  <<x, y>> \in Wide(k) /\ <<x, y, z>> \in Wide(k)
<1>1. <<x, y>> \in Wide(k)
  BY PairClauses
<1>2. <<x, y, z>> \in Wide(k)
  <2>1. <<x, y, z>> \in Seq(Literals(k)) /\ Len(<<x, y, z>>) = 3
    OBVIOUS
  <2>2. \A i, j \in 1..3 : i # j => <<x, y, z>>[i] # <<x, y, z>>[j]
    <3>1. \A i \in 1..3 : i = 1 \/ i = 2 \/ i = 3
      OBVIOUS
    <3>2. QED
      BY <3>1
  <2>3. QED
    BY <2>1, <2>2 DEF Wide, Clauses
<1>3. QED
  BY <1>1, <1>2

\* The four clauses of a parity gate z = a + b.
Gate(z, a, b) == << <<-z, a, b>>, <<-z, -a, -b>>, <<z, -a, b>>, <<z, a, -b>> >>

\* Its clauses are clauses over the variables of the gate.
LEMMA GateTyped ==
    ASSUME NEW k \in Nat, NEW z \in 1..k, NEW a \in 1..k, NEW b \in 1..k, z # a, z # b, a # b
    PROVE  Gate(z, a, b) \in [1..4 -> Wide(k)] /\ <<a, b>> \in Wide(k) /\ <<-a, -b>> \in Wide(k)
             /\ <<a, -b>> \in Wide(k) /\ <<-a, b>> \in Wide(k)
<1>1. \A v \in {z, a, b} : v \in Literals(k) /\ -v \in Literals(k)
  BY DEF Literals
<1>2. /\ -z # a /\ -z # b /\ -z # -a /\ -z # -b /\ z # -a /\ z # -b /\ a # -b /\ -a # b /\ -a # -b
      /\ a # -a /\ b # -b
  OBVIOUS
<1>3. <<-z, a, b>> \in Wide(k) /\ <<a, b>> \in Wide(k)
  BY <1>1, <1>2, ShortClauses
<1>4. <<-z, -a, -b>> \in Wide(k) /\ <<-a, -b>> \in Wide(k)
  BY <1>1, <1>2, ShortClauses
<1>5. <<z, -a, b>> \in Wide(k) /\ <<-a, b>> \in Wide(k)
  BY <1>1, <1>2, ShortClauses
<1>6. <<z, a, -b>> \in Wide(k) /\ <<a, -b>> \in Wide(k)
  BY <1>1, <1>2, ShortClauses
<1>7. QED
  BY <1>3, <1>4, <1>5, <1>6 DEF Gate

\* The inputs of the gates of a chain: the first variable, then the gate before.
Prev(w, fresh, i) == IF i = 1 THEN w[1] ELSE fresh + i - 2
ChainGates(w, fresh) ==
    [j \in 1 .. 4 * (Len(w) - 2) |->
        Gate(fresh + ((j + 3) \div 4) - 1, Prev(w, fresh, (j + 3) \div 4), w[((j + 3) \div 4) + 1])[((j - 1) % 4) + 1]]
ChainSum(a, b, p) == IF p = 1 THEN << <<a, b>>, <<-a, -b>> >> ELSE << <<a, -b>>, <<-a, b>> >>

\* The chain is its gates, then the clauses of its sum.
LEMMA ChainParts ==
    ASSUME NEW w, NEW p, NEW fresh
    PROVE  EncodeXorChain(w, p, fresh) = ChainGates(w, fresh)
               \o ChainSum(Prev(w, fresh, Len(w) - 1), w[Len(w)], p)
BY Zenon DEF EncodeXorChain, ChainGates, ChainSum, Prev, Gate

\* Its clauses are over the variables there are and the new ones.
LEMMA ChainTyped ==
    ASSUME NEW n \in Nat, NEW w \in Seq(1..n), Len(w) >= 2,
           \A i, j \in 1..Len(w) : i # j => w[i] # w[j],
           NEW p, NEW k, k = n + Len(w) - 2
    PROVE  EncodeXorChain(w, p, n + 1) \in Seq(Wide(k)) /\ EncodeXorChain(w, p, n + 1) \in Seq(Clauses(k))
<1> DEFINE m == Len(w)
           fresh == n + 1
           Pre(i) == Prev(w, fresh, i)
<1>1. /\ m \in Nat /\ m >= 2 /\ n \in Nat /\ k = n + m - 2 /\ k \in Nat /\ fresh = n + 1
      /\ \A i \in 1..m : w[i] \in 1..n
  OBVIOUS
<1>0. \A i, j \in 1..m : i # j => w[i] # w[j]
  OBVIOUS
<1> HIDE DEF m, fresh
<1>2. ASSUME NEW i \in 1..m - 1
      PROVE  /\ Pre(i) \in 1..k /\ w[i + 1] \in 1..k /\ Pre(i) # w[i + 1]
             /\ Pre(i) < fresh + i - 1
  <2>1. i + 1 \in 1..m /\ 1 \in 1..m /\ w[i + 1] \in 1..n /\ w[1] \in 1..n
    BY <1>1
  <2>2. i = 1 => w[1] # w[i + 1]
    BY <1>0, <2>1
  <2>3. CASE i = 1
    <3>1. Pre(i) = w[1]
      BY <2>3 DEF Prev
    <3>2. QED
      BY <1>1, <2>1, <2>2, <2>3, <3>1
  <2>4. CASE i # 1
    <3>1. Pre(i) = n + i - 1
      BY <1>1, <2>4 DEF Prev
    <3>2. i \in Nat /\ w[i + 1] \in Nat /\ w[i + 1] <= n /\ i >= 2
      BY <1>1, <2>1, <2>4
    <3>3. n + i - 1 \in 1..k /\ n + i - 1 > n /\ n + i - 1 < fresh + i - 1
      BY <1>1, <3>2
    <3>4. w[i + 1] \in 1..k
      BY <1>1, <2>1
    <3>5. Pre(i) # w[i + 1]
      BY SMTT(30), <3>1, <3>2, <3>3
    <3>6. QED
      BY <3>1, <3>3, <3>4, <3>5
  <2>5. QED
    BY <2>3, <2>4
<1>3. \A i \in 1..m - 2 : Gate(fresh + i - 1, Pre(i), w[i + 1]) \in [1..4 -> Wide(k)]
  <2>1. TAKE i \in 1..m - 2
  <2>2. /\ i \in 1..m - 1 /\ i + 1 \in 1..m /\ w[i + 1] \in 1..n
        /\ fresh + i - 1 \in 1..k /\ fresh + i - 1 > n
    BY <1>1
  <2>3. Pre(i) \in 1..k /\ w[i + 1] \in 1..k /\ Pre(i) # w[i + 1] /\ Pre(i) < fresh + i - 1
    BY <1>2, <2>2
  <2> HIDE DEF Pre
  <2>4. fresh + i - 1 # Pre(i) /\ fresh + i - 1 # w[i + 1]
    BY SMTT(30), <2>2, <2>3
  <2>5. QED
    BY <1>1, <2>2, <2>3, <2>4, GateTyped
<1>4. ChainGates(w, fresh) \in Seq(Wide(k))
  <2>1. 4 * (m - 2) \in Nat
    BY <1>1
  <2>2. ASSUME NEW j \in 1..4 * (m - 2)
        PROVE  (j + 3) \div 4 \in 1..m - 2 /\ ((j - 1) % 4) + 1 \in 1..4
    <3>1. PICK l \in Nat : l = m - 2
      BY <1>1
    <3>2. j \in 1..4 * l
      BY <3>1
    <3>3. (j + 3) \div 4 \in 1..l /\ ((j - 1) % 4) + 1 \in 1..4
      BY <3>2
    <3>4. QED
      BY <3>1, <3>3
  <2>3. ChainGates(w, fresh) = [j \in 1..4 * (m - 2) |->
          Gate(fresh + ((j + 3) \div 4) - 1, Pre((j + 3) \div 4), w[((j + 3) \div 4) + 1])[((j - 1) % 4) + 1]]
    BY DEF ChainGates, m
  <2> HIDE DEF Pre
  <2>4. \A j \in 1..4 * (m - 2) :
          Gate(fresh + ((j + 3) \div 4) - 1, Pre((j + 3) \div 4), w[((j + 3) \div 4) + 1])[((j - 1) % 4) + 1] \in Wide(k)
    <3>1. TAKE j \in 1..4 * (m - 2)
    <3>2. PICK i \in 1..m - 2 : i = (j + 3) \div 4
      BY <2>2
    <3>3. PICK l \in 1..4 : l = ((j - 1) % 4) + 1
      BY <2>2
    <3>4. Gate(fresh + i - 1, Pre(i), w[i + 1])[l] \in Wide(k)
      BY <1>3
    <3>5. QED
      BY <3>2, <3>3, <3>4
  <2>5. ChainGates(w, fresh) \in [1..4 * (m - 2) -> Wide(k)]
    BY <2>3, <2>4
  <2>6. QED
    BY SMTT(30), <2>1, <2>5, IsASeq
<1>5. ChainSum(Pre(m - 1), w[m], p) \in Seq(Wide(k))
  <2>1. m - 1 \in 1..m - 1 /\ (m - 1) + 1 = m
    BY <1>1
  <2>2. Pre(m - 1) \in 1..k /\ w[m] \in 1..k /\ Pre(m - 1) # w[m]
    BY <1>2, <2>1
  <2> DEFINE a == Pre(m - 1)
             b == w[m]
  <2>9. \A x \in 1..k : x \in Literals(k) /\ -x \in Literals(k) /\ x \in Nat \ {0}
    BY <1>1 DEF Literals
  <2>3. a \in Literals(k) /\ b \in Literals(k) /\ -a \in Literals(k) /\ -b \in Literals(k) /\ a \in Nat \ {0} /\ b \in Nat \ {0} /\ a # b
    BY <2>9, <2>2
  <2> HIDE DEF a, b
  <2>4. \A x, y \in Literals(k) : x # y => <<x, y>> \in Wide(k)
    BY <1>1, PairClauses
  <2>5. a # -b /\ -a # b /\ -a # -b
    BY <2>3
  <2>6. <<a, b>> \in Wide(k) /\ <<-a, -b>> \in Wide(k) /\ <<a, -b>> \in Wide(k) /\ <<-a, b>> \in Wide(k)
    BY <2>3, <2>4, <2>5
  <2>7. ChainSum(a, b, p) \in Seq(Wide(k))
    <3>1. \A x, y \in Wide(k) : <<x, y>> \in Seq(Wide(k))
      OBVIOUS
    <3>2. << <<a, b>>, <<-a, -b>> >> \in Seq(Wide(k)) /\ << <<a, -b>>, <<-a, b>> >> \in Seq(Wide(k))
      BY <2>6, <3>1
    <3>3. QED
      BY <3>2 DEF ChainSum
  <2>8. QED
    BY <2>7 DEF a, b
<1>6. EncodeXorChain(w, p, fresh) = ChainGates(w, fresh) \o ChainSum(Pre(m - 1), w[m], p)
  BY ChainParts DEF m
<1>7. EncodeXorChain(w, p, fresh) \in Seq(Wide(k))
  <2> HIDE DEF Pre
  <2>1. \A x, y \in Seq(Wide(k)) : x \o y \in Seq(Wide(k))
    OBVIOUS
  <2>2. QED
    BY <1>4, <1>5, <1>6, <2>1
<1>8. Wide(k) \subseteq Clauses(k)
  BY DEF Wide
<1>9. EncodeXorChain(w, p, fresh) \in Seq(Clauses(k))
  BY <1>7, <1>8, SeqMonotonic
<1>10. QED
  BY <1>7, <1>9 DEF fresh

\* XorLearn adds a chain, if anything.
XorAdds(r, h, offline, xors, cone, uip) ==
    LET q == ConeParity(offline, xors, cone)
    IN  /\ Cardinality(q.vars) >= 2 /\ Cardinality(q.vars) <= 10
        /\ offline \/ EntailsParity(cone, q.vars, q.parity)
        /\ r.learn = <<Tuple(uip)>> \o EncodeXorChain(Tuple(q.vars), q.parity, h.next)
        /\ r.hook = [h EXCEPT !.next = @ + Cardinality(q.vars) - 2]

\* What XorLearn returns, by cases.
LEMMA XorResult ==
    ASSUME NEW offline \in BOOLEAN, NEW xors, NEW h, NEW cone, NEW uip, NEW r \in XorLearn(offline, xors, h, cone, uip),
           Cardinality(ConeParity(offline, xors, cone).vars) \in Nat
    PROVE  (r.hook = h /\ r.learn = <<Tuple(uip)>>) \/ XorAdds(r, h, offline, xors, cone, uip)
<1> DEFINE q == ConeParity(offline, xors, cone)
           m == Cardinality(q.vars)
<1>1. CASE m < 2 \/ m > 10 \/ (~offline /\ ~EntailsParity(cone, q.vars, q.parity))
  <2>1. r = [learn |-> <<Tuple(uip)>>, hook |-> h]
    BY <1>1 DEF XorLearn
  <2>2. QED
    BY <2>1
<1>2. CASE ~(m < 2 \/ m > 10 \/ (~offline /\ ~EntailsParity(cone, q.vars, q.parity)))
  <2>1. r = [learn |-> <<Tuple(uip)>> \o EncodeXorChain(Tuple(q.vars), q.parity, h.next),
             hook |-> [h EXCEPT !.next = @ + m - 2]]
    BY <1>2 DEF XorLearn
  <2>2. m >= 2 /\ m <= 10 /\ (offline \/ EntailsParity(cone, q.vars, q.parity))
    BY <1>2
  <2>3. QED
    BY <2>1, <2>2 DEF XorAdds
<1>3. QED
  BY <1>1, <1>2
\* The variables of the sum are variables of the cone.
LEMMA ParityTyped ==
    ASSUME NEW n \in Nat, NEW cone, ConeTyped(cone, n), NEW offline, NEW xors
    PROVE  /\ ConeParity(offline, xors, cone).vars \in SUBSET (1..n)
           /\ Cardinality(ConeParity(offline, xors, cone).vars) \in Nat
<1> DEFINE q == ConeParity(offline, xors, cone)
<1>1. Vars(ConeClauses(cone)) \subseteq 1..n
  BY LiteralsFinite DEF ConeTyped, Vars
<1>2. q.vars \subseteq Vars(ConeClauses(cone))
  BY DEF ConeParity, NoParity
<1> HIDE DEF q
<1>3. q.vars \in SUBSET (1..n)
  BY <1>1, <1>2
<1>4. IsFiniteSet(1..n)
  <2>1. 1 \in Int /\ n \in Int
    OBVIOUS
  <2>2. QED
    BY <2>1, FS_Interval
<1>5. QED
  BY <1>3, <1>4, FS_Subset, FS_CardinalityType DEF q

\* XorLearn returns clauses over the variables there are and the new ones.
LEMMA XorTaught ==
    ASSUME NEW offline \in BOOLEAN, NEW xors, NEW h, HookTyped(h), NEW cone, ConeTyped(cone, h.next - 1),
           NEW uip \in SUBSET Literals(h.next - 1), NEW r \in XorLearn(offline, xors, h, cone, uip)
    PROVE  Taught(r, h) /\ UnitFirst(r, uip)
<1> DEFINE n == h.next - 1
           q == ConeParity(offline, xors, cone)
           V == q.vars
           m == Cardinality(V)
<1>1. n \in Nat /\ h.next = n + 1 /\ h.next \in Nat
  BY DEF HookTyped
<1>2. V \in SUBSET (1..n) /\ m \in Nat
  BY <1>1, ParityTyped
<1>3. (r.hook = h /\ r.learn = <<Tuple(uip)>>) \/ XorAdds(r, h, offline, xors, cone, uip)
  BY <1>2, XorResult
<1>4. CASE r.hook = h /\ r.learn = <<Tuple(uip)>>
  <2>1. UnitFirst(r, uip)
    BY <1>4 DEF UnitFirst, Range
  <2>2. QED
    BY <1>4, <2>1, OnlyFirst
<1>5. CASE XorAdds(r, h, offline, xors, cone, uip)
  <2>1. /\ m >= 2
        /\ r.learn = <<Tuple(uip)>> \o EncodeXorChain(Tuple(V), q.parity, h.next)
        /\ r.hook = [h EXCEPT !.next = @ + m - 2]
    BY <1>5 DEF XorAdds
  <2> DEFINE k == n + m - 2
             w == Tuple(V)
  <2> HIDE DEF n, V, m, q
  <2>2. k \in Nat /\ n <= k /\ h.next + m - 2 = k + 1 /\ (k + 1) - 1 = k /\ h.next <= k + 1
    <3>1. n \in Nat /\ m \in Nat /\ m >= 2 /\ h.next = n + 1
      BY <1>1, <1>2, <2>1
    <3>2. QED
      BY <3>1
  <2>3. w \in Seq(1..n) /\ Len(w) = m /\ \A i, j \in 1..Len(w) : i # j => w[i] # w[j]
    <3>1. V \in SUBSET (Int \ {0}) /\ IsFiniteSet(V)
      <4>1. V \in SUBSET Literals(n)
        BY <1>1, <1>2 DEF Literals
      <4>2. QED
        BY <1>1, <4>1, LiteralsFinite, FS_Subset
    <3>2. w \in Seq(V) /\ Len(w) = Cardinality(V) /\ \A i, j \in 1..Len(w) : i # j => w[i] # w[j]
      BY <3>1, TupleIsAll
    <3>3. w \in Seq(1..n)
      BY <1>2, <3>2, SeqMonotonic
    <3>4. QED
      BY <3>2, <3>3 DEF m
  <2> DEFINE T == {c \in Clauses(k) : c = Tuple(uip) \/ Len(c) > 1}
  <2> HIDE DEF w
  <2>4. EncodeXorChain(w, q.parity, n + 1) \in Seq(T)
    <3>1. EncodeXorChain(w, q.parity, n + 1) \in Seq(Wide(k))
      BY <1>1, <2>1, <2>3, ChainTyped
    <3>2. Wide(k) \subseteq T
      BY DEF Wide
    <3> HIDE DEF T
    <3>3. QED
      BY <3>1, <3>2, SeqMonotonic
  <2>5. <<Tuple(uip)>> \in Seq(T)
    <3>1. Tuple(uip) \in Clauses(n)
      BY <1>1, TupleTyped DEF n
    <3>2. Tuple(uip) \in Clauses(k)
      BY <1>1, <2>2, <3>1, ClausesGrow
    <3>3. QED
      BY <3>2
  <2>6. r.learn \in Seq(Clauses(k)) /\ UnitFirst(r, uip)
    <3> HIDE DEF T
    <3>1. \A x, y \in Seq(T) : x \o y \in Seq(T)
      OBVIOUS
    <3>2. r.learn = <<Tuple(uip)>> \o EncodeXorChain(w, q.parity, n + 1)
      BY <1>1, <2>1 DEF w
    <3>3. r.learn \in Seq(T)
      BY <2>4, <2>5, <3>1, <3>2
    <3>4. T \subseteq Clauses(k) /\ \A c \in T : c = Tuple(uip) \/ Len(c) > 1
      BY DEF T
    <3>5. r.learn \in Seq(Clauses(k))
      BY <3>3, <3>4, SeqMonotonic
    <3>6. Range(r.learn) \subseteq T
      BY <3>3 DEF Range
    <3>7. QED
      BY <3>4, <3>5, <3>6 DEF UnitFirst
  <2>7. r.hook = [pairs |-> h.pairs, gates |-> h.gates, next |-> k + 1]
    <3>1. \A P, G, N, M : [[pairs |-> P, gates |-> G, next |-> N] EXCEPT !.next = M]
                              = [pairs |-> P, gates |-> G, next |-> M]
      OBVIOUS
    <3>2. h = [pairs |-> h.pairs, gates |-> h.gates, next |-> h.next]
      BY DEF HookTyped
    <3>3. r.hook = [h EXCEPT !.next = k + 1]
      BY <2>1, <2>2
    <3>4. QED
      BY <3>1, <3>2, <3>3
  <2> HIDE DEF k
  <2>8. HookTyped(r.hook)
    <3>1. r.hook.pairs = h.pairs /\ r.hook.gates = h.gates /\ r.hook.next = k + 1
      BY <2>7
    <3>2. \A p \in h.pairs : \E a, b \in Literals(k) : a # b /\ p = {a, b}
      <4>1. \A p \in h.pairs : \E a, b \in Literals(n) : a # b /\ p = {a, b}
        BY DEF HookTyped, n
      <4>2. Literals(n) \subseteq Literals(k)
        BY <1>1, <2>2, ClausesGrow
      <4>3. QED
        BY <4>1, <4>2
    <3>3. DOMAIN h.gates \subseteq h.pairs /\ \A p \in DOMAIN h.gates : h.gates[p] \in 1..n
      BY DEF HookTyped, n
    <3>4. \A p \in DOMAIN h.gates : h.gates[p] \in 1..k
      BY <1>1, <2>2, <3>3
    <3>5. QED
      BY <2>2, <2>7, <3>1, <3>2, <3>3, <3>4 DEF HookTyped
  <2>9. r.hook.next = k + 1
    BY <2>7
  <2>10. QED
    BY <2>2, <2>6, <2>8, <2>9 DEF Taught
<1>6. QED
  BY <1>3, <1>4, <1>5

----------------------------------------------------------------------------
\* The trail.

\* The entries of a trail over n variables and m clauses.
Entries(n, m) == [lit : Literals(n), why : 0..m, level : Nat]

\* Levels are in order, and no variable is assigned twice.
Ordered(tr) ==
    \A i, j \in DOMAIN tr : i < j => tr[i].level <= tr[j].level /\ Var(tr[i].lit) # Var(tr[j].lit)

\* The reason of a literal has it, and its other literals were false before.
Reasoned(tr, clauses) ==
    \A i \in DOMAIN tr : tr[i].why # Decision =>
       /\ tr[i].lit \in Range(clauses[tr[i].why])
       /\ \A l \in Range(clauses[tr[i].why]) \ {tr[i].lit} : \E j \in 1..i - 1 : tr[j].lit = -l

TrailFits(tr, clauses, n) ==
    /\ tr \in Seq(Entries(n, Len(clauses)))
    /\ Ordered(tr)
    /\ Reasoned(tr, clauses)

\* The fields of the entries of a trail.
LEMMA EntryTyped ==
    ASSUME NEW n \in Nat, NEW m \in Nat, NEW tr \in Seq(Entries(n, m))
    PROVE  /\ Len(tr) \in Nat /\ DOMAIN tr = 1..Len(tr)
           /\ \A i \in 1..Len(tr) : /\ tr[i] \in Entries(n, m)
                                    /\ tr[i].lit \in Literals(n) /\ tr[i].lit \in Int \ {0}
                                    /\ -tr[i].lit \in Literals(n)
                                    /\ tr[i].why \in 0..m /\ tr[i].level \in Nat
<1>1. Len(tr) \in Nat /\ DOMAIN tr = 1..Len(tr) /\ \A i \in 1..Len(tr) : tr[i] \in Entries(n, m)
  OBVIOUS
<1>2. \A e \in Entries(n, m) : e.lit \in Literals(n) /\ e.why \in 0..m /\ e.level \in Nat
  BY DEF Entries
<1>3. \A l \in Literals(n) : l \in Int \ {0} /\ -l \in Literals(n)
  BY DEF Literals
<1>4. QED
  BY <1>1, <1>2, <1>3

\* What Value says of a literal.
LEMMA ValueTells ==
    ASSUME NEW n \in Nat, NEW m \in Nat, NEW tr \in Seq(Entries(n, m)), Ordered(tr), NEW l \in Literals(n)
    PROVE  /\ Value(tr, l) \in {-1, 0, 1}
           /\ Value(tr, l) > 0 <=> \E i \in 1..Len(tr) : tr[i].lit = l
           /\ Value(tr, l) < 0 <=> \E i \in 1..Len(tr) : tr[i].lit = -l
           /\ Value(tr, l) >= 0 <=> ~\E i \in 1..Len(tr) : tr[i].lit = -l
           /\ Value(tr, l) = 0 <=> ~\E i \in 1..Len(tr) : Var(tr[i].lit) = Var(l)
<1>1. l \in Int \ {0} /\ Len(tr) \in Nat /\ DOMAIN tr = 1..Len(tr)
  BY DEF Literals
<1>2. \A i \in 1..Len(tr) : tr[i].lit \in Int \ {0}
  BY EntryTyped
<1>3. \A i, j \in 1..Len(tr) : Var(tr[i].lit) = Var(tr[j].lit) => i = j
  BY <1>1 DEF Ordered
<1>4. \A x \in Int \ {0} : Var(x) = Var(l) <=> x = l \/ x = -l
  BY <1>1 DEF Var
<1>5. -l # l
  BY <1>1
<1>6. \A i, j \in 1..Len(tr) : ~(tr[i].lit = l /\ tr[j].lit = -l)
  BY <1>1, <1>2, <1>3, <1>4, <1>5
<1>7. \A x : x \in Lits(tr) <=> \E i \in 1..Len(tr) : tr[i].lit = x
  BY <1>1 DEF Lits
<1>8. CASE l \in Lits(tr)
  <2>1. Value(tr, l) = 1
    BY <1>8 DEF Value
  <2>2. QED
    BY <1>1, <1>4, <1>6, <1>7, <1>8, <2>1
<1>9. CASE l \notin Lits(tr) /\ -l \in Lits(tr)
  <2>1. Value(tr, l) = -1
    BY <1>9 DEF Value
  <2>2. \E i \in 1..Len(tr) : Var(tr[i].lit) = Var(l)
    BY <1>2, <1>4, <1>7, <1>9
  <2>3. QED
    BY <1>7, <1>9, <2>1, <2>2
<1>10. CASE l \notin Lits(tr) /\ -l \notin Lits(tr)
  <2>1. Value(tr, l) = 0
    BY <1>10 DEF Value
  <2>2. ~\E i \in 1..Len(tr) : Var(tr[i].lit) = Var(l)
    BY <1>2, <1>4, <1>7, <1>10
  <2>3. QED
    BY <1>7, <1>10, <2>1, <2>2
<1>11. QED
  BY <1>8, <1>9, <1>10

\* The level of the last entry is the highest.
LEMMA CurLevelIsTop ==
    ASSUME NEW n \in Nat, NEW m \in Nat, NEW tr \in Seq(Entries(n, m)), Ordered(tr)
    PROVE  CurLevel(tr) \in Nat /\ \A i \in 1..Len(tr) : tr[i].level <= CurLevel(tr)
<1>1. Len(tr) \in Nat /\ DOMAIN tr = 1..Len(tr) /\ \A i \in 1..Len(tr) : tr[i].level \in Nat
  BY EntryTyped
<1>2. CASE tr = <<>>
  BY <1>2 DEF CurLevel
<1>3. CASE tr # <<>>
  <2>1. Len(tr) \in 1..Len(tr) /\ CurLevel(tr) = tr[Len(tr)].level
    BY <1>1, <1>3 DEF CurLevel
  <2>2. PICK k \in Nat : k = Len(tr)
    BY <1>1
  <2>3. \A i \in 1..k : i = k \/ i < k
    OBVIOUS
  <2>4. \A i \in 1..k : tr[i].level <= tr[k].level
    <3>1. \A i \in 1..k : i < k => tr[i].level <= tr[k].level
      BY <1>1, <2>1, <2>2 DEF Ordered
    <3>2. \A i \in 1..k : tr[i].level \in Nat /\ tr[k].level \in Nat
      BY <1>1, <2>1, <2>2
    <3>3. QED
      BY <2>3, <3>1, <3>2
  <2>5. QED
    BY <1>1, <2>1, <2>2, <2>4
<1>4. QED
  BY <1>2, <1>3

\* A literal that is open goes to the end of the trail.
LEMMA EnqueueFits ==
    ASSUME NEW n \in Nat, NEW clauses, Len(clauses) \in Nat, NEW tr, TrailFits(tr, clauses, n),
           NEW l \in Literals(n), Value(tr, l) = 0,
           NEW why \in 0..Len(clauses), NEW level \in Nat, level >= CurLevel(tr),
           why # Decision => /\ l \in Range(clauses[why])
                             /\ \A m \in Range(clauses[why]) \ {l} : \E j \in 1..Len(tr) : tr[j].lit = -m
    PROVE  /\ TrailFits(Enqueue(tr, l, why, level), clauses, n)
           /\ Len(Enqueue(tr, l, why, level)) = Len(tr) + 1
           /\ \A i \in 1..Len(tr) : Enqueue(tr, l, why, level)[i] = tr[i]
           /\ Enqueue(tr, l, why, level)[Len(tr) + 1] = [lit |-> l, why |-> why, level |-> level]
           /\ CurLevel(Enqueue(tr, l, why, level)) = level
<1> DEFINE e == [lit |-> l, why |-> why, level |-> level]
           T == Entries(n, Len(clauses))
           new == Enqueue(tr, l, why, level)
<1>1. new = Append(tr, e) /\ e \in T /\ tr \in Seq(T) /\ e.lit = l /\ e.why = why /\ e.level = level
  BY DEF Enqueue, TrailFits, Entries
<1> HIDE DEF e, T
<1>2. /\ new \in Seq(T) /\ Len(new) = Len(tr) + 1 /\ Len(tr) \in Nat /\ DOMAIN new = 1..Len(tr) + 1
      /\ DOMAIN tr = 1..Len(tr)
      /\ \A i \in 1..Len(tr) : new[i] = tr[i]
      /\ new[Len(tr) + 1] = e
  BY <1>1
<1> HIDE DEF new
<1>3. /\ \A i \in 1..Len(tr) : tr[i].level <= CurLevel(tr) /\ tr[i].level \in Nat
      /\ CurLevel(tr) \in Nat
  <2>1. tr \in Seq(Entries(n, Len(clauses))) /\ Ordered(tr)
    BY DEF TrailFits
  <2>2. QED
    BY <2>1, CurLevelIsTop, EntryTyped
<1>4. \A i \in 1..Len(tr) : Var(tr[i].lit) # Var(l)
  <2>1. tr \in Seq(Entries(n, Len(clauses))) /\ Ordered(tr)
    BY DEF TrailFits
  <2>2. QED
    BY <2>1, ValueTells
<1>5. Ordered(new)
  <2>1. ASSUME NEW i \in 1..Len(tr) + 1, NEW j \in 1..Len(tr) + 1, i < j
        PROVE  new[i].level <= new[j].level /\ Var(new[i].lit) # Var(new[j].lit)
    <3>1. i \in 1..Len(tr) /\ new[i] = tr[i]
      BY <1>2, <2>1
    <3>2. CASE j = Len(tr) + 1
      BY <1>1, <1>2, <1>3, <1>4, <3>1, <3>2
    <3>3. CASE j # Len(tr) + 1
      <4>1. j \in 1..Len(tr) /\ new[j] = tr[j]
        BY <1>2, <3>3
      <4>2. QED
        BY <1>2, <2>1, <3>1, <4>1 DEF TrailFits, Ordered
    <3>4. QED
      BY <3>2, <3>3
  <2>2. QED
    BY <1>2, <2>1 DEF Ordered
<1>6. Reasoned(new, clauses)
  <2>1. ASSUME NEW i \in 1..Len(tr) + 1, new[i].why # Decision
        PROVE  /\ new[i].lit \in Range(clauses[new[i].why])
               /\ \A m \in Range(clauses[new[i].why]) \ {new[i].lit} : \E j \in 1..i - 1 : new[j].lit = -m
    <3>1. CASE i = Len(tr) + 1
      <4>1. new[i] = e /\ i - 1 = Len(tr)
        BY <1>2, <3>1
      <4>2. QED
        BY <1>1, <1>2, <2>1, <4>1
    <3>2. CASE i # Len(tr) + 1
      <4>1. i \in 1..Len(tr) /\ new[i] = tr[i] /\ \A j \in 1..i - 1 : j \in 1..Len(tr)
        BY <1>2, <3>2
      <4>2. /\ tr[i].lit \in Range(clauses[tr[i].why])
            /\ \A m \in Range(clauses[tr[i].why]) \ {tr[i].lit} : \E j \in 1..i - 1 : tr[j].lit = -m
        BY <1>2, <2>1, <4>1 DEF TrailFits, Reasoned
      <4>3. QED
        BY <1>2, <4>1, <4>2
    <3>3. QED
      BY <3>1, <3>2
  <2>2. QED
    BY <1>2, <2>1 DEF Reasoned
<1>7. CurLevel(new) = level
  <2>1. new # <<>>
    BY <1>2
  <2>2. QED
    BY <1>1, <1>2, <2>1 DEF CurLevel
<1>8. QED
  BY <1>2, <1>5, <1>6, <1>7 DEF TrailFits, new, T, e

\* A prefix of a trail is a trail.
LEMMA PrefixFits ==
    ASSUME NEW n \in Nat, NEW clauses, Len(clauses) \in Nat, NEW tr, TrailFits(tr, clauses, n), NEW k \in 0..Len(tr)
    PROVE  /\ TrailFits(SubSeq(tr, 1, k), clauses, n)
           /\ Len(SubSeq(tr, 1, k)) = k
           /\ \A i \in 1..k : SubSeq(tr, 1, k)[i] = tr[i]
<1> DEFINE T == Entries(n, Len(clauses))
           new == SubSeq(tr, 1, k)
<1>1. tr \in Seq(T) /\ Len(tr) \in Nat /\ DOMAIN tr = 1..Len(tr)
  BY DEF TrailFits
<1> HIDE DEF T
<1>2. /\ new \in Seq(T) /\ Len(new) = k /\ k \in Nat /\ DOMAIN new = 1..k
      /\ \A i \in 1..k : new[i] = tr[i] /\ i \in 1..Len(tr)
  <2>1. k \in 0..Len(tr) /\ 1 \in 1..Len(tr) + 1
    BY <1>1
  <2>2. new \in Seq(T) /\ Len(new) = k /\ \A i \in 1..k : new[i] = tr[i]
    BY <1>1, <2>1, SubSeqProperties
  <2>3. QED
    BY <1>1, <2>2
<1> HIDE DEF new
<1>3. Ordered(new)
  BY <1>1, <1>2 DEF TrailFits, Ordered
<1>4. Reasoned(new, clauses)
  <2>1. ASSUME NEW i \in 1..k, new[i].why # Decision
        PROVE  /\ new[i].lit \in Range(clauses[new[i].why])
               /\ \A m \in Range(clauses[new[i].why]) \ {new[i].lit} : \E j \in 1..i - 1 : new[j].lit = -m
    <3>1. new[i] = tr[i] /\ i \in 1..Len(tr) /\ \A j \in 1..i - 1 : j \in 1..k
      BY <1>2
    <3>2. /\ tr[i].lit \in Range(clauses[tr[i].why])
          /\ \A m \in Range(clauses[tr[i].why]) \ {tr[i].lit} : \E j \in 1..i - 1 : tr[j].lit = -m
      BY <1>1, <2>1, <3>1 DEF TrailFits, Reasoned
    <3>3. QED
      BY <1>2, <3>1, <3>2
  <2>2. QED
    BY <1>2, <2>1 DEF Reasoned
<1>5. QED
  BY <1>2, <1>3, <1>4 DEF TrailFits, new, T

\* Jumping back keeps the entries up to some place: those of the levels that stay.
BacksTo(tr, level, k) ==
    /\ Backtrack(tr, level) = SubSeq(tr, 1, k)
    /\ \A i \in 1..Len(tr) : tr[i].level <= level <=> i <= k

\* A jump back keeps a part of the trail from its start, up to some k.
LEMMA BacktrackCuts ==
    ASSUME NEW n \in Nat, NEW m \in Nat, NEW tr \in Seq(Entries(n, m)), Ordered(tr), NEW level \in Nat
    PROVE  \E k \in 0..Len(tr) : BacksTo(tr, level, k)
<1>1. /\ Len(tr) \in Nat /\ DOMAIN tr = 1..Len(tr)
      /\ \A i \in 1..Len(tr) : tr[i].level \in Nat
  BY EntryTyped
<1>2. PICK N \in Nat : N = Len(tr)
  BY <1>1
<1> DEFINE S == {i \in 1..N : tr[i].level <= level}
           B == {i \in 1..N : ~(tr[i].level <= level)}
<1>3. Backtrack(tr, level) = SubSeq(tr, 1, Cardinality(S))
  BY <1>1, <1>2 DEF Backtrack
<1>4. \A i, j \in 1..N : i < j => tr[i].level <= tr[j].level
  BY <1>1, <1>2 DEF Ordered
<1>5. \E k \in 0..N : S = 1..k
  <2>1. CASE B = {}
    <3>1. S = 1..N
      BY <2>1
    <3>2. QED
      BY <3>1
  <2>2. CASE B # {}
    <3>1. PICK b \in B : \A c \in B : b <= c
      <4>1. B \in SUBSET Nat
        OBVIOUS
      <4> HIDE DEF B
      <4>2. QED
        BY <2>2, <4>1, LeastNat
    <3>2. \A i \in 1..N : i \in S <=> i < b
      <4>1. TAKE i \in 1..N
      <4>2. b \in 1..N /\ ~(tr[b].level <= level) /\ tr[b].level \in Nat /\ tr[i].level \in Nat
        BY <1>1, <1>2
      <4>3. i < b => i \in S
        <5>1. i \in B => b <= i
          BY <3>1
        <5>2. QED
          BY <5>1, <4>2
      <4>4. ~(i < b) => i \notin S
        <5>1. ~(i < b) => i = b \/ b < i
          BY <4>2
        <5>2. b < i => tr[b].level <= tr[i].level
          BY <1>4, <4>2
        <5>3. QED
          BY <5>1, <5>2, <4>2
      <4>5. QED
        BY <4>3, <4>4
    <3>3. S = 1..b - 1 /\ b - 1 \in 0..N
      BY <3>2
    <3>4. QED
      BY <3>3
  <2>3. QED
    BY <2>1, <2>2
<1>6. PICK k \in 0..N : S = 1..k
  BY <1>5
<1>7. Cardinality(1..k) = k
  <2>1. 1 \in Int /\ k \in Int
    OBVIOUS
  <2>2. QED
    BY <2>1, FS_Interval
<1>8. Backtrack(tr, level) = SubSeq(tr, 1, k)
  BY <1>3, <1>6, <1>7
<1>9. \A i \in 1..N : tr[i].level <= level <=> i <= k
  <2>1. \A i \in 1..N : i \in S <=> i \in 1..k
    BY <1>6
  <2>2. \A i \in 1..N : i \in 1..k <=> i <= k
    OBVIOUS
  <2>3. \A i \in 1..N : i \in S <=> tr[i].level <= level
    OBVIOUS
  <2> HIDE DEF S
  <2>4. QED
    BY <2>1, <2>2, <2>3
<1>10. QED
  BY <1>2, <1>8, <1>9 DEF BacksTo

\* More clauses do not matter.
LEMMA MoreClausesFit ==
    ASSUME NEW n \in Nat, NEW m \in Nat, n <= m, NEW X, NEW db1 \in Seq(X), NEW db2 \in Seq(X), Len(db1) <= Len(db2),
           \A i \in 1..Len(db1) : Range(db2[i]) = Range(db1[i]),
           NEW tr, TrailFits(tr, db1, n)
    PROVE  TrailFits(tr, db2, m)
<1>1. Entries(n, Len(db1)) \subseteq Entries(m, Len(db2))
  BY ClausesGrow DEF Entries
<1>2. tr \in Seq(Entries(n, Len(db1)))
  BY DEF TrailFits
<1>3. tr \in Seq(Entries(m, Len(db2)))
  BY <1>1, <1>2, SeqMonotonic
<1>4. \A i \in DOMAIN tr : tr[i].why # Decision => Range(db2[tr[i].why]) = Range(db1[tr[i].why])
  <2>1. TAKE i \in DOMAIN tr
  <2>2. Len(db1) \in Nat
    OBVIOUS
  <2>3. tr[i].why \in 0..Len(db1)
    BY <1>2, <2>2, EntryTyped
  <2>4. QED
    BY <2>2, <2>3 DEF Decision
<1>5. QED
  BY <1>3, <1>4 DEF TrailFits, Reasoned

\* A trail grown by entries of one level.
Grown(new, tr, level) ==
    /\ Len(tr) <= Len(new)
    /\ \A i \in 1..Len(tr) : new[i] = tr[i]
    /\ \A i \in Len(tr) + 1..Len(new) : new[i].level = level

\* Units that are open go to the trail, whatever is open twice once.
LEMMA UnitsFit ==
    ASSUME NEW n \in Nat, NEW clauses, Len(clauses) \in Nat, NEW tr, TrailFits(tr, clauses, n),
           NEW lits \in Seq(Literals(n)), NEW level \in Nat, level >= CurLevel(tr)
    PROVE  /\ TrailFits(EnqueueUnits(tr, lits, level), clauses, n)
           /\ Grown(EnqueueUnits(tr, lits, level), tr, level)
           /\ \A i \in Len(tr) + 1..Len(EnqueueUnits(tr, lits, level)) :
                 /\ EnqueueUnits(tr, lits, level)[i].why = Decision
                 /\ EnqueueUnits(tr, lits, level)[i].lit \in Range(lits)
<1> DEFINE T == Entries(n, Len(clauses))
           open == {i \in DOMAIN lits : /\ Value(tr, lits[i]) = 0
                                        /\ \A j \in 1..i - 1 : Var(lits[j]) # Var(lits[i])}
           q == Select(lits, open)
           m == Cardinality(open)
           more == [k \in 1..m |-> [lit |-> q[k], why |-> Decision, level |-> level]]
           new == EnqueueUnits(tr, lits, level)
           N == Len(tr)
<1>1. tr \in Seq(T) /\ N \in Nat /\ DOMAIN tr = 1..N
  BY DEF TrailFits
<1>2. /\ q \in Seq(Literals(n)) /\ Len(q) = m /\ m \in Nat
      /\ \A k \in 1..m : \E i \in open : q[k] = lits[i]
      /\ \A j, k \in 1..m : j # k => \E h, i \in open : h # i /\ q[j] = lits[h] /\ q[k] = lits[i]
  <2>1. open \in SUBSET DOMAIN lits
    OBVIOUS
  <2> HIDE DEF open
  <2>2. q \in Seq(Literals(n)) /\ Len(q) = m /\ m \in Nat
    BY <2>1, SelectLists
  <2>3. \A k \in 1..m : \E i \in open : q[k] = lits[i]
    BY SMTT(30), <2>1, SelectLists
  <2>4. \A j, k \in 1..m : j # k => \E h, i \in open : h # i /\ q[j] = lits[h] /\ q[k] = lits[i]
    BY SMTT(30), <2>1, SelectLists
  <2>5. QED
    BY <2>2, <2>3, <2>4
<1>3. \A i \in open : lits[i] \in Literals(n) /\ lits[i] \in Range(lits) /\ Value(tr, lits[i]) = 0
  BY DEF Range
<1>4. \A h, i \in open : h # i => Var(lits[h]) # Var(lits[i])
  <2>1. ASSUME NEW h \in open, NEW i \in open, h < i PROVE Var(lits[h]) # Var(lits[i])
    <3>1. h \in 1..i - 1
      BY <2>1
    <3>2. QED
      BY <3>1
  <2>2. \A h, i \in open : h \in Nat /\ i \in Nat
    OBVIOUS
  <2> HIDE DEF open
  <2>3. QED
    BY <2>1, <2>2
<1>5. new = tr \o more
  BY DEF EnqueueUnits
<1> HIDE DEF open, q, m, new, N
<1>6. /\ \A k \in 1..m : /\ q[k] \in Literals(n) /\ q[k] \in Range(lits)
                         /\ \A i \in 1..N : Var(tr[i].lit) # Var(q[k])
      /\ \A j, k \in 1..m : j # k => Var(q[j]) # Var(q[k])
  <2>1. ASSUME NEW l \in Literals(n), Value(tr, l) = 0 PROVE \A i \in 1..N : Var(tr[i].lit) # Var(l)
    <3>1. tr \in Seq(Entries(n, Len(clauses))) /\ Ordered(tr)
      BY DEF TrailFits
    <3>2. QED
      BY <2>1, <3>1, ValueTells DEF N
  <2>2. \A k \in 1..m : /\ q[k] \in Literals(n) /\ q[k] \in Range(lits)
                        /\ \A i \in 1..N : Var(tr[i].lit) # Var(q[k])
    BY <1>2, <1>3, <2>1
  <2>3. \A j, k \in 1..m : j # k => Var(q[j]) # Var(q[k])
    BY <1>2, <1>4
  <2>4. QED
    BY <2>2, <2>3
<1>7. more \in [1..m -> T] /\ more \in Seq(T) /\ Len(more) = m
  <2>1. \A k \in 1..m : [lit |-> q[k], why |-> Decision, level |-> level] \in T
    BY <1>6 DEF Entries, Decision
  <2> HIDE DEF T
  <2>2. more \in [1..m -> T]
    BY <2>1
  <2>3. QED
    BY <1>2, <2>2, IsASeq
<1>8. \A k \in 1..m : more[k].lit = q[k] /\ more[k].why = Decision /\ more[k].level = level
  OBVIOUS
<1> HIDE DEF T, more
<1>9. /\ new \in Seq(T) /\ Len(new) = N + m /\ DOMAIN new = 1..N + m
      /\ \A i \in 1..N : new[i] = tr[i]
      /\ \A k \in 1..m : new[N + k] = more[k]
  <2>1. /\ tr \o more \in Seq(T) /\ Len(tr \o more) = Len(tr) + Len(more)
        /\ tr \o more = [i \in 1..Len(tr) + Len(more) |-> IF i <= Len(tr) THEN tr[i] ELSE more[i - Len(tr)]]
    BY <1>1, <1>7, ConcatShape
  <2>2. new \in Seq(T) /\ Len(new) = N + m
    BY <1>5, <1>7, <2>1 DEF N
  <2>3. new = [i \in 1..N + m |-> IF i <= N THEN tr[i] ELSE more[i - N]]
    BY <1>5, <1>7, <2>1 DEF N
  <2>4. \A i \in 1..N : i \in 1..N + m /\ i <= N
    BY <1>1, <1>2
  <2>5. \A k \in 1..m : N + k \in 1..N + m /\ ~(N + k <= N) /\ (N + k) - N = k
    BY <1>1, <1>2
  <2>6. QED
    BY <2>2, <2>3, <2>4, <2>5
<1>10. \A i \in 1..N + m : i \in 1..N \/ (i - N \in 1..m /\ new[i] = more[i - N])
  <2>1. ASSUME NEW i \in 1..N + m, i \notin 1..N PROVE i - N \in 1..m /\ i = N + (i - N)
    BY <1>1, <1>2, <2>1
  <2>2. QED
    BY <1>9, <2>1
<1>11. \A i \in 1..N : tr[i].level \in Nat /\ tr[i].level <= level
  <2>1. tr \in Seq(Entries(n, Len(clauses))) /\ Ordered(tr)
    BY DEF TrailFits
  <2>2. CurLevel(tr) \in Nat /\ \A i \in 1..Len(tr) : tr[i].level <= CurLevel(tr) /\ tr[i].level \in Nat
    BY <2>1, CurLevelIsTop, EntryTyped
  <2>3. QED
    BY <2>2 DEF N
<1>12. Ordered(new)
  <2>1. ASSUME NEW i \in 1..N + m, NEW j \in 1..N + m, i < j
        PROVE  new[i].level <= new[j].level /\ Var(new[i].lit) # Var(new[j].lit)
    <3>1. CASE i \in 1..N /\ j \in 1..N
      BY <1>1, <1>9, <2>1, <3>1 DEF TrailFits, Ordered
    <3>2. CASE i \in 1..N /\ j - N \in 1..m /\ new[j] = more[j - N]
      BY <1>6, <1>8, <1>9, <1>11, <3>2
    <3>3. CASE i - N \in 1..m /\ new[i] = more[i - N] /\ j - N \in 1..m /\ new[j] = more[j - N]
      <4>1. i - N # j - N
        BY <1>1, <2>1
      <4>2. QED
        BY <1>6, <1>8, <3>3, <4>1
    <3>4. i \in 1..N \/ ~(j \in 1..N)
      BY <1>1, <1>2, <2>1
    <3>5. QED
      BY <1>10, <3>1, <3>2, <3>3, <3>4
  <2>2. QED
    BY <1>9, <2>1 DEF Ordered
<1>13. Reasoned(new, clauses)
  <2>1. ASSUME NEW i \in 1..N + m, new[i].why # Decision
        PROVE  /\ new[i].lit \in Range(clauses[new[i].why])
               /\ \A l \in Range(clauses[new[i].why]) \ {new[i].lit} : \E j \in 1..i - 1 : new[j].lit = -l
    <3>1. i \in 1..N
      BY <1>8, <1>10, <2>1
    <3>2. new[i] = tr[i] /\ \A j \in 1..i - 1 : j \in 1..N
      BY <1>1, <1>9, <3>1
    <3>3. /\ tr[i].lit \in Range(clauses[tr[i].why])
          /\ \A l \in Range(clauses[tr[i].why]) \ {tr[i].lit} : \E j \in 1..i - 1 : tr[j].lit = -l
      BY <1>1, <2>1, <3>1, <3>2 DEF TrailFits, Reasoned
    <3>4. QED
      BY <1>9, <3>2, <3>3
  <2>2. QED
    BY <1>9, <2>1 DEF Reasoned
<1>14. TrailFits(new, clauses, n)
  BY <1>9, <1>12, <1>13 DEF TrailFits, T
<1>15. /\ Grown(new, tr, level)
       /\ \A i \in N + 1..Len(new) : new[i].why = Decision /\ new[i].lit \in Range(lits)
  <2>1. \A i \in N + 1..N + m : i \in 1..N + m /\ i \notin 1..N
    BY <1>1, <1>2
  <2>2. \A i \in N + 1..N + m : new[i].level = level /\ new[i].why = Decision /\ new[i].lit \in Range(lits)
    BY <2>1, <1>6, <1>8, <1>10
  <2>3. N <= N + m
    BY <1>1, <1>2
  <2>4. QED
    BY <1>9, <2>2, <2>3 DEF Grown, N
<1>16. QED
  BY <1>14, <1>15 DEF new, N

\* A trail grown twice is grown.
LEMMA GrownTwice ==
    ASSUME NEW T, NEW a \in Seq(T), NEW b \in Seq(T), NEW c \in Seq(T), NEW level, Grown(b, a, level), Grown(c, b, level)
    PROVE  Grown(c, a, level)
<1>1. Len(a) \in Nat /\ Len(b) \in Nat /\ Len(c) \in Nat
  OBVIOUS
<1>2. Len(a) <= Len(c) /\ \A i \in 1..Len(a) : c[i] = a[i]
  BY <1>1 DEF Grown
<1>3. ASSUME NEW i \in Len(a) + 1..Len(c) PROVE c[i].level = level
  <2>1. (i \in Len(a) + 1..Len(b) /\ i \in 1..Len(b)) \/ i \in Len(b) + 1..Len(c)
    BY <1>1
  <2>2. QED
    BY <2>1 DEF Grown
<1>4. QED
  BY <1>2, <1>3 DEF Grown

\* A trail that grew by a level no lower than its last has that level as its last, or none new.
LEMMA GrownLevel ==
    ASSUME NEW T, NEW a \in Seq(T), NEW b \in Seq(T), NEW level, Grown(b, a, level)
    PROVE  IF Len(b) = Len(a) THEN CurLevel(b) = CurLevel(a) ELSE CurLevel(b) = level
<1>1. Len(a) \in Nat /\ Len(b) \in Nat /\ Len(a) <= Len(b)
  BY DEF Grown
<1>2. CASE Len(b) = Len(a)
  <2>1. a = <<>> <=> Len(a) = 0
    OBVIOUS
  <2>2. b = <<>> <=> Len(b) = 0
    OBVIOUS
  <2>3. Len(a) # 0 => Len(a) \in 1..Len(a)
    BY <1>1
  <2>4. QED
    BY <1>2, <2>1, <2>2, <2>3 DEF Grown, CurLevel
<1>3. CASE Len(b) # Len(a)
  <2>1. Len(b) \in Len(a) + 1..Len(b) /\ Len(b) # 0
    BY <1>1, <1>3
  <2>2. b # <<>>
    BY <2>1
  <2>3. QED
    BY <1>3, <2>1, <2>2 DEF Grown, CurLevel
<1>4. QED
  BY <1>2, <1>3

\* The trails that the rounds over the clauses just added go through.
Settling(s, tr, clauses, added, n, level) ==
    /\ s = [trail |-> s.trail, last |-> s.last]
    /\ s.last \in Nat
    /\ TrailFits(s.trail, clauses, n)
    /\ Grown(s.trail, tr, level)
    /\ CurLevel(s.trail) <= level
    /\ \A i \in Len(tr) + 1..Len(s.trail) : s.trail[i].why \in added

\* A unit that is found goes to the trail with its clause as the reason.
LEMMA FireFits ==
    ASSUME NEW n \in Nat, NEW clauses \in Seq(Clauses(n)), NEW added \in SUBSET (1..Len(clauses)),
           NEW tr, Len(tr) \in Nat, NEW level \in Nat, NEW s, Settling(s, tr, clauses, added, n, level)
    PROVE  Settling(Fire(s, clauses, added, level), tr, clauses, added, n, level)
<1> DEFINE ready == Ready(s.trail, clauses, added)
           later == {i \in ready : i > s.last}
           S == IF later # {} THEN later ELSE ready
           i == Min(S)
           l == CHOOSE m \in Range(clauses[i]) : Value(s.trail, m) = 0
           new == Enqueue(s.trail, l, i, level)
<1>1. CASE ready = {}
  <2>1. Fire(s, clauses, added, level) = s
    BY <1>1 DEF Fire
  <2>2. QED
    BY <2>1
<1>2. CASE ready # {}
  <2>1. Fire(s, clauses, added, level) = [trail |-> new, last |-> i]
    BY <1>2 DEF Fire
  <2>2. i \in ready
    <3>1. ready \in SUBSET (1..Len(clauses)) /\ S \in SUBSET ready /\ S # {}
      BY <1>2 DEF Ready
    <3>2. IsFiniteSet(1..Len(clauses))
      <4>1. 1 \in Int /\ Len(clauses) \in Int
        OBVIOUS
      <4>2. QED
        BY <4>1, FS_Interval
    <3> HIDE DEF ready, later, S
    <3>3. S \in SUBSET (1..Len(clauses)) /\ S \in SUBSET Int
      BY <3>1
    <3>4. IsFiniteSet(S)
      BY <3>2, <3>3, FS_Subset
    <3>5. Min(S) \in S
      BY <3>1, <3>3, <3>4, MinIsLeast
    <3>6. QED
      BY <3>1, <3>5
  <2>3. i \in added /\ i \in 1..Len(clauses) /\ IsUnit(s.trail, clauses[i]) /\ i # Decision /\ i \in Nat
    <3> HIDE DEF i
    <3>1. i \in added /\ IsUnit(s.trail, clauses[i])
      BY <2>2 DEF Ready
    <3>2. \A k \in 1..Len(clauses) : k # 0 /\ k \in Nat
      OBVIOUS
    <3>3. QED
      BY <3>1, <3>2 DEF Decision
  <2> HIDE DEF ready, later, S, i
  <2>4. clauses[i] \in Seq(Literals(n))
    BY <2>3 DEF Clauses
  <2>5. \A m \in Range(clauses[i]) : m \in Literals(n) /\ Value(s.trail, m) <= 0
    BY <2>3, <2>4 DEF IsUnit, Range
  <2> DEFINE O == {m \in Range(clauses[i]) : Value(s.trail, m) = 0}
  <2>6. \E m \in O : O = {m}
    <3>1. Cardinality(O) = 1
      BY <2>3 DEF IsUnit
    <3>2. IsFiniteSet(O)
      <4>1. O \in SUBSET Literals(n)
        BY <2>5
      <4>2. QED
        BY <4>1, LiteralsFinite, FS_Subset
    <3> HIDE DEF O
    <3>3. QED
      BY <3>1, <3>2, FS_Singleton
  <2>7. l \in O /\ O = {l}
    <3>1. l \in O
      BY <2>6
    <3> HIDE DEF l, O
    <3>2. QED
      BY <2>6, <3>1
  <2> HIDE DEF l
  <2>8. /\ l \in Literals(n) /\ Value(s.trail, l) = 0 /\ l \in Range(clauses[i])
    BY <2>5, <2>7
  <2>9. \A m \in Range(clauses[i]) \ {l} : \E j \in 1..Len(s.trail) : s.trail[j].lit = -m
    <3>1. TAKE m \in Range(clauses[i]) \ {l}
    <3>2. m \in Literals(n) /\ Value(s.trail, m) <= 0 /\ Value(s.trail, m) # 0
      BY <2>5, <2>7
    <3>3. s.trail \in Seq(Entries(n, Len(clauses))) /\ Ordered(s.trail) /\ Len(clauses) \in Nat
      BY DEF Settling, TrailFits
    <3>4. /\ Value(s.trail, m) \in {-1, 0, 1}
          /\ Value(s.trail, m) < 0 <=> \E j \in 1..Len(s.trail) : s.trail[j].lit = -m
      <4> DEFINE t == s.trail
                 M == Len(clauses)
      <4>1. t \in Seq(Entries(n, M)) /\ Ordered(t) /\ M \in Nat
        BY <3>3
      <4> HIDE DEF t, M
      <4>2. /\ Value(t, m) \in {-1, 0, 1}
            /\ Value(t, m) < 0 <=> \E j \in 1..Len(t) : t[j].lit = -m
        BY <3>2, <4>1, ValueTells
      <4>3. QED
        BY <4>2 DEF t
    <3>5. Value(s.trail, m) < 0
      BY <3>2, <3>4
    <3>6. QED
      BY <3>4, <3>5
  <2>10. /\ TrailFits(new, clauses, n)
         /\ Len(new) = Len(s.trail) + 1
         /\ \A k \in 1..Len(s.trail) : new[k] = s.trail[k]
         /\ new[Len(s.trail) + 1] = [lit |-> l, why |-> i, level |-> level]
         /\ CurLevel(new) = level
    <3>1. Len(clauses) \in Nat /\ TrailFits(s.trail, clauses, n) /\ level >= CurLevel(s.trail) /\ i \in 0..Len(clauses)
      <4>1. TrailFits(s.trail, clauses, n) /\ CurLevel(s.trail) <= level /\ Len(clauses) \in Nat
        BY DEF Settling
      <4>2. CurLevel(s.trail) \in Nat
        BY <4>1, CurLevelIsTop DEF TrailFits
      <4>3. QED
        BY <4>1, <4>2, <2>3
    <3> DEFINE t == s.trail
    <3>2. /\ TrailFits(t, clauses, n) /\ level >= CurLevel(t) /\ Value(t, l) = 0
          /\ i # Decision => /\ l \in Range(clauses[i])
                             /\ \A m \in Range(clauses[i]) \ {l} : \E j \in 1..Len(t) : t[j].lit = -m
      BY <2>8, <2>9, <3>1
    <3>5. l \in Literals(n) /\ Len(clauses) \in Nat /\ i \in 0..Len(clauses)
      BY <2>8, <3>1
    <3> HIDE DEF t, new
    <3>3. /\ TrailFits(Enqueue(t, l, i, level), clauses, n)
          /\ Len(Enqueue(t, l, i, level)) = Len(t) + 1
          /\ \A k \in 1..Len(t) : Enqueue(t, l, i, level)[k] = t[k]
          /\ Enqueue(t, l, i, level)[Len(t) + 1] = [lit |-> l, why |-> i, level |-> level]
          /\ CurLevel(Enqueue(t, l, i, level)) = level
      BY <3>5, <3>2, EnqueueFits
    <3>4. QED
      BY <3>3 DEF t, new
  <2> HIDE DEF new
  <2>11. Len(s.trail) \in Nat /\ Len(tr) <= Len(s.trail)
    BY DEF Settling, TrailFits, Grown
  <2>12. Grown(new, tr, level)
    <3>1. \A k \in 1..Len(tr) : k \in 1..Len(s.trail) /\ s.trail[k] = tr[k]
      BY <2>11 DEF Settling, Grown
    <3>2. \A k \in Len(tr) + 1..Len(new) : k = Len(s.trail) + 1 \/ (k \in Len(tr) + 1..Len(s.trail) /\ k \in 1..Len(s.trail))
      BY <2>10, <2>11
    <3>3. \A k \in Len(tr) + 1..Len(s.trail) : s.trail[k].level = level
      BY DEF Settling, Grown
    <3>4. \A k \in Len(tr) + 1..Len(new) : new[k].level = level
      BY SMTT(30), <2>10, <3>2, <3>3
    <3>5. Len(tr) <= Len(new)
      BY <2>10, <2>11
    <3>6. QED
      BY <2>10, <3>1, <3>4, <3>5 DEF Grown
  <2>13. \A k \in Len(tr) + 1..Len(new) : new[k].why \in added
    <3>1. \A k \in Len(tr) + 1..Len(new) : k = Len(s.trail) + 1 \/ (k \in Len(tr) + 1..Len(s.trail) /\ k \in 1..Len(s.trail))
      BY <2>10, <2>11
    <3>2. \A k \in Len(tr) + 1..Len(s.trail) : s.trail[k].why \in added
      BY DEF Settling
    <3>3. QED
      BY SMTT(30), <2>3, <2>10, <3>1, <3>2
  <2>14. QED
    BY <2>1, <2>3, <2>10, <2>12, <2>13 DEF Settling
<1>3. QED
  BY <1>1, <1>2

\* ... and so is every trail of the rounds.
LEMMA SettleFits ==
    ASSUME NEW n \in Nat, NEW clauses \in Seq(Clauses(n)), NEW added \in SUBSET (1..Len(clauses)),
           NEW tr, TrailFits(tr, clauses, n), NEW level \in Nat, CurLevel(tr) <= level
    PROVE  /\ TrailFits(Settle(tr, clauses, added, level), clauses, n)
           /\ Grown(Settle(tr, clauses, added, level), tr, level)
           /\ \A i \in Len(tr) + 1..Len(Settle(tr, clauses, added, level)) :
                 Settle(tr, clauses, added, level)[i].why \in added
<1> DEFINE N == Cardinality(added)
           T == Seq(Entries(n, Len(clauses)))
           X == {s \in [trail : T, last : Nat] : Settling(s, tr, clauses, added, n, level)}
           b == [trail |-> tr, last |-> 0]
           g == [x \in (1..N) \X X |-> Fire(x[2], clauses, added, level)]
           G(f) == [k \in 0..N |-> IF k = 0 THEN b ELSE Fire(f[k-1], clauses, added, level)]
           F == CHOOSE f : f = G(f)
<1>1. N \in Nat
  <2>1. 1 \in Int /\ Len(clauses) \in Int
    OBVIOUS
  <2>2. IsFiniteSet(added)
    BY <2>1, FS_Interval, FS_Subset
  <2>3. QED
    BY <2>2, FS_CardinalityType
<1>2. Len(tr) \in Nat /\ tr \in T
  BY DEF TrailFits
<1>3. \A s : Settling(s, tr, clauses, added, n, level) => s \in X
  BY DEF Settling, TrailFits
<1>4. b \in X
  <2>1. Grown(tr, tr, level) /\ Len(tr) + 1..Len(tr) = {}
    BY <1>2 DEF Grown
  <2>2. Settling(b, tr, clauses, added, n, level)
    BY <2>1 DEF Settling
  <2>3. QED
    BY <1>3, <2>2
<1>5. \A s \in X : Fire(s, clauses, added, level) \in X
  <2>1. TAKE s \in X
  <2>2. Settling(s, tr, clauses, added, n, level)
    OBVIOUS
  <2>3. Settling(Fire(s, clauses, added, level), tr, clauses, added, n, level)
    BY <1>2, <2>2, FireFits
  <2> HIDE DEF X
  <2>4. QED
    BY <1>3, <2>3
<1> HIDE DEF N, X, b
<1>6. g \in [(1..N) \X X -> X]
  BY <1>5
<1>7. ASSUME NEW f, f = G(f) PROVE f \in [0..N -> X] /\ f[0] = b
  <2> DEFINE T2 == {k \in 0..N : f[k] \in X}
  <2>1. \A k \in 0..N : f[k] = IF k = 0 THEN b ELSE Fire(f[k-1], clauses, added, level)
    <3> DEFINE e == G(f)
    <3>1. f = e /\ \A k \in 0..N : e[k] = IF k = 0 THEN b ELSE Fire(f[k-1], clauses, added, level)
      BY <1>7
    <3> HIDE DEF e, G
    <3>2. QED
      BY <3>1
  <2>2. 0 \in T2
    BY <1>1, <1>4, <2>1
  <2>3. ASSUME NEW k \in 0..N - 1, k \in T2 PROVE k + 1 \in T2
    <3>1. k + 1 \in 0..N /\ k + 1 # 0 /\ (k + 1) - 1 = k
      BY <1>1
    <3>2. f[k + 1] = Fire(f[k], clauses, added, level)
      BY <2>1, <3>1
    <3>3. QED
      BY <1>5, <2>3, <3>1, <3>2
  <2>4. 0..N \subseteq T2
    <3> HIDE DEF T2
    <3>1. QED
      BY <1>1, <2>2, <2>3, UpTo
  <2>5. \A k \in 0..N : f[k] \in X
    BY <2>4
  <2>6. f = [k \in 0..N |-> f[k]]
    <3> DEFINE e == G(f)
    <3>1. f = e /\ e = [k \in 0..N |-> e[k]]
      BY <1>7
    <3> HIDE DEF e, G
    <3>2. QED
      BY <3>1
  <2>7. f[0] = b /\ 0 \in 0..N
    BY <1>1, <2>1
  <2>8. QED
    BY <2>5, <2>6, <2>7
<1>8. F = G(F)
  <2>1. \E f : /\ f \in [0..N -> X] /\ f[0] = b
               /\ \A k \in 1..N : f[k] = g[<<k, f[k-1]>>]
    <3> HIDE DEF g, G
    <3>1. PICK f : StepsThrough(f, N, X, b, g)
      BY <1>1, <1>4, <1>6, RecursionSteps
    <3>2. QED
      BY <3>1 DEF StepsThrough
  <2>2. PICK f : f \in [0..N -> X] /\ f[0] = b /\ \A k \in 1..N : f[k] = g[<<k, f[k-1]>>]
    BY <2>1
  <2>3. ASSUME NEW k \in 0..N PROVE f[k] = IF k = 0 THEN b ELSE Fire(f[k-1], clauses, added, level)
    <3>1. CASE k = 0
      BY <2>2, <3>1
    <3>2. CASE k # 0
      <4>1. k \in 1..N /\ k - 1 \in 0..N
        BY <1>1, <3>2
      <4>2. f[k-1] \in X
        BY <2>2, <4>1
      <4>3. g[<<k, f[k-1]>>] = Fire(f[k-1], clauses, added, level)
        BY <4>1, <4>2
      <4>4. QED
        BY <2>2, <3>2, <4>1, <4>3
    <3>3. QED
      BY <3>1, <3>2
  <2>4. f = G(f)
    <3>1. f = [k \in 0..N |-> f[k]]
      BY <2>2
    <3>2. QED
      BY <2>3, <3>1
  <2> HIDE DEF G
  <2>5. QED
    BY <2>4
<1>9. Settle(tr, clauses, added, level) = F[N].trail
  <2>1. Rounds(tr, clauses, added, level) = F
    BY Zenon DEF Rounds, N, b
  <2>2. QED
    BY <2>1 DEF Settle, N
<1> HIDE DEF F, G
<1>10. F[N] \in X
  BY <1>1, <1>7, <1>8
<1>11. Settling(F[N], tr, clauses, added, n, level)
  BY <1>10 DEF X
<1>12. QED
  BY <1>9, <1>11 DEF Settling

----------------------------------------------------------------------------
\* The watch lists.

\* A clause is in the lists of its first two literals, once each, and in no other.
WatchesFit(w, clauses) ==
    /\ DOMAIN w \subseteq Int
    /\ \A l \in DOMAIN w : /\ w[l] \in Seq(1..Len(clauses))
                           /\ IsInjective(w[l])
                           /\ Range(w[l]) = Watching(clauses, 1..Len(clauses), l)
    /\ \A i \in 1..Len(clauses) : Len(clauses[i]) > 1 /\ Wakers(clauses, {i}) \subseteq DOMAIN w

\* The numbers of a set in order.
LEMMA AscendingSeq ==
    ASSUME NEW N \in Nat, NEW S \in SUBSET (1..N)
    PROVE  Ascending(S) \in Seq(1..N) /\ IsInjective(Ascending(S)) /\ Range(Ascending(S)) = S
<1>1. S \in SUBSET Int /\ IsFiniteSet(S)
  <2>1. 1 \in Int /\ N \in Int /\ S \in SUBSET (1..N)
    OBVIOUS
  <2>2. IsFiniteSet(1..N)
    BY <2>1, FS_Interval
  <2>3. IsFiniteSet(S)
    BY <2>1, <2>2, FS_Subset
  <2>4. QED
    BY <2>1, <2>3
<1>2. /\ Ascending(S) \in [1..Cardinality(S) -> S]
      /\ Cardinality(S) \in Nat
      /\ \A i, j \in 1..Cardinality(S) : i # j => Ascending(S)[i] # Ascending(S)[j]
      /\ \A x \in S : \E i \in 1..Cardinality(S) : Ascending(S)[i] = x
  BY <1>1, AscendingLists
<1> DEFINE q == Ascending(S)
           n == Cardinality(S)
<1> HIDE DEF q, n
<1>3. q \in [1..n -> S] /\ n \in Nat /\ (\A i, j \in 1..n : i # j => q[i] # q[j]) /\ \A x \in S : \E i \in 1..n : q[i] = x
  BY <1>2 DEF q, n
<1>4. q \in [1..n -> 1..N]
  BY <1>3
<1>5. q \in Seq(1..N)
  BY <1>3, <1>4, IsASeq
<1>6. DOMAIN q = 1..n /\ \A i \in 1..n : q[i] \in S
  BY <1>3
<1>7. IsInjective(q)
  BY <1>3, <1>6 DEF IsInjective
<1>8. Range(q) = S
  <2>1. Range(q) = {q[i] : i \in 1..n}
    BY <1>6 DEF Range
  <2>2. \A x \in S : \E i \in 1..n : q[i] = x
    BY <1>3
  <2>3. QED
    BY <1>6, <2>1, <2>2
<1>9. QED
  BY <1>5, <1>7, <1>8 DEF q

\* New clauses at the end of the database go to the lists of their first two literals.
LEMMA AddFits ==
    ASSUME NEW n \in Nat, NEW old \in Seq(Clauses(n)), NEW more \in Seq(Clauses(n)),
           \A i \in 1..Len(more) : Len(more[i]) > 1,
           NEW w, WatchesFit(w, old)
    PROVE  WatchesFit(AddToDb(w, old \o more, Len(old) + 1..Len(old \o more)), old \o more)
<1> DEFINE new == old \o more
           M == Len(old)
           N == Len(new)
           I == M + 1..N
           v == AddToDb(w, new, I)
<1>1. /\ new \in Seq(Clauses(n)) /\ M \in Nat /\ N \in Nat /\ M <= N
      /\ \A i \in 1..M : new[i] = old[i]
      /\ \A i \in M + 1..N : new[i] = more[i - M] /\ i - M \in 1..Len(more)
  <2>1. /\ new \in Seq(Clauses(n)) /\ M \in Nat /\ Len(more) \in Nat /\ N = M + Len(more)
        /\ new = [i \in 1..M + Len(more) |-> IF i <= M THEN old[i] ELSE more[i - M]]
    BY ConcatShape
  <2> HIDE DEF new, M, N
  <2>2. \A i \in 1..M : i \in 1..M + Len(more) /\ i <= M
    BY <2>1
  <2>3. \A i \in M + 1..N : i \in 1..M + Len(more) /\ ~(i <= M) /\ i - M \in 1..Len(more)
    BY <2>1
  <2>4. M <= N
    BY <2>1
  <2>5. QED
    BY <2>1, <2>2, <2>3, <2>4
<1> HIDE DEF new, N
<1>2. \A i \in 1..N : Len(new[i]) > 1 /\ new[i] \in Seq(Literals(n)) /\ new[i][1] \in Int /\ new[i][2] \in Int
  <2>1. TAKE i \in 1..N
  <2>2. i \in 1..M \/ i \in M + 1..N
    BY <1>1
  <2>3. Len(new[i]) > 1
    BY <1>1, <2>2 DEF WatchesFit
  <2>4. new[i] \in Clauses(n)
    <3>1. N = Len(new)
      BY DEF N
    <3>2. QED
      BY <1>1, <3>1
  <2>5. new[i] \in Seq(Literals(n))
    BY <2>4 DEF Clauses
  <2>6. new[i][1] \in Literals(n) /\ new[i][2] \in Literals(n)
    <3> DEFINE c == new[i]
    <3>1. c \in Seq(Literals(n)) /\ Len(c) > 1
      BY <2>3, <2>5
    <3> HIDE DEF c
    <3>2. c[1] \in Literals(n) /\ c[2] \in Literals(n)
      BY <3>1
    <3>3. QED
      BY <3>2 DEF c
  <2>7. QED
    BY <2>3, <2>5, <2>6 DEF Literals
<1>3. /\ DOMAIN v = DOMAIN w \cup Wakers(new, I)
      /\ \A l \in DOMAIN v : v[l] = WatchList(w, l) \o Ascending(Watching(new, I, l))
  BY DEF AddToDb
<1> HIDE DEF v
<1>4. DOMAIN v \subseteq Int
  <2>1. Wakers(new, I) \subseteq Int
    <3>1. \A i \in I : i \in 1..N
      BY <1>1
    <3>2. \A i \in I : -new[i][1] \in Int /\ -new[i][2] \in Int
      BY <1>2, <3>1
    <3>3. QED
      BY <3>2 DEF Wakers
  <2>2. QED
    BY <1>3, <2>1 DEF WatchesFit
<1>5. ASSUME NEW l \in DOMAIN v
      PROVE  v[l] \in Seq(1..N) /\ IsInjective(v[l]) /\ Range(v[l]) = Watching(new, 1..N, l)
  <2> DEFINE s == WatchList(w, l)
             t == Ascending(Watching(new, I, l))
  <2>1. s \in Seq(1..M) /\ IsInjective(s) /\ Range(s) = Watching(new, 1..M, l)
    <3>1. Watching(new, 1..M, l) = Watching(old, 1..M, l)
      BY <1>1 DEF Watching
    <3>2. CASE l \in DOMAIN w
      BY <3>1, <3>2 DEF WatchList, WatchesFit
    <3>3. CASE l \notin DOMAIN w
      <4>1. s = <<>>
        BY <3>3 DEF WatchList
      <4>2. Watching(old, 1..M, l) = {}
        <5>1. SUFFICES ASSUME NEW i \in 1..M, -l \in {old[i][1], old[i][2]} PROVE FALSE
          BY DEF Watching
        <5>2. i \in 1..N /\ new[i] = old[i]
          BY <1>1
        <5>3. l \in Int /\ l = -(-l)
          BY <1>4
        <5>4. l \in {-old[i][1], -old[i][2]}
          BY <5>1, <5>3
        <5>5. l \in Wakers(old, {i})
          BY <5>4 DEF Wakers
        <5>6. QED
          BY <3>3, <5>5 DEF WatchesFit
      <4>3. <<>> \in Seq(1..M) /\ IsInjective(<<>>) /\ Range(<<>>) = {}
        BY DEF IsInjective, Range
      <4>4. QED
        BY <3>1, <4>1, <4>2, <4>3
    <3>4. QED
      BY <3>2, <3>3
  <2>2. t \in Seq(1..N) /\ IsInjective(t) /\ Range(t) = Watching(new, I, l)
    <3>1. Watching(new, I, l) \in SUBSET (1..N)
      BY <1>1 DEF Watching
    <3>2. QED
      BY <1>1, <3>1, AscendingSeq
  <2> HIDE DEF s, t
  <2>3. s \in Seq(1..N)
    <3>1. 1..M \subseteq 1..N
      BY <1>1
    <3>2. QED
      BY <2>1, <3>1, SeqMonotonic
  <2>4. Watching(new, 1..M, l) \cap Watching(new, I, l) = {}
    BY <1>1 DEF Watching
  <2>5. Watching(new, 1..M, l) \cup Watching(new, I, l) = Watching(new, 1..N, l)
    <3>1. 1..M \cup I = 1..N
      BY <1>1
    <3>2. QED
      BY <3>1 DEF Watching
  <2>6. v[l] = s \o t
    BY <1>3 DEF s, t
  <2>7. s \o t \in Seq(1..N) /\ IsInjective(s \o t) /\ Range(s \o t) = Range(s) \cup Range(t)
    BY <2>1, <2>2, <2>3, <2>4, DisjointJoin
  <2>8. QED
    BY <2>1, <2>2, <2>5, <2>6, <2>7
<1> DEFINE D == Wakers(new, I)
<1>9. DOMAIN v = DOMAIN w \cup D
  BY <1>3
<1>6. \A i \in 1..N : Wakers(new, {i}) \subseteq DOMAIN v
  <2>1. TAKE i \in 1..N
  <2>2. CASE i \in 1..M
    <3>1. Wakers(new, {i}) = Wakers(old, {i})
      BY <1>1, <2>2 DEF Wakers
    <3>2. Wakers(old, {i}) \subseteq DOMAIN w
      BY <2>2 DEF WatchesFit
    <3> HIDE DEF D
    <3>3. QED
      BY <1>9, <3>1, <3>2
  <2>3. CASE i \in I
    <3>1. Wakers(new, {i}) \subseteq D
      BY <2>3 DEF Wakers
    <3> HIDE DEF D
    <3>2. QED
      BY <1>9, <3>1
  <2>4. i \in 1..M \/ i \in I
    <3>1. M \in Nat /\ N \in Nat
      BY <1>1
    <3>2. QED
      BY <3>1
  <2>5. QED
    BY <2>2, <2>3, <2>4
<1>7. WatchesFit(v, new)
  BY <1>2, <1>4, <1>5, <1>6 DEF WatchesFit, N
<1>8. QED
  BY <1>7 DEF v, new, N

\* A place of a list is filled with the last one.
LEMMA WithoutShape ==
    ASSUME NEW T, NEW s \in Seq(T), NEW k \in 1..Len(s)
    PROVE  /\ Without(s, k) \in Seq(T)
           /\ Len(Without(s, k)) = Len(s) - 1
           /\ \A x \in 1..Len(s) - 1 : Without(s, k)[x] = IF x = k THEN s[Len(s)] ELSE s[x]
<1> DEFINE N == Len(s)
           u == [s EXCEPT ![k] = s[N]]
<1>1. N \in Nat /\ N \in 1..N /\ DOMAIN s = 1..N /\ N - 1 \in 0..N /\ N - 1 <= N
  OBVIOUS
<1>2. u \in Seq(T) /\ Len(u) = N /\ \A x \in 1..N : u[x] = IF x = k THEN s[N] ELSE s[x]
  <2>1. s[N] \in T
    BY <1>1
  <2>2. QED
    BY <1>1, <2>1
<1> HIDE DEF u, N
<1>3. /\ SubSeq(u, 1, N - 1) \in Seq(T) /\ Len(SubSeq(u, 1, N - 1)) = N - 1
      /\ \A x \in 1..N - 1 : SubSeq(u, 1, N - 1)[x] = u[x] /\ x \in 1..N
  <2> DEFINE M == N - 1
  <2>1. M \in Nat /\ M <= N
    <3>1. N >= 1
      BY DEF N
    <3>2. QED
      BY <1>1, <3>1
  <2>2. \A x \in 1..M : x \in 1..N
    BY <1>1
  <2> HIDE DEF M
  <2>3. /\ SubSeq(u, 1, M) \in Seq(T) /\ Len(SubSeq(u, 1, M)) = M
        /\ \A x \in 1..M : SubSeq(u, 1, M)[x] = u[x]
    <3>1. \A x \in 1..M : u[x] \in T
      BY <1>2, <2>2
    <3>2. SubSeq(u, 1, M) = [x \in 1..M |-> u[x]]
      BY <1>1, <1>2, <2>1
    <3>3. QED
      BY <2>1, <3>1, <3>2
  <2>4. QED
    BY <2>2, <2>3 DEF M
<1>4. QED
  BY <1>2, <1>3 DEF Without, u, N

\* ... which takes one member out, and leaves those that come later.
LEMMA WithoutMember ==
    ASSUME NEW T, NEW s \in Seq(T), NEW k \in 1..Len(s), IsInjective(s)
    PROVE  /\ IsInjective(Without(s, k))
           /\ Range(Without(s, k)) = Range(s) \ {s[k]}
           /\ \A y \in k + 1..Len(s) : \E x \in k..Len(s) - 1 : Without(s, k)[x] = s[y]
<1> DEFINE N == Len(s)
           u == Without(s, k)
<1>1. /\ N \in Nat /\ k \in 1..N /\ N \in 1..N /\ DOMAIN s = 1..N
      /\ u \in Seq(T) /\ Len(u) = N - 1 /\ DOMAIN u = 1..N - 1
      /\ \A x \in 1..N - 1 : u[x] = IF x = k THEN s[N] ELSE s[x]
  BY WithoutShape
<1> HIDE DEF u, N
<1>2. \A x, y \in 1..N : s[x] = s[y] => x = y
  BY <1>1 DEF IsInjective
<1>3. \A x \in 1..N - 1 : x \in 1..N /\ x # N
  BY <1>1
<1>4. \A x, y \in 1..N - 1 : u[x] = u[y] => x = y
  BY <1>1, <1>2, <1>3
<1>5. Range(u) \subseteq Range(s) \ {s[k]}
  <2>1. ASSUME NEW x \in 1..N - 1 PROVE u[x] \in Range(s) /\ u[x] # s[k]
    <3>1. CASE x = k
      BY <1>1, <1>2, <1>3, <3>1 DEF Range
    <3>2. CASE x # k
      BY <1>1, <1>2, <1>3, <3>2 DEF Range
    <3>3. QED
      BY <3>1, <3>2
  <2>2. QED
    BY <1>1, <2>1 DEF Range
<1>6. ASSUME NEW y \in 1..N, y # k PROVE \E x \in 1..N - 1 : u[x] = s[y] /\ (y > k => x >= k)
  <2>1. CASE y = N
    <3>1. k \in 1..N - 1 /\ k >= k
      BY <1>1, <1>6, <2>1
    <3>2. u[k] = s[y]
      BY <1>1, <2>1, <3>1
    <3>3. QED
      BY <3>1, <3>2
  <2>2. CASE y # N
    <3>1. y \in 1..N - 1 /\ (y > k => y >= k)
      BY <1>1, <2>2
    <3>2. u[y] = s[y]
      BY <1>1, <1>6, <3>1
    <3>3. QED
      BY <3>1, <3>2
  <2>3. QED
    BY <2>1, <2>2
<1>7. Range(s) \ {s[k]} \subseteq Range(u)
  <2>1. ASSUME NEW y \in 1..N, s[y] # s[k] PROVE s[y] \in Range(u)
    BY <1>1, <1>6, <2>1 DEF Range
  <2>2. QED
    BY <1>1, <2>1 DEF Range
<1>8. \A y \in k + 1..N : \E x \in k..N - 1 : u[x] = s[y]
  <2>1. TAKE y \in k + 1..N
  <2>2. y \in 1..N /\ y # k /\ y > k
    BY <1>1
  <2>3. PICK x \in 1..N - 1 : u[x] = s[y] /\ x >= k
    BY <1>6, <2>2
  <2>4. x \in k..N - 1
    BY <1>1, <2>3
  <2>5. QED
    BY <2>3, <2>4
<1>9. IsInjective(u)
  BY <1>1, <1>4 DEF IsInjective
<1>10. Range(u) = Range(s) \ {s[k]}
  BY <1>5, <1>7
<1>11. QED
  BY <1>8, <1>9, <1>10 DEF u, N

\* The literals of a clause with two of them swapped.
LEMMA SwapShape ==
    ASSUME NEW n \in Nat, NEW c \in Clauses(n), NEW a \in 1..2, NEW j \in 3..Len(c)
    PROVE  /\ Swap(c, a, j) \in Clauses(n) /\ Len(Swap(c, a, j)) = Len(c)
           /\ Range(Swap(c, a, j)) = Range(c)
           /\ Swap(c, a, j)[a] = c[j] /\ Swap(c, a, j)[3 - a] = c[3 - a]
<1> DEFINE N == Len(c)
           d == Swap(c, a, j)
<1>1. c \in Seq(Literals(n)) /\ N \in Nat /\ DOMAIN c = 1..N /\ a \in 1..N /\ 3 - a \in 1..N /\ j \in 1..N /\ 3 - a # a /\ 3 - a # j /\ a # j
      /\ \A x, y \in 1..N : c[x] = c[y] => x = y
  BY DEF Clauses
<1>2. d = [x \in 1..N |-> IF x = j THEN c[a] ELSE IF x = a THEN c[j] ELSE c[x]]
  BY <1>1 DEF Swap
<1>3. \A x \in 1..N : c[x] \in Literals(n)
  BY <1>1
<1> HIDE DEF d, N
<1>4. \A x \in 1..N : d[x] = IF x = j THEN c[a] ELSE IF x = a THEN c[j] ELSE c[x]
  BY <1>2
<1>5. d \in [1..N -> Literals(n)]
  BY <1>1, <1>2, <1>3
<1>6. d \in Seq(Literals(n)) /\ Len(d) = N /\ DOMAIN d = 1..N
  BY <1>1, <1>5, IsASeq
<1>7. \A x, y \in 1..N : d[x] = d[y] => x = y
  BY <1>1, <1>4
<1>8. Range(d) = Range(c)
  BY <1>1, <1>4, <1>6 DEF Range
<1>9. d \in Clauses(n)
  BY <1>6, <1>7 DEF Clauses
<1>10. d[a] = c[j] /\ d[3 - a] = c[3 - a]
  BY <1>1, <1>4
<1>11. QED
  BY <1>6, <1>8, <1>9, <1>10 DEF d, N

\* A watch that moves to another literal of the clause.
LEMMA MoveFits ==
    ASSUME NEW n \in Nat, NEW clauses \in Seq(Clauses(n)), NEW w, WatchesFit(w, clauses),
           NEW l \in DOMAIN w, NEW k \in 1..Len(w[l]),
           NEW a \in 1..2, clauses[w[l][k]][a] = -l, NEW j \in 3..Len(clauses[w[l][k]])
    PROVE  WatchesFit(Watch([w EXCEPT ![l] = Without(@, k)], -clauses[w[l][k]][j], w[l][k]),
                      [clauses EXCEPT ![w[l][k]] = Swap(clauses[w[l][k]], a, j)])
<1> DEFINE N == Len(clauses)
           i == w[l][k]
           c == clauses[i]
           d == Swap(c, a, j)
           m == -c[j]
           new == [clauses EXCEPT ![i] = d]
           v == Watch([w EXCEPT ![l] = Without(@, k)], m, i)
<1>1. N \in Nat /\ DOMAIN clauses = 1..N /\ l \in Int
  BY DEF WatchesFit
<1>2. /\ w[l] \in Seq(1..N) /\ IsInjective(w[l]) /\ Range(w[l]) = Watching(clauses, 1..N, l)
      /\ i \in 1..N
  BY DEF WatchesFit
<1>3. c \in Clauses(n) /\ c \in Seq(Literals(n))
  <2> HIDE DEF i
  <2>1. \A x \in 1..N : clauses[x] \in Clauses(n)
    OBVIOUS
  <2>2. c \in Clauses(n)
    BY <1>2, <2>1
  <2>3. QED
    BY <2>2 DEF Clauses
<1> HIDE DEF i, N, c, d, new, v, m
<1>4. /\ d \in Clauses(n) /\ Len(d) = Len(c) /\ Range(d) = Range(c) /\ d[a] = c[j] /\ d[3 - a] = c[3 - a]
      /\ a \in 1..2 /\ j \in 3..Len(c)
  <2>1. a \in 1..2 /\ j \in 3..Len(c)
    BY DEF c, i
  <2>2. QED
    BY <1>3, <2>1, SwapShape DEF d
<1>5. c[a] = -l
  BY DEF c, i
<1>6. /\ c[j] \in Int /\ c[3 - a] \in Int /\ c[a] \in Int
      /\ c[j] # c[a] /\ c[j] # c[3 - a] /\ c[3 - a] # c[a]
      /\ d[a] \in Int /\ d[3 - a] \in Int
  <2>1. a \in 1..Len(c) /\ 3 - a \in 1..Len(c) /\ j \in 1..Len(c) /\ j # a /\ j # 3 - a /\ 3 - a # a
    BY SMTT(30), <1>3, <1>4
  <2>2. c[j] \in Literals(n) /\ c[3 - a] \in Literals(n) /\ c[a] \in Literals(n)
    BY <1>3, <2>1
  <2>3. \A x, y \in 1..Len(c) : x # y => c[x] # c[y]
    BY <1>3 DEF Clauses
  <2>4. c[j] \in Int /\ c[3 - a] \in Int /\ c[a] \in Int
    BY <2>2 DEF Literals
  <2>5. c[j] # c[a] /\ c[j] # c[3 - a] /\ c[3 - a] # c[a]
    BY <2>1, <2>3
  <2>6. QED
    BY <1>4, <2>4, <2>5
<1>7. \A x \in Int : /\ x \in {c[1], c[2]} <=> x = c[a] \/ x = c[3 - a]
                     /\ x \in {d[1], d[2]} <=> x = c[j] \/ x = c[3 - a]
  <2>1. CASE a = 1
    BY <1>4, <2>1
  <2>2. CASE a = 2
    BY <1>4, <2>2
  <2>3. QED
    BY <1>4, <2>1, <2>2
<1>8. /\ new \in Seq(Clauses(n)) /\ Len(new) = N /\ DOMAIN new = 1..N
      /\ \A x \in 1..N : new[x] = IF x = i THEN d ELSE clauses[x]
  BY <1>1, <1>2, <1>4 DEF new, N
<1>9. m \in Int /\ m # l /\ -m = c[j] /\ -l = c[a] /\ l \in Int
  <2> DEFINE b == c[j]
             e == c[a]
  <2>1. b \in Int /\ e \in Int /\ b # e /\ e = -l /\ l \in Int /\ m = -b
    BY <1>1, <1>5, <1>6 DEF m
  <2> HIDE DEF b, e
  <2>2. m \in Int /\ m # l /\ -m = b /\ -l = e
    BY <2>1
  <2>3. QED
    BY <1>1, <2>2 DEF b, e
<1>10. /\ DOMAIN v = DOMAIN w \cup {m}
       /\ v[m] = Append(WatchList(w, m), i)
       /\ v[l] = Without(w[l], k)
       /\ \A x \in DOMAIN w : x # m /\ x # l => v[x] = w[x]
  <2> DEFINE u == [w EXCEPT ![l] = Without(@, k)]
  <2>1. w = [x \in DOMAIN w |-> w[x]] \/ TRUE
    OBVIOUS
  <2>2. DOMAIN u = DOMAIN w /\ u[l] = Without(w[l], k) /\ \A x \in DOMAIN w : x # l => u[x] = w[x]
    OBVIOUS
  <2>3. v = [x \in DOMAIN u \cup {m} |-> IF x = m THEN Append(WatchList(u, m), i) ELSE u[x]]
    BY DEF v, Watch
  <2> HIDE DEF u
  <2>4. WatchList(u, m) = WatchList(w, m)
    BY <1>9, <2>2 DEF WatchList
  <2>5. DOMAIN v = DOMAIN w \cup {m}
    BY <2>2, <2>3
  <2>6. \A x \in DOMAIN w \cup {m} : v[x] = IF x = m THEN Append(WatchList(w, m), i) ELSE u[x]
    BY <2>2, <2>3, <2>4
  <2>7. QED
    BY <1>9, <2>2, <2>5, <2>6
<1>11. \A x \in Int : x # m /\ x # l => Watching(new, 1..N, x) = Watching(clauses, 1..N, x)
  <2>1. ASSUME NEW x \in Int, x # m, x # l, NEW y \in 1..N
        PROVE  -x \in {new[y][1], new[y][2]} <=> -x \in {clauses[y][1], clauses[y][2]}
    <3>1. CASE y = i
      <4>1. -x \in Int /\ -x # c[j] /\ -x # c[a]
        BY SMTT(30), <1>9, <2>1
      <4>2. -x \in {d[1], d[2]} <=> -x \in {c[1], c[2]}
        BY <1>7, <4>1
      <4>3. new[y] = d /\ clauses[y] = c
        BY <1>8, <3>1 DEF c
      <4>4. QED
        BY <4>2, <4>3
    <3>2. CASE y # i
      BY <1>8, <3>2
    <3>3. QED
      BY <3>1, <3>2
  <2>2. QED
    BY <2>1 DEF Watching
<1>12. Watching(new, 1..N, l) = Watching(clauses, 1..N, l) \ {i}
  <2>1. -l \notin {d[1], d[2]}
    <3>1. -l \in Int /\ -l # c[j] /\ -l # c[3 - a]
      BY <1>6, <1>9
    <3>2. QED
      BY <1>7, <3>1
  <2>2. new[i] = d /\ \A y \in 1..N : y # i => new[y] = clauses[y]
    BY <1>2, <1>8
  <2>3. QED
    BY <2>1, <2>2 DEF Watching
<1>13. Watching(new, 1..N, m) = Watching(clauses, 1..N, m) \cup {i} /\ i \notin Watching(clauses, 1..N, m)
  <2>1. -m \in {d[1], d[2]} /\ -m \notin {c[1], c[2]}
    <3>1. -m \in Int /\ -m = c[j] /\ -m # c[a] /\ -m # c[3 - a]
      BY <1>6, <1>9
    <3>2. QED
      BY <1>7, <3>1
  <2>2. new[i] = d /\ clauses[i] = c /\ \A y \in 1..N : y # i => new[y] = clauses[y]
    BY <1>2, <1>8 DEF c
  <2>3. QED
    BY <1>2, <2>1, <2>2 DEF Watching
<1>14. ASSUME NEW x \in DOMAIN v
       PROVE  v[x] \in Seq(1..N) /\ IsInjective(v[x]) /\ Range(v[x]) = Watching(new, 1..N, x)
  <2>1. CASE x = l
    <3>1. k \in 1..Len(w[l]) /\ w[l][k] = i
      BY DEF i
    <3>2. /\ IsInjective(Without(w[l], k)) /\ Range(Without(w[l], k)) = Range(w[l]) \ {i}
          /\ Without(w[l], k) \in Seq(1..N)
      BY <1>2, <3>1, WithoutMember, WithoutShape
    <3>3. QED
      BY <1>2, <1>10, <1>12, <2>1, <3>2
  <2>2. CASE x = m
    <3> DEFINE s == WatchList(w, m)
    <3>1. s \in Seq(1..N) /\ IsInjective(s) /\ Range(s) = Watching(clauses, 1..N, m)
      <4>1. CASE m \in DOMAIN w
        BY <4>1 DEF WatchList, WatchesFit, N
      <4>2. CASE m \notin DOMAIN w
        <5>1. s = <<>>
          BY <4>2 DEF WatchList
        <5>2. Watching(clauses, 1..N, m) = {}
          <6>1. SUFFICES ASSUME NEW y \in 1..N, -m \in {clauses[y][1], clauses[y][2]} PROVE FALSE
            BY DEF Watching
          <6>2. m = -(-m)
            BY <1>9
          <6>3. m \in {-clauses[y][1], -clauses[y][2]}
            BY <6>1, <6>2
          <6>4. m \in Wakers(clauses, {y})
            BY <6>3 DEF Wakers
          <6>5. QED
            BY <4>2, <6>4 DEF WatchesFit, N
        <5>3. <<>> \in Seq(1..N) /\ IsInjective(<<>>) /\ Range(<<>>) = {}
          BY DEF IsInjective, Range
        <5>4. QED
          BY <5>1, <5>2, <5>3
      <4>3. QED
        BY <4>1, <4>2
    <3> HIDE DEF s
    <3> DEFINE t == <<i>>
    <3>2. t \in Seq(1..N) /\ IsInjective(t) /\ Range(t) = {i}
      BY <1>2 DEF IsInjective, Range
    <3>8. t = <<i>>
      OBVIOUS
    <3> HIDE DEF t
    <3>3. Range(s) \cap Range(t) = {}
      BY <1>13, <3>1, <3>2
    <3>4. /\ s \o t \in Seq(1..N) /\ IsInjective(s \o t)
          /\ Range(s \o t) = Range(s) \cup Range(t)
      BY <3>1, <3>2, <3>3, DisjointJoin
    <3>5. Append(s, i) = s \o t
      BY <1>2, <3>1, <3>8
    <3>6. v[x] = s \o t
      BY <1>10, <2>2, <3>5 DEF s
    <3>7. QED
      BY <1>13, <2>2, <3>1, <3>2, <3>4, <3>6
  <2>3. CASE x # l /\ x # m
    <3>1. x \in DOMAIN w /\ x \in Int
      BY <1>10, <2>3 DEF WatchesFit
    <3>2. v[x] = w[x] /\ Watching(new, 1..N, x) = Watching(clauses, 1..N, x)
      BY <1>10, <1>11, <2>3, <3>1
    <3>3. QED
      BY <3>1, <3>2 DEF WatchesFit, N
  <2>4. QED
    BY <2>1, <2>2, <2>3
<1>15. ASSUME NEW y \in 1..N PROVE Len(new[y]) > 1 /\ Wakers(new, {y}) \subseteq DOMAIN v
  <2>1. Len(clauses[y]) > 1 /\ Wakers(clauses, {y}) \subseteq DOMAIN w
    BY DEF WatchesFit, N
  <2>2. CASE y = i
    <3>1. new[y] = d /\ clauses[y] = c
      BY <1>8, <2>2 DEF c
    <3>2. -c[3 - a] \in {-c[1], -c[2]}
      <4>1. CASE a = 1
        BY <4>1
      <4>2. CASE a = 2
        BY <4>2
      <4>3. QED
        BY <1>4, <4>1, <4>2
    <3>3. -c[3 - a] \in DOMAIN w
      BY <2>1, <3>1, <3>2 DEF Wakers
    <3>4. {-d[1], -d[2]} = {m, -c[3 - a]}
      <4>1. CASE a = 1
        BY <1>4, <4>1 DEF m
      <4>2. CASE a = 2
        BY <1>4, <4>2 DEF m
      <4>3. a = 1 \/ a = 2
        BY <1>4
      <4>4. QED
        BY <4>1, <4>2, <4>3
    <3>5. Wakers(new, {y}) = {m, -c[3 - a]}
      BY <3>1, <3>4 DEF Wakers
    <3>6. QED
      BY <1>4, <1>10, <2>1, <3>1, <3>3, <3>5
  <2>3. CASE y # i
    <3>1. new[y] = clauses[y]
      BY <1>8, <2>3
    <3>2. Wakers(new, {y}) = Wakers(clauses, {y})
      BY <3>1 DEF Wakers
    <3>3. QED
      BY <1>10, <2>1, <3>1, <3>2
  <2>4. QED
    BY <2>2, <2>3
<1>16. DOMAIN v \subseteq Int
  BY <1>9, <1>10 DEF WatchesFit
<1>17. WatchesFit(v, new)
  BY <1>8, <1>14, <1>15, <1>16 DEF WatchesFit
<1>18. QED
  BY <1>17 DEF v, new, m, d, c, i

----------------------------------------------------------------------------
\* The analysis of a conflict.

\* The level and the reason of a variable are those of its entry.
LEMMA EntryTells ==
    ASSUME NEW n \in Nat, NEW m \in Nat, NEW tr \in Seq(Entries(n, m)), Ordered(tr),
           NEW i \in 1..Len(tr), NEW l, Var(l) = Var(tr[i].lit)
    PROVE  LevelOf(tr, l) = tr[i].level /\ ReasonOf(tr, l) = tr[i].why
<1> DEFINE P(r) == Var(r.lit) = Var(l)
           r0 == CHOOSE r \in Range(tr) : P(r)
<1>1. Len(tr) \in Nat /\ DOMAIN tr = 1..Len(tr)
  BY EntryTyped
<1>2. tr[i] \in Range(tr) /\ P(tr[i])
  BY <1>1 DEF Range
<1>3. \A r \in Range(tr) : P(r) => r = tr[i]
  <2>1. SUFFICES ASSUME NEW j \in 1..Len(tr), P(tr[j]) PROVE j = i
    BY <1>1 DEF Range
  <2>2. ~(i < j) /\ ~(j < i)
    BY <1>1, <2>1 DEF Ordered
  <2>3. QED
    BY <1>1, <2>2
<1> HIDE DEF P
<1>4. r0 = tr[i]
  BY <1>2, <1>3
<1>5. LevelOf(tr, l) = r0.level /\ ReasonOf(tr, l) = r0.why
  BY DEF LevelOf, ReasonOf, P
<1>6. QED
  BY <1>4, <1>5

\* The literals of the trail.
LEMMA LitsTell ==
    ASSUME NEW n \in Nat, NEW m \in Nat, NEW tr \in Seq(Entries(n, m))
    PROVE  /\ Lits(tr) \in SUBSET Literals(n) /\ IsFiniteSet(Lits(tr))
           /\ \A l : l \in Lits(tr) <=> \E i \in 1..Len(tr) : tr[i].lit = l
<1>1. Len(tr) \in Nat /\ DOMAIN tr = 1..Len(tr) /\ \A i \in 1..Len(tr) : tr[i].lit \in Literals(n)
  BY EntryTyped
<1>2. \A l : l \in Lits(tr) <=> \E i \in 1..Len(tr) : tr[i].lit = l
  BY <1>1 DEF Lits
<1>3. Lits(tr) \in SUBSET Literals(n)
  BY <1>1, <1>2
<1>4. IsFiniteSet(Lits(tr))
  BY <1>3, LiteralsFinite, FS_Subset
<1>5. QED
  BY <1>2, <1>3, <1>4

\* The other literals of a reason are false.
LEMMA OthersFalse ==
    ASSUME NEW n \in Nat, NEW tr, NEW clauses \in Seq(Clauses(n)), TrailFits(tr, clauses, n),
           NEW i \in 1..Len(tr), tr[i].why # Decision
    PROVE  /\ tr[i].why \in 1..Len(clauses)
           /\ Range(clauses[tr[i].why]) \in SUBSET Literals(n)
           /\ tr[i].lit \in Range(clauses[tr[i].why])
           /\ \A l \in Range(clauses[tr[i].why]) \ {tr[i].lit} : \E j \in 1..i - 1 : tr[j].lit = -l
<1>1. tr \in Seq(Entries(n, Len(clauses))) /\ Len(clauses) \in Nat
  BY DEF TrailFits
<1>2. i \in DOMAIN tr /\ tr[i].why \in 0..Len(clauses)
  BY <1>1, EntryTyped
<1>3. tr[i].why \in 1..Len(clauses)
  BY <1>1, <1>2 DEF Decision
<1> DEFINE c == clauses[tr[i].why]
<1>4. c \in Seq(Literals(n))
  BY <1>3 DEF Clauses
<1>5. Range(c) \in SUBSET Literals(n)
  <2> HIDE DEF c
  <2>1. QED
    BY <1>4 DEF Range
<1>6. QED
  BY <1>2, <1>3, <1>5 DEF TrailFits, Reasoned

\* A conflict to analyze: a clause the literals of which are all false.
Falsified(n) ==
    /\ n \in Nat
    /\ db \in Seq(Clauses(n))
    /\ TrailFits(trail, db, n)
    /\ confl \in 1..Len(db)
    /\ Neg(Range(db[confl])) \subseteq Lits(trail)
    /\ CurLevel(trail) > 0

\* Others are the negations of literals on the trail.
LEMMA OthersOnTrail ==
    ASSUME NEW n, Falsified(n), NEW t \in Lits(trail)
    PROVE  /\ Neg(Others(t)) \subseteq Lits(trail) /\ Others(t) \subseteq Literals(n)
           /\ ReasonOf(trail, t) # Decision => Range(db[ReasonOf(trail, t)]) \subseteq Literals(n)
<1>1. n \in Nat /\ db \in Seq(Clauses(n)) /\ TrailFits(trail, db, n) /\ Len(db) \in Nat
  BY DEF Falsified
<1>2. trail \in Seq(Entries(n, Len(db))) /\ Ordered(trail)
  BY <1>1 DEF TrailFits
<1>3. PICK i \in 1..Len(trail) : trail[i].lit = t
  BY <1>1, <1>2, LitsTell
<1>4. ReasonOf(trail, t) = trail[i].why
  <2>1. Var(t) = Var(trail[i].lit)
    BY <1>3
  <2>2. QED
    BY <1>1, <1>2, <2>1, EntryTells
<1>5. CASE trail[i].why = Decision
  <2>1. Others(t) = {} /\ Neg({}) = {}
    BY <1>4, <1>5 DEF Others, Neg
  <2>2. QED
    BY <1>4, <1>5, <2>1
<1>6. CASE trail[i].why # Decision
  <2> DEFINE c == Range(db[trail[i].why])
  <2>1. /\ c \in SUBSET Literals(n)
        /\ \A l \in c \ {t} : \E j \in 1..i - 1 : trail[j].lit = -l
    BY <1>1, <1>3, <1>6, OthersFalse
  <2>2. Others(t) = c \ {t}
    BY <1>4, <1>6 DEF Others
  <2>3. i \in Nat /\ Len(trail) \in Nat /\ \A j \in 1..i - 1 : j \in 1..Len(trail)
    BY <1>1, <1>2, EntryTyped
  <2> HIDE DEF c
  <2>4. \A l \in c \ {t} : -l \in Lits(trail)
    BY <1>1, <1>2, <2>1, <2>3, LitsTell
  <2>5. Neg(Others(t)) \subseteq Lits(trail)
    BY <2>2, <2>4 DEF Neg
  <2>6. QED
    BY <1>4, <2>1, <2>2, <2>5 DEF c
<1>7. QED
  BY <1>5, <1>6

\* The sources are on the trail, too, and of the level of all they come from.
LEMMA SourcesOnTrail ==
    ASSUME NEW n, Falsified(n), NEW S \in SUBSET Lits(trail), NEW level
    PROVE  /\ Sources(S, level) \in SUBSET Lits(trail)
           /\ S \subseteq AtLevel(Lits(trail), level) => Sources(S, level) \subseteq AtLevel(Lits(trail), level)
<1> DEFINE D == Lits(trail)
           g == [T \in SUBSET D |-> T \union UNION {AtLevel(Neg(Others(t)), level) : t \in T}]
           G(f) == [T \in SUBSET D |->
                      LET more == T \union UNION {AtLevel(Neg(Others(t)), level) : t \in T}
                      IN  IF more = T THEN T ELSE f[more]]
           F == CHOOSE f : f = G(f)
<1>1. IsFiniteSet(D)
  BY LitsTell DEF Falsified, TrailFits
<1>2. \A t \in D : AtLevel(Neg(Others(t)), level) \subseteq D
  BY OthersOnTrail DEF AtLevel
<1>3. g \in [SUBSET D -> SUBSET D] /\ \A T \in SUBSET D : T \subseteq g[T]
  <2> HIDE DEF D
  <2>1. QED
    BY <1>2
<1>4. \A f : G(f) = [T \in SUBSET D |-> IF g[T] = T THEN T ELSE f[g[T]]]
  OBVIOUS
<1>5. Sources(S, level) = F[S]
  BY Zenon DEF Sources
<1> HIDE DEF g, G, D
<1>6. PICK f : IsClosure(f, D, g)
  BY <1>1, <1>3, ClosureExists
<1>7. f = G(f)
  BY <1>4, <1>6 DEF IsClosure
<1>8. F = G(F)
  BY <1>7
<1> HIDE DEF F
<1>9. IsClosure(F, D, g)
  BY <1>4, <1>8 DEF IsClosure
<1>10. S \in SUBSET D
  BY DEF D
<1>11. /\ F[S] \in SUBSET D /\ S \subseteq F[S] /\ g[F[S]] = F[S]
       /\ \A P \in SUBSET D : S \subseteq P /\ (\A R \in SUBSET P : g[R] \subseteq P) => F[S] \subseteq P
  BY <1>1, <1>3, <1>9, <1>10, ClosureIsLeast
<1>12. ASSUME S \subseteq AtLevel(D, level) PROVE F[S] \subseteq AtLevel(D, level)
  <2> DEFINE X == AtLevel(D, level)
  <2>1. X \in SUBSET D
    BY DEF AtLevel
  <2>2. \A R \in SUBSET X : g[R] \subseteq X
    <3>1. \A R \in SUBSET D : g[R] = R \union UNION {AtLevel(Neg(Others(t)), level) : t \in R}
      BY DEF g
    <3>2. \A t \in D : AtLevel(Neg(Others(t)), level) \subseteq X
      BY <1>2 DEF AtLevel
    <3> HIDE DEF X
    <3>3. QED
      BY <2>1, <3>1, <3>2
  <2> HIDE DEF X
  <2>3. S \subseteq X
    BY <1>12 DEF X
  <2>4. F[S] \subseteq X
    BY <1>11, <2>1, <2>2, <2>3
  <2>5. QED
    BY <2>4 DEF X
<1>13. QED
  BY <1>5, <1>11, <1>12 DEF D

\* The cone is one of clauses over the n variables.
LEMMA ConeIsTyped ==
    ASSUME NEW n, Falsified(n)
    PROVE  ConeTyped(Cone, n)
<1> DEFINE level == CurLevel(trail)
           conflict == Range(db[confl])
           seeds == AtLevel(Neg(conflict), level)
           current == Sources(seeds, level)
           implied == {t \in current : ReasonOf(trail, t) # Decision}
           reasons == [t \in implied |-> Range(db[ReasonOf(trail, t)])]
<1>1. Cone.conflict = conflict /\ Cone.reasons = reasons
  BY DEF Cone
<1>2. seeds \in SUBSET Lits(trail)
  BY DEF Falsified, AtLevel
<1>3. conflict \subseteq Literals(n)
  <2> DEFINE c == db[confl]
  <2>1. c \in Seq(Literals(n))
    BY DEF Falsified, Clauses
  <2> HIDE DEF c
  <2>2. Range(c) \subseteq Literals(n)
    BY <2>1 DEF Range
  <2>3. QED
    BY <2>2 DEF c
<1> HIDE DEF conflict, seeds, level
<1>4. current \in SUBSET Lits(trail)
  BY <1>2, SourcesOnTrail
<1>5. IsFiniteSet(implied)
  <2>1. IsFiniteSet(Lits(trail)) /\ implied \in SUBSET Lits(trail)
    BY <1>4, LitsTell DEF Falsified, TrailFits
  <2>2. QED
    BY <2>1, FS_Subset
<1>6. \A t \in implied : t \in Lits(trail) /\ ReasonOf(trail, t) # Decision
  BY <1>4
<1> HIDE DEF implied, current
<1>7. \A t \in implied : Range(db[ReasonOf(trail, t)]) \subseteq Literals(n)
  BY <1>6, OthersOnTrail
<1>8. Range(reasons) = {Range(db[ReasonOf(trail, t)]) : t \in implied} /\ DOMAIN reasons = implied
  BY DEF Range
<1>9. QED
  BY <1>1, <1>3, <1>5, <1>7, <1>8 DEF ConeTyped, ConeClauses

\* What is in a cone: its resolving literals are of the current level and have a reason,
\* its roots are of level 0.
ConeLevels ==
    /\ Cone.conflict = Range(db[confl])
    /\ \A t \in DOMAIN Cone.reasons :
          /\ t \in AtLevel(Lits(trail), CurLevel(trail)) /\ ReasonOf(trail, t) # Decision
          /\ Cone.reasons[t] \ {t} = Others(t)
    /\ Cone.roots \subseteq AtLevel(Lits(trail), 0)

\* That is how _extract_cone makes it.
LEMMA ConeHasLevels ==
    ASSUME NEW n, Falsified(n)
    PROVE  ConeLevels
<1> DEFINE level == CurLevel(trail)
           conflict == Range(db[confl])
           seeds == AtLevel(Neg(conflict), level)
           current == Sources(seeds, level)
           implied == {t \in current : ReasonOf(trail, t) # Decision}
           reasons == [t \in implied |-> Range(db[ReasonOf(trail, t)])]
           below == Neg(conflict \union UNION {Others(t) : t \in implied}) \ current
<1>1. Cone.conflict = conflict /\ Cone.reasons = reasons /\ Cone.roots = AtLevel(below, 0)
  BY DEF Cone
<1>2. seeds \in SUBSET Lits(trail) /\ seeds \subseteq AtLevel(Lits(trail), level)
  BY DEF Falsified, AtLevel
<1> HIDE DEF conflict, seeds, level
<1>3. current \subseteq AtLevel(Lits(trail), level)
  BY <1>2, SourcesOnTrail
<1>4. \A t \in implied : Range(db[ReasonOf(trail, t)]) \ {t} = Others(t)
  BY DEF Others
<1> HIDE DEF current
<1>5. \A t \in implied : t \in AtLevel(Lits(trail), level) /\ t \in Lits(trail) /\ ReasonOf(trail, t) # Decision
  BY <1>3 DEF AtLevel
<1>6. below \subseteq Lits(trail)
  <2>1. \A t \in implied : Neg(Others(t)) \subseteq Lits(trail)
    BY <1>5, OthersOnTrail
  <2>2. Neg(conflict) \subseteq Lits(trail)
    BY DEF Falsified, conflict
  <2>3. ASSUME NEW x \in below PROVE x \in Lits(trail)
    <3>1. PICK y \in conflict \union UNION {Others(t) : t \in implied} : x = -y
      BY DEF Neg
    <3>2. CASE y \in conflict
      BY <2>2, <3>1, <3>2 DEF Neg
    <3>3. ASSUME NEW t \in implied, y \in Others(t) PROVE x \in Lits(trail)
      BY <2>1, <3>1, <3>3 DEF Neg
    <3>4. QED
      BY <3>1, <3>2, <3>3
  <2>4. QED
    BY <2>3
<1> HIDE DEF below
<1>7. Cone.roots \subseteq AtLevel(Lits(trail), 0)
  BY <1>1, <1>6 DEF AtLevel
<1> HIDE DEF implied
<1>8. DOMAIN reasons = implied /\ \A t \in implied : reasons[t] = Range(db[ReasonOf(trail, t)])
  OBVIOUS
<1> HIDE DEF reasons
<1>9. QED
  BY <1>1, <1>4, <1>5, <1>7, <1>8 DEF ConeLevels, conflict, level

\* B satisfies a clause, a set of literals.
Sat(B, c) == \E l \in c : Holds(l, B)

\* Entry i is the first one of its level, and not of level 0: a decision.
Opens(tr, i) == tr[i].level > 0 /\ (i = 1 \/ tr[i-1].level < tr[i].level)

\* B satisfies the clauses, and whatever has no reason but is no decision.
Agrees(B, clauses, tr) ==
    /\ \A i \in 1..Len(clauses) : Sat(B, Range(clauses[i]))
    /\ \A i \in 1..Len(tr) : tr[i].why = Decision /\ ~Opens(tr, i) => Holds(tr[i].lit, B)

\* A literal or its negation holds.
LEMMA HoldsOrNot ==
    ASSUME NEW l \in Int \ {0}, NEW B
    PROVE  Holds(-l, B) <=> ~Holds(l, B)
<1>1. CASE l > 0
  <2>1. ~(-l > 0) /\ -(-l) = l
    BY <1>1
  <2>2. QED
    BY <1>1, <2>1 DEF Holds
<1>2. CASE ~(l > 0)
  <2>1. -l > 0
    BY <1>2
  <2>2. QED
    BY <1>2, <2>1 DEF Holds
<1>3. QED
  BY <1>1, <1>2

\* A reason is a clause, and all of its literals but one were false before.
Supported(tr, clauses, n, i) ==
    /\ tr[i].why \in 1..Len(clauses)
    /\ Range(clauses[tr[i].why]) \in SUBSET Literals(n)
    /\ tr[i].lit \in Range(clauses[tr[i].why])
    /\ \A l \in Range(clauses[tr[i].why]) \ {tr[i].lit} : \E j \in 1..i - 1 : tr[j].lit = -l

\* The same with a name.
LEMMA ReasonSupports ==
    ASSUME NEW n \in Nat, NEW tr, NEW clauses \in Seq(Clauses(n)), TrailFits(tr, clauses, n),
           NEW i \in 1..Len(tr), tr[i].why # Decision
    PROVE  Supported(tr, clauses, n, i)
BY OthersFalse DEF Supported

\* Then it satisfies all that is on the trail at level 0.
LEMMA RootsHold ==
    ASSUME NEW n \in Nat, NEW clauses \in Seq(Clauses(n)), NEW tr, TrailFits(tr, clauses, n),
           NEW B, Agrees(B, clauses, tr)
    PROVE  \A i \in 1..Len(tr) : tr[i].level = 0 => Holds(tr[i].lit, B)
<1> DEFINE N == Len(tr)
           T == {k \in Nat : \A i \in 1..k : i <= N /\ tr[i].level = 0 => Holds(tr[i].lit, B)}
<1>1. /\ N \in Nat /\ DOMAIN tr = 1..N
      /\ \A i \in 1..N : tr[i].lit \in Literals(n) /\ tr[i].lit \in Int \ {0} /\ tr[i].level \in Nat
  BY EntryTyped DEF TrailFits
<1>2. 0 \in T
  OBVIOUS
<1>3. ASSUME NEW k \in 0..N - 1, k \in T PROVE k + 1 \in T
  <2> DEFINE i == k + 1
  <2>1. i \in 1..N /\ i \in Nat /\ 1..i = 1..k \cup {i}
    BY <1>1
  <2>2. ASSUME tr[i].level = 0 PROVE Holds(tr[i].lit, B)
    <3>1. CASE tr[i].why = Decision
      <4>1. ~Opens(tr, i)
        BY <2>2 DEF Opens
      <4>2. QED
        BY <2>1, <3>1, <4>1 DEF Agrees
    <3>2. CASE tr[i].why # Decision
      <4> DEFINE c == Range(clauses[tr[i].why])
                 l == tr[i].lit
      <4>1. /\ tr[i].why \in 1..Len(clauses) /\ c \in SUBSET Literals(n) /\ l \in c
            /\ \A m \in c \ {l} : \E j \in 1..i - 1 : tr[j].lit = -m
        <5>1. Supported(tr, clauses, n, i)
          BY <2>1, <3>2, ReasonSupports
        <5>2. QED
          BY <5>1 DEF Supported
      <4>2. Sat(B, c)
        BY <4>1 DEF Agrees
      <4>3. PICK m \in c : Holds(m, B)
        BY <4>2 DEF Sat
      <4> HIDE DEF c, l
      <4>4. ASSUME m # l PROVE FALSE
        <5>1. PICK j \in 1..i - 1 : tr[j].lit = -m
          BY <4>1, <4>3, <4>4
        <5>2. j \in 1..k /\ j \in 1..N /\ j < i
          BY <2>1, <5>1
        <5>3. tr[j].level = 0
          <6>1. tr[j].level <= tr[i].level
            BY <1>1, <2>1, <5>2 DEF TrailFits, Ordered
          <6>2. QED
            BY <1>1, <2>2, <5>2, <6>1
        <5>4. Holds(-m, B)
          <6>1. j <= N
            BY <1>1, <5>2
          <6>2. QED
            BY <1>3, <5>1, <5>2, <5>3, <6>1
        <5>5. m \in Int \ {0}
          BY <4>1, <4>3 DEF Literals
        <5>6. QED
          BY <4>3, <5>4, <5>5, HoldsOrNot
      <4>5. QED
        BY <4>3, <4>4 DEF l
    <3>3. QED
      BY <3>1, <3>2
  <2>3. \A j \in 1..k : j <= N /\ tr[j].level = 0 => Holds(tr[j].lit, B)
    BY <1>3
  <2>4. QED
    BY <2>1, <2>2, <2>3
<1>4. 0..N \subseteq T
  <2> HIDE DEF T, N
  <2>1. QED
    BY <1>1, <1>2, <1>3, UpTo
<1>5. N \in T
  BY <1>1, <1>4
<1>6. \A i \in 1..N : i <= N
  BY <1>1
<1>7. QED
  BY <1>5, <1>6

\* The states of the walk back: open literals, and literals of lower levels but 0.
Lower(n) == {l \in Literals(n) : LevelOf(trail, l) \in 1..CurLevel(trail) - 1}
Walks(n) == [open : SUBSET Literals(n), learned : SUBSET Lower(n)]

\* Meeting a clause adds what it has of these; no literal of it that could hold is lost.
Met(n, s, lits, new) ==
    /\ new \in Walks(n) /\ new.open = s.open \cup AtLevel(Neg(lits), CurLevel(trail))
    /\ \A B : Agrees(B, db, trail) /\ Sat(B, lits \cup (s.learned \cup Neg(s.open)))
              => Sat(B, new.learned \cup Neg(new.open))

\* Meeting the literals of a clause that the trail falsifies: what is left to resolve on is of the current level, and the clause so far still follows.
LEMMA MeetFits ==
    ASSUME NEW n, Falsified(n), NEW s \in Walks(n),
           NEW lits \in SUBSET Literals(n), Neg(lits) \subseteq Lits(trail)
    PROVE  Met(n, s, lits, Meet(s, lits, CurLevel(trail)))
<1> DEFINE level == CurLevel(trail)
           new == Meet(s, lits, level)
           below == {l \in lits : LevelOf(trail, l) \in 1..level - 1}
           here == AtLevel(Neg(lits), level)
<1>1. new.open = s.open \cup here /\ new.learned = s.learned \cup below
      /\ new = [open |-> s.open \cup here, learned |-> s.learned \cup below]
  BY DEF Meet
<1>2. s.open \in SUBSET Literals(n) /\ s.learned \in SUBSET Lower(n)
  BY DEF Walks
<1>3. here \in SUBSET Literals(n) /\ below \in SUBSET Lower(n)
  <2>1. Lits(trail) \in SUBSET Literals(n)
    BY LitsTell DEF Falsified, TrailFits
  <2>2. QED
    BY <2>1 DEF AtLevel, Lower
<1>4. new \in Walks(n)
  <2> HIDE DEF here, below, new
  <2>1. QED
    BY <1>1, <1>2, <1>3 DEF Walks
<1>5. ASSUME NEW B, Agrees(B, db, trail), NEW l \in lits \cup (s.learned \cup Neg(s.open)), Holds(l, B)
      PROVE  l \in new.learned \cup Neg(new.open)
  <2>1. CASE l \in s.learned \cup Neg(s.open)
    BY <1>1, <2>1 DEF Neg
  <2>2. CASE l \in lits
    <3>1. n \in Nat /\ db \in Seq(Clauses(n)) /\ TrailFits(trail, db, n) /\ Len(db) \in Nat
      BY DEF Falsified
    <3>2. trail \in Seq(Entries(n, Len(db))) /\ Ordered(trail) /\ -l \in Lits(trail)
      BY <2>2, <3>1 DEF TrailFits, Neg
    <3>3. PICK i \in 1..Len(trail) : trail[i].lit = -l
      <4>1. \A x \in Lits(trail) : \E i \in 1..Len(trail) : trail[i].lit = x
        BY <3>1, <3>2, LitsTell
      <4>2. QED
        BY <3>2, <4>1
    <3>4. l \in Int \ {0} /\ Var(l) = Var(-l) /\ -(-l) = l
      <4>1. l \in Literals(n)
        BY <2>2
      <4>2. l \in Int \ {0} /\ Var(l) = Var(-l)
        BY <3>1, <4>1, LiteralsFinite
      <4>3. QED
        BY <4>2
    <3>5. LevelOf(trail, l) = trail[i].level /\ LevelOf(trail, -l) = trail[i].level
      <4>1. Var(l) = Var(trail[i].lit) /\ Var(-l) = Var(trail[i].lit)
        BY <3>3, <3>4
      <4>2. QED
        BY <3>1, <3>2, <4>1, EntryTells
    <3>6. trail[i].level # 0
      <4>1. trail[i].level = 0 => Holds(-l, B)
        BY <1>5, <3>1, <3>3, RootsHold
      <4>2. QED
        BY <1>5, <3>4, <4>1, HoldsOrNot
    <3>7. trail[i].level \in Nat /\ level \in Nat /\ trail[i].level <= level
      BY <3>1, <3>2, EntryTyped, CurLevelIsTop
    <3>8. CASE trail[i].level = level
      <4>1. -l \in here
        BY <2>2, <3>5, <3>8 DEF AtLevel, Neg
      <4>2. l \in Neg(new.open)
        BY <1>1, <3>4, <4>1 DEF Neg
      <4>3. QED
        BY <4>2
    <3>9. CASE trail[i].level # level
      <4>1. trail[i].level \in 1..level - 1
        BY <3>6, <3>7, <3>9
      <4>2. l \in below
        BY <2>2, <3>5, <4>1
      <4>3. QED
        BY <1>1, <4>2
    <3>10. QED
      BY <3>8, <3>9
  <2>3. QED
    BY <2>1, <2>2
<1>6. \A B : /\ Agrees(B, db, trail)
             /\ Sat(B, lits \cup (s.learned \cup Neg(s.open)))
             => Sat(B, new.learned \cup Neg(new.open))
  BY <1>5 DEF Sat
<1>7. QED
  BY <1>1, <1>4, <1>6 DEF Met

\* After k steps back: what is open is of the current level, and still ahead unless it
\* is a single literal; the clause so far follows.
Walked(n, k, s) ==
    /\ s \in Walks(n)
    /\ \A t \in s.open : t \in Lits(trail) /\ LevelOf(trail, t) = CurLevel(trail)
    /\ Cardinality(s.open) > 1 => \A t \in s.open : \E j \in 1..Len(trail) - k : trail[j].lit = t
    /\ \A B : Agrees(B, db, trail) => Sat(B, s.learned \cup Neg(s.open))

\* Resolving on an open literal that is not the last.
LEMMA ResolveFits ==
    ASSUME NEW n, Falsified(n), NEW k \in 1..Len(trail), NEW s, Walked(n, k - 1, s)
    PROVE  Walked(n, k, ResolveOn(s, trail[Len(trail) - k + 1].lit, CurLevel(trail)))
<1> DEFINE N == Len(trail)
           p == N - k + 1
           t == trail[p].lit
           level == CurLevel(trail)
           new == ResolveOn(s, t, level)
<1>1. /\ n \in Nat /\ db \in Seq(Clauses(n)) /\ TrailFits(trail, db, n) /\ Len(db) \in Nat
      /\ trail \in Seq(Entries(n, Len(db))) /\ Ordered(trail)
  BY DEF Falsified, TrailFits
<1>2. /\ N \in Nat /\ DOMAIN trail = 1..N
      /\ \A i \in 1..N : trail[i].lit \in Int \ {0} /\ trail[i].lit \in Literals(n) /\ trail[i].level \in Nat
  BY <1>1, EntryTyped
<1> HIDE DEF N
<1>3. k \in 1..N /\ p \in 1..N /\ p \in Nat /\ N - k = p - 1 /\ N - (k - 1) = p
  BY <1>2 DEF N
<1> HIDE DEF p
<1>4. t \in Lits(trail) /\ t \in Literals(n) /\ t \in Int \ {0}
  BY <1>1, <1>2, <1>3, LitsTell DEF N
<1>5. IsFiniteSet(s.open) /\ Cardinality(s.open) \in Nat /\ s.open \in SUBSET Literals(n)
  <2>1. s.open \in SUBSET Literals(n)
    BY DEF Walked, Walks
  <2>2. IsFiniteSet(s.open)
    BY <1>1, <2>1, LiteralsFinite, FS_Subset
  <2>3. QED
    BY <2>1, <2>2, FS_CardinalityType
<1>6. Cardinality(s.open) > 1 => \A u \in s.open : \E j \in 1..p : trail[j].lit = u
  BY <1>3 DEF Walked, N
<1>7. CASE t \notin s.open \/ Cardinality(s.open) = 1
  <2>1. new = s
    BY <1>7 DEF ResolveOn
  <2>2. Cardinality(s.open) > 1 => \A u \in s.open : \E j \in 1..p - 1 : trail[j].lit = u
    <3>1. SUFFICES ASSUME Cardinality(s.open) > 1, NEW u \in s.open PROVE \E j \in 1..p - 1 : trail[j].lit = u
      OBVIOUS
    <3>2. PICK j \in 1..p : trail[j].lit = u
      BY <1>6, <3>1
    <3>3. t \notin s.open
      BY <1>7, <3>1
    <3>4. j # p
      BY <3>2, <3>3
    <3>5. j \in 1..p - 1
      BY <1>3, <3>2, <3>4
    <3>6. QED
      BY <3>2, <3>5
  <2>3. Cardinality(new.open) > 1 => \A u \in new.open : \E j \in 1..N - k : trail[j].lit = u
    BY <1>3, <2>1, <2>2
  <2> HIDE DEF new
  <2>4. Walked(n, k, new)
    BY <2>1, <2>3 DEF Walked, N
  <2>5. QED
    BY <2>4 DEF new, t, level, p, N
<1>8. CASE t \in s.open /\ Cardinality(s.open) # 1
  <2> DEFINE cut == [s EXCEPT !.open = @ \ {t}]
             lits == Others(t)
  <2>1. new = Meet(cut, lits, level)
    BY <1>8 DEF ResolveOn
  <2>2. Cardinality(s.open) > 1
    <3>1. Cardinality(s.open) # 0
      BY <1>5, <1>8, FS_EmptySet
    <3>2. QED
      BY <1>5, <1>8, <3>1
  <2>3. cut.open = s.open \ {t} /\ cut.learned = s.learned /\ cut \in Walks(n)
    <3>1. s \in [open : SUBSET Literals(n), learned : SUBSET Lower(n)]
      BY DEF Walked, Walks
    <3>2. cut.open = s.open \ {t} /\ cut.learned = s.learned
      BY <3>1
    <3>3. cut = [open |-> s.open \ {t}, learned |-> s.learned]
      <4>1. \A r \in [open : SUBSET Literals(n), learned : SUBSET Lower(n)] : \A o :
               [r EXCEPT !.open = o] = [open |-> o, learned |-> r.learned]
        OBVIOUS
      <4>2. QED
        BY <3>1, <4>1
    <3>4. QED
      BY <3>1, <3>2, <3>3 DEF Walks
  <2>4. lits \in SUBSET Literals(n) /\ Neg(lits) \subseteq Lits(trail)
    BY <1>4, OthersOnTrail
  <2> HIDE DEF cut, lits, new
  <2>5. /\ new \in Walks(n) /\ new.open = cut.open \cup AtLevel(Neg(lits), level)
        /\ \A B : /\ Agrees(B, db, trail)
                  /\ Sat(B, lits \cup (cut.learned \cup Neg(cut.open)))
                  => Sat(B, new.learned \cup Neg(new.open))
    <3>1. Met(n, cut, lits, Meet(cut, lits, CurLevel(trail)))
      BY <2>1, <2>3, <2>4, MeetFits
    <3>2. new = Meet(cut, lits, CurLevel(trail))
      BY <2>1
    <3>3. QED
      BY <3>1, <3>2 DEF Met
  <2>6. \A u \in new.open : u \in Lits(trail) /\ LevelOf(trail, u) = level
    BY <2>3, <2>4, <2>5 DEF AtLevel, Walked
  <2>7. Var(t) = Var(trail[p].lit) /\ LevelOf(trail, t) = trail[p].level /\ ReasonOf(trail, t) = trail[p].why
    BY <1>1, <1>3, EntryTells DEF N
  <2>8. trail[p].level = level
    BY <1>8, <2>7 DEF Walked
  <2>9. \A u \in s.open \ {t} : \E j \in 1..p - 1 : trail[j].lit = u
    <3>1. TAKE u \in s.open \ {t}
    <3>2. PICK j \in 1..p : trail[j].lit = u
      BY <1>6, <2>2
    <3>3. j # p
      BY <3>2
    <3>4. j \in 1..p - 1
      BY <1>3, <3>2, <3>3
    <3>5. QED
      BY <3>2, <3>4
  <2>10. trail[p].why # Decision => /\ Range(db[trail[p].why]) = lits \cup {t} /\ trail[p].why \in 1..Len(db)
                                    /\ \A l \in lits : \E j \in 1..p - 1 : trail[j].lit = -l
    <3>1. SUFFICES ASSUME trail[p].why # Decision
                   PROVE  /\ Range(db[trail[p].why]) = lits \cup {t} /\ trail[p].why \in 1..Len(db)
                          /\ \A l \in lits : \E j \in 1..p - 1 : trail[j].lit = -l
      OBVIOUS
    <3> DEFINE c == Range(db[trail[p].why])
    <3>2. lits = c \ {t}
      BY <2>7, <3>1 DEF lits, Others
    <3>3. t \in c /\ trail[p].why \in 1..Len(db) /\ \A l \in c \ {t} : \E j \in 1..p - 1 : trail[j].lit = -l
      BY <1>1, <1>3, <3>1, OthersFalse DEF N
    <3>4. QED
      BY <3>2, <3>3
  <2>11. \A u \in new.open : \E j \in 1..p - 1 : trail[j].lit = u
    <3>1. TAKE u \in new.open
    <3>2. CASE u \in s.open \ {t}
      BY <2>9, <3>2
    <3>3. CASE u \notin s.open \ {t}
      <4>1. u \in Neg(lits)
        BY <2>3, <2>5, <3>3 DEF AtLevel
      <4>2. PICK l \in lits : u = -l
        BY <4>1 DEF Neg
      <4>3. trail[p].why # Decision
        BY <2>7, <4>2 DEF lits, Others
      <4>4. QED
        BY <2>10, <4>2, <4>3
    <3>4. QED
      BY <3>2, <3>3
  <2>12. ASSUME NEW B, Agrees(B, db, trail) PROVE Sat(B, new.learned \cup Neg(new.open))
    <3>1. SUFFICES Sat(B, lits \cup (cut.learned \cup Neg(cut.open)))
      BY <2>5, <2>12
    <3>2. PICK l \in s.learned \cup Neg(s.open) : Holds(l, B)
      BY <2>12 DEF Walked, Sat
    <3>3. CASE l # -t
      <4>1. l \in cut.learned \cup Neg(cut.open)
        BY <2>3, <3>2, <3>3 DEF Neg
      <4>2. QED
        BY <3>2, <4>1 DEF Sat
    <3>4. CASE l = -t
      <4>1. ~Holds(t, B)
        BY <1>4, <3>2, <3>4, HoldsOrNot
      <4>2. CASE trail[p].why # Decision
        <5>1. Sat(B, lits \cup {t})
          BY <2>10, <2>12, <4>2 DEF Agrees
        <5>2. QED
          BY <4>1, <5>1 DEF Sat
      <4>3. CASE trail[p].why = Decision
        <5>1. Opens(trail, p)
          BY <1>3, <2>12, <4>1, <4>3 DEF Agrees, N
        <5>2. \E u \in s.open : u # t
          <6>1. s.open # {t}
            BY <1>8, FS_Singleton
          <6>2. QED
            BY <1>8, <6>1
        <5>3. PICK u \in s.open : u # t
          BY <5>2
        <5>4. PICK j \in 1..p - 1 : trail[j].lit = u
          BY <2>9, <5>3
        <5>5. j \in 1..N /\ p # 1 /\ p - 1 \in 1..N /\ j <= p - 1
          BY <1>2, <1>3, <5>4
        <5>6. trail[j].level = level
          <6>1. LevelOf(trail, u) = trail[j].level
            BY <1>1, <5>4, <5>5, EntryTells DEF N
          <6>2. QED
            BY <5>3, <6>1 DEF Walked
        <5>7. trail[j].level <= trail[p-1].level
          <6>1. CASE j = p - 1
            BY <1>2, <5>5, <6>1
          <6>2. CASE j # p - 1
            <7>1. j < p - 1
              BY <5>5, <1>3, <6>2
            <7>2. QED
              BY <1>1, <1>2, <5>5, <7>1 DEF Ordered
          <6>3. QED
            BY <6>1, <6>2
        <5>8. trail[p-1].level < trail[p].level
          BY <5>1, <5>5 DEF Opens
        <5>9. trail[j].level \in Nat /\ trail[p-1].level \in Nat /\ trail[p].level \in Nat
          BY <1>2, <1>3, <5>5
        <5>10. QED
          BY <2>8, <5>6, <5>7, <5>8, <5>9
      <4>4. QED
        BY <4>2, <4>3
    <3>5. QED
      BY <3>3, <3>4
  <2>13. Cardinality(new.open) > 1 => \A u \in new.open : \E j \in 1..N - k : trail[j].lit = u
    BY <1>3, <2>11
  <2>14. Walked(n, k, new)
    BY <2>5, <2>6, <2>12, <2>13 DEF Walked, N
  <2>15. QED
    BY <2>14 DEF new, t, level, p, N
<1>9. QED
  BY <1>7, <1>8

\* f walks back: from the conflict clause, resolving on one literal of the trail after the other.
WalksBack(f, n) ==
    /\ f[0] = Meet([open |-> {}, learned |-> {}], Range(db[confl]), CurLevel(trail))
    /\ \A k \in 1..Len(trail) : f[k] = ResolveOn(f[k-1], trail[Len(trail) - k + 1].lit, CurLevel(trail))
    /\ \A k \in 0..Len(trail) : Walked(n, k, f[k])

\* The walk back of the analysis is defined at every place.
LEMMA WalkSteps ==
    ASSUME NEW n, Falsified(n)
    PROVE  WalksBack(WalkBack(CurLevel(trail)), n)
<1> DEFINE N == Len(trail)
           level == CurLevel(trail)
           X == Walks(n)
           b == Meet([open |-> {}, learned |-> {}], Range(db[confl]), level)
           lit == [k \in 1..N |-> trail[N - k + 1].lit]
           g == [x \in (1..N) \X X |-> IF Walked(n, x[1] - 1, x[2]) THEN ResolveOn(x[2], lit[x[1]], level) ELSE x[2]]
           G(f) == [i \in 0..N |-> IF i = 0 THEN b ELSE ResolveOn(f[i-1], trail[N - i + 1].lit, level)]
           F == CHOOSE f : f = G(f)
<1>1. /\ n \in Nat /\ db \in Seq(Clauses(n)) /\ TrailFits(trail, db, n) /\ Len(db) \in Nat
      /\ trail \in Seq(Entries(n, Len(db))) /\ Ordered(trail) /\ N \in Nat
      /\ confl \in 1..Len(db) /\ Neg(Range(db[confl])) \subseteq Lits(trail)
  BY DEF Falsified, TrailFits
<1>2. Range(db[confl]) \in SUBSET Literals(n)
  <2> DEFINE c == db[confl]
  <2>1. c \in Seq(Literals(n))
    BY <1>1 DEF Clauses
  <2> HIDE DEF c
  <2>2. Range(c) \subseteq Literals(n)
    BY <2>1 DEF Range
  <2>3. QED
    BY <2>2 DEF c
<1>3. b \in X /\ Walked(n, 0, b)
  <2> DEFINE s == [open |-> {}, learned |-> {}]
             lits == Range(db[confl])
  <2>1. s \in Walks(n) /\ s.open = {} /\ s.learned = {} /\ Neg({}) = {}
    BY DEF Walks, Neg
  <2> HIDE DEF s
  <2>2. /\ b \in Walks(n) /\ b.open = s.open \cup AtLevel(Neg(lits), level)
        /\ \A B : /\ Agrees(B, db, trail)
                  /\ Sat(B, lits \cup (s.learned \cup Neg(s.open)))
                  => Sat(B, b.learned \cup Neg(b.open))
    <3> DEFINE e == Meet(s, lits, level)
    <3>1. lits \in SUBSET Literals(n) /\ Neg(lits) \subseteq Lits(trail)
      BY <1>1, <1>2
    <3> HIDE DEF lits
    <3>2. Met(n, s, lits, e)
      BY <2>1, <3>1, MeetFits
    <3>3. b = e
      BY DEF s, lits
    <3> HIDE DEF b, e
    <3>4. QED
      BY <3>2, <3>3 DEF Met
  <2> HIDE DEF b
  <2>3. \A t \in b.open : t \in Lits(trail) /\ LevelOf(trail, t) = level
    BY <1>1, <2>1, <2>2 DEF AtLevel
  <2>4. \A t \in b.open : \E j \in 1..N - 0 : trail[j].lit = t
    BY <1>1, <2>3, LitsTell
  <2>5. \A B : Agrees(B, db, trail) => Sat(B, b.learned \cup Neg(b.open))
    <3>1. \A B : Agrees(B, db, trail) => Sat(B, lits)
      BY <1>1 DEF Agrees
    <3>2. QED
      BY <2>2, <3>1 DEF Sat
  <2>6. QED
    BY <2>2, <2>3, <2>4, <2>5 DEF Walked
<1>4. \A k \in 1..N : \A s : Walked(n, k - 1, s) => Walked(n, k, ResolveOn(s, lit[k], level))
  BY ResolveFits
<1>5. \A k, s : Walked(n, k, s) => s \in X
  BY DEF Walked
<1> HIDE DEF X, b
<1>6. g \in [(1..N) \X X -> X]
  <2>1. ASSUME NEW x \in (1..N) \X X
        PROVE  (IF Walked(n, x[1] - 1, x[2]) THEN ResolveOn(x[2], lit[x[1]], level) ELSE x[2]) \in X
    <3>1. x[1] \in 1..N /\ x[2] \in X
      OBVIOUS
    <3> HIDE DEF lit
    <3>2. QED
      BY <3>1, <1>4, <1>5
  <2> HIDE DEF lit
  <2>2. QED
    BY <2>1
<1>7. \A k \in 1..N : lit[k] = trail[N - k + 1].lit
  OBVIOUS
<1> HIDE DEF lit
<1>8. ASSUME NEW f, f = G(f) PROVE WalksBack(f, n)
  <2> DEFINE T == {k \in 0..N : Walked(n, k, f[k])}
  <2>1. f[0] = b /\ \A k \in 1..N : f[k] = ResolveOn(f[k-1], lit[k], level)
    <3> DEFINE e == G(f)
    <3>1. f = e /\ \A k \in 0..N : e[k] = IF k = 0 THEN b ELSE ResolveOn(f[k-1], trail[N - k + 1].lit, level)
      BY <1>8
    <3> HIDE DEF e, G
    <3>2. 0 \in 0..N /\ \A k \in 1..N : k \in 0..N /\ k # 0
      BY <1>1
    <3>3. QED
      BY <1>7, <3>1, <3>2
  <2>2. 0 \in T
    BY <1>1, <1>3, <2>1
  <2>3. ASSUME NEW k \in 0..N - 1, k \in T PROVE k + 1 \in T
    <3>1. k + 1 \in 1..N /\ k + 1 \in 0..N /\ (k + 1) - 1 = k
      BY <1>1
    <3>2. f[k + 1] = ResolveOn(f[k], lit[k + 1], level)
      BY <2>1, <3>1
    <3>3. Walked(n, k + 1, ResolveOn(f[k], lit[k + 1], level))
      BY <1>4, <2>3, <3>1
    <3>4. QED
      BY <3>1, <3>2, <3>3
  <2>4. 0..N \subseteq T
    <3> HIDE DEF T
    <3>1. QED
      BY <1>1, <2>2, <2>3, UpTo
  <2>5. \A k \in 0..N : Walked(n, k, f[k])
    BY <2>4
  <2>6. \A k \in 1..N : f[k] = ResolveOn(f[k-1], trail[N - k + 1].lit, level)
    BY <1>7, <2>1
  <2>7. QED
    BY <2>1, <2>5, <2>6 DEF WalksBack, b
<1>9. F = G(F)
  <2>1. \E f : /\ f \in [0..N -> X] /\ f[0] = b
               /\ \A k \in 1..N : f[k] = g[<<k, f[k-1]>>]
    <3> HIDE DEF g, G
    <3>1. PICK f : StepsThrough(f, N, X, b, g)
      BY <1>1, <1>3, <1>6, RecursionSteps
    <3>2. QED
      BY <3>1 DEF StepsThrough
  <2>2. PICK f : f \in [0..N -> X] /\ f[0] = b /\ \A k \in 1..N : f[k] = g[<<k, f[k-1]>>]
    BY <2>1
  <2> DEFINE T == {k \in 0..N : Walked(n, k, f[k])}
  <2>3. \A k \in 1..N : g[<<k, f[k-1]>>] = IF Walked(n, k - 1, f[k-1]) THEN ResolveOn(f[k-1], lit[k], level) ELSE f[k-1]
    <3>1. \A k \in 1..N : k - 1 \in 0..N
      BY <1>1
    <3>2. \A k \in 1..N : f[k-1] \in X
      BY <2>2, <3>1
    <3>3. QED
      BY <3>2
  <2> HIDE DEF g
  <2>4. 0 \in T
    BY <1>1, <1>3, <2>2
  <2>5. ASSUME NEW k \in 0..N - 1, k \in T PROVE k + 1 \in T
    <3>1. k + 1 \in 1..N /\ k + 1 \in 0..N /\ (k + 1) - 1 = k
      BY <1>1
    <3>2. f[k + 1] = ResolveOn(f[k], lit[k + 1], level)
      BY <2>2, <2>3, <2>5, <3>1
    <3>3. Walked(n, k + 1, ResolveOn(f[k], lit[k + 1], level))
      BY <1>4, <2>5, <3>1
    <3>4. QED
      BY <3>1, <3>2, <3>3
  <2>6. 0..N \subseteq T
    <3> HIDE DEF T
    <3>1. QED
      BY <1>1, <2>4, <2>5, UpTo
  <2>7. ASSUME NEW k \in 0..N PROVE f[k] = IF k = 0 THEN b ELSE ResolveOn(f[k-1], trail[N - k + 1].lit, level)
    <3>1. CASE k = 0
      BY <2>2, <3>1
    <3>2. CASE k # 0
      <4>1. k \in 1..N /\ k - 1 \in 0..N
        BY <1>1, <3>2
      <4>2. QED
        BY <1>7, <2>2, <2>3, <2>6, <3>2, <4>1
    <3>3. QED
      BY <3>1, <3>2
  <2>8. f = G(f)
    <3>1. f = [k \in 0..N |-> f[k]]
      BY <2>2
    <3>2. QED
      BY <2>7, <3>1
  <2> HIDE DEF G
  <2>9. QED
    BY <2>8
<1>10. WalkBack(level) = F
  BY Zenon DEF WalkBack, b
<1>11. QED
  BY <1>8, <1>9, <1>10

\* The clause of the analysis is one of these, of a level to go back to, and follows.
LEMMA AnalyzeFits ==
    ASSUME NEW n, Falsified(n)
    PROVE  /\ Analyze.clause \in SUBSET Literals(n)
           /\ Analyze.level \in Nat /\ Analyze.level < CurLevel(trail)
           /\ \A B : Agrees(B, db, trail) => Sat(B, Analyze.clause)
<1> DEFINE N == Len(trail)
           level == CurLevel(trail)
           end == WalkBack(level)[N]
<1>1. /\ n \in Nat /\ N \in Nat /\ Len(db) \in Nat
      /\ trail \in Seq(Entries(n, Len(db))) /\ Ordered(trail)
  BY DEF Falsified, TrailFits
<1>2. Analyze.clause = end.learned \cup Neg(end.open) /\ Analyze.level = Max({0} \cup {LevelOf(trail, l) : l \in end.learned})
  BY DEF Analyze
<1>3. Walked(n, N, end)
  <2>1. N \in 0..N
    BY <1>1
  <2>2. QED
    BY <2>1, WalkSteps DEF WalksBack
<1> HIDE DEF end
<1>4. end.open \in SUBSET Literals(n) /\ end.learned \in SUBSET Lower(n)
  BY <1>3 DEF Walked, Walks
<1>5. Analyze.clause \in SUBSET Literals(n)
  <2>1. Neg(end.open) \subseteq Literals(n)
    <3>1. \A l \in end.open : -l \in Literals(n)
      BY <1>1, <1>4, LiteralsFinite
    <3>2. QED
      BY <3>1 DEF Neg
  <2>2. QED
    BY <1>2, <1>4, <2>1 DEF Lower
<1>6. Analyze.level \in Nat /\ Analyze.level < level
  <2> DEFINE S == {0} \cup {LevelOf(trail, l) : l \in end.learned}
  <2>1. level \in Nat /\ level > 0
    BY <1>1, CurLevelIsTop DEF Falsified
  <2>2. \A l \in end.learned : LevelOf(trail, l) \in 1..level - 1
    BY <1>4 DEF Lower
  <2>3. S \in SUBSET (0..level - 1)
    BY <2>1, <2>2
  <2>5. 0 \in S
    OBVIOUS
  <2> HIDE DEF S
  <2>6. S # {} /\ level - 1 \in Nat
    BY <2>1, <2>5
  <2>7. Max(S) \in S
    <3> DEFINE M == level - 1
    <3>1. M \in Nat /\ S \in SUBSET (0..M) /\ S # {}
      BY <2>3, <2>6
    <3> HIDE DEF M
    <3>2. QED
      BY <3>1, MaxIsGreatest
  <2>8. Max(S) \in 0..level - 1
    BY <2>3, <2>7
  <2>9. Analyze.level = Max(S)
    BY <1>2 DEF S
  <2> HIDE DEF level
  <2>10. QED
    BY <2>1, <2>8, <2>9
<1>7. \A B : Agrees(B, db, trail) => Sat(B, Analyze.clause)
  BY <1>2, <1>3 DEF Walked
<1>8. QED
  BY <1>5, <1>6, <1>7

\* What the hook of the instance may return, by its kind.
HookedBy(r, cone, uip) ==
    \/ inst.hook.kind = "none" /\ r.learn = <<Tuple(uip)>> /\ r.hook = hook
    \/ inst.hook.kind = "multi" /\ r \in MultiLearn(inst.hook.k, hook, cone, uip)
    \/ inst.hook.kind = "ext" /\ r \in ExtLearn(inst.hook, hook, cone, uip)
    \/ /\ inst.hook.kind = "xor" /\ inst.hook.offline \in BOOLEAN
       /\ r \in XorLearn(inst.hook.offline, InputXors(Range(inst.cls)), hook, cone, uip)

\* What a hook returns, by its kind.
LEMMA HookedKinds ==
    ASSUME inst.hook \in Hooks, NEW cone, NEW uip, NEW r \in Hooked(cone, uip)
    PROVE  HookedBy(r, cone, uip)
<1> DEFINE kind == inst.hook.kind
<1>1. \/ kind = "none" \/ kind = "multi" \/ kind = "ext" \/ (kind = "xor" /\ inst.hook.offline \in BOOLEAN)
  BY DEF Hooks
<1>2. CASE kind = "none"
  <2>1. Hooked(cone, uip) = {[learn |-> <<Tuple(uip)>>, hook |-> hook]}
    BY <1>2 DEF Hooked
  <2>2. QED
    BY <1>2, <2>1 DEF HookedBy
<1>3. CASE kind = "multi"
  <2>1. Hooked(cone, uip) = MultiLearn(inst.hook.k, hook, cone, uip)
    BY <1>3 DEF Hooked
  <2>2. QED
    BY <1>3, <2>1 DEF HookedBy
<1>4. CASE kind = "ext"
  <2>1. Hooked(cone, uip) = ExtLearn(inst.hook, hook, cone, uip)
    BY <1>4 DEF Hooked
  <2>2. QED
    BY <1>4, <2>1 DEF HookedBy
<1>5. CASE kind = "xor" /\ inst.hook.offline \in BOOLEAN
  <2>1. Hooked(cone, uip) = XorLearn(inst.hook.offline, InputXors(Range(inst.cls)), hook, cone, uip)
    BY <1>5 DEF Hooked
  <2>2. QED
    BY <1>5, <2>1 DEF HookedBy
<1>6. QED
  BY <1>1, <1>2, <1>3, <1>4, <1>5

\* Whatever the hook, it returns clauses of the variables there are and of new ones.
LEMMA HookedTaught ==
    ASSUME HookTyped(hook), Falsified(hook.next - 1), inst.hook \in Hooks,
           NEW r \in Hooked(Cone, Analyze.clause)
    PROVE  Taught(r, hook)
<1> DEFINE n == hook.next - 1
           uip == Analyze.clause
           cone == Cone
<1>1. uip \in SUBSET Literals(hook.next - 1) /\ ConeTyped(cone, hook.next - 1)
  BY AnalyzeFits, ConeIsTyped
<1>2. HookedBy(r, cone, uip)
  BY HookedKinds
<1> HIDE DEF uip, cone
<1>3. CASE r.learn = <<Tuple(uip)>> /\ r.hook = hook
  BY <1>1, <1>3, OnlyFirst
<1>4. CASE r \in MultiLearn(inst.hook.k, hook, cone, uip)
  BY <1>1, <1>4, MultiTaught
<1>5. CASE r \in ExtLearn(inst.hook, hook, cone, uip)
  BY <1>1, <1>5, ExtTaught
<1>6. CASE inst.hook.offline \in BOOLEAN /\ r \in XorLearn(inst.hook.offline, InputXors(Range(inst.cls)), hook, cone, uip)
  BY <1>1, <1>6, XorTaught
<1>7. QED
  BY <1>2, <1>3, <1>4, <1>5, <1>6 DEF HookedBy

----------------------------------------------------------------------------
\* Learning a clause.

\* The database with the long clauses of what is learned, and the units.
Longer(old, learn) == old \o Select(learn, {i \in DOMAIN learn : Len(learn[i]) > 1})
UnitsOf(learn) ==
    LET units == Select(learn, {i \in DOMAIN learn : Len(learn[i]) = 1})
    IN  [i \in DOMAIN units |-> units[i][1]]

\* The clauses that get longer than one literal join the database, at its end, with their watches.
LEMMA LongerFits ==
    ASSUME NEW m \in Nat, NEW old \in Seq(Clauses(m)), NEW learn \in Seq(Clauses(m)),
           NEW w, WatchesFit(w, old)
    PROVE  /\ Longer(old, learn) \in Seq(Clauses(m))
           /\ Len(old) <= Len(Longer(old, learn)) /\ Len(old) \in Nat /\ Len(Longer(old, learn)) \in Nat
           /\ \A i \in 1..Len(old) : Longer(old, learn)[i] = old[i]
           /\ \A i \in Len(old) + 1..Len(Longer(old, learn)) : Longer(old, learn)[i] \in Range(learn)
           /\ WatchesFit(AddToDb(w, Longer(old, learn), Len(old) + 1..Len(Longer(old, learn))), Longer(old, learn))
<1> DEFINE S == {i \in DOMAIN learn : Len(learn[i]) > 1}
           more == Select(learn, S)
           new == old \o more
           M == Len(old)
           K == Len(more)
<1>1. /\ more \in Seq(Clauses(m)) /\ K \in Nat
      /\ \A k \in 1..K : \E i \in S : more[k] = learn[i]
  <2>1. S \in SUBSET DOMAIN learn
    OBVIOUS
  <2> HIDE DEF S
  <2>2. /\ more \in Seq(Clauses(m)) /\ Len(more) = Cardinality(S)
        /\ \A k \in 1..Cardinality(S) : \E i \in S : more[k] = learn[i]
    BY <2>1, SelectLists
  <2> HIDE DEF more
  <2>3. QED
    BY <2>2
<1>2. Longer(old, learn) = new
  BY DEF Longer
<1> HIDE DEF more
<1>3. /\ new \in Seq(Clauses(m)) /\ M \in Nat /\ Len(new) = M + K
      /\ new = [i \in 1..M + K |-> IF i <= M THEN old[i] ELSE more[i - M]]
  BY <1>1, ConcatShape
<1>4. \A k \in 1..K : Len(more[k]) > 1 /\ more[k] \in Range(learn)
  BY <1>1 DEF Range
<1>5. WatchesFit(AddToDb(w, new, M + 1..Len(new)), new)
  BY <1>1, <1>4, AddFits
<1> HIDE DEF new, K, M
<1>6. \A i \in 1..M : i \in 1..M + K /\ i <= M
  BY <1>1, <1>3 DEF K
<1>7. \A i \in M + 1..M + K : i \in 1..M + K /\ ~(i <= M) /\ i - M \in 1..K
  BY <1>1, <1>3 DEF K
<1>8. \A i \in 1..M : new[i] = old[i]
  BY <1>3, <1>6
<1>9. \A i \in M + 1..M + K : new[i] \in Range(learn)
  BY <1>3, <1>4, <1>7 DEF K
<1>10. M <= Len(new) /\ Len(new) \in Nat
  BY <1>1, <1>3 DEF K
<1>11. QED
  BY <1>2, <1>3, <1>5, <1>8, <1>9, <1>10 DEF M

\* The others give literals for the trail.
LEMMA UnitsOfTyped ==
    ASSUME NEW m \in Nat, NEW learn \in Seq(Clauses(m))
    PROVE  /\ UnitsOf(learn) \in Seq(Literals(m))
           /\ \A l \in Range(UnitsOf(learn)) : \E c \in Range(learn) : Len(c) = 1 /\ c[1] = l
<1> DEFINE S == {i \in DOMAIN learn : Len(learn[i]) = 1}
           units == Select(learn, S)
           K == Cardinality(S)
           q == [i \in DOMAIN units |-> units[i][1]]
<1>1. /\ units \in Seq(Clauses(m)) /\ K \in Nat /\ DOMAIN units = 1..K
      /\ \A k \in 1..K : \E i \in S : units[k] = learn[i]
  <2>1. S \in SUBSET DOMAIN learn
    OBVIOUS
  <2> HIDE DEF S
  <2>2. /\ units \in Seq(Clauses(m)) /\ Len(units) = K /\ K \in Nat
        /\ \A k \in 1..K : \E i \in S : units[k] = learn[i]
    BY <2>1, SelectLists
  <2> HIDE DEF units
  <2>3. QED
    BY <2>2
<1>2. UnitsOf(learn) = q
  BY DEF UnitsOf
<1> HIDE DEF units, K
<1>3. \A k \in 1..K : Len(units[k]) = 1 /\ units[k] \in Range(learn) /\ units[k] \in Seq(Literals(m))
  BY <1>1 DEF Range, Clauses
<1>4. \A k \in 1..K : units[k][1] \in Literals(m)
  <2>1. \A c \in Seq(Literals(m)) : Len(c) = 1 => c[1] \in Literals(m)
    OBVIOUS
  <2>2. QED
    BY <1>3, <2>1
<1>5. q \in [1..K -> Literals(m)] /\ DOMAIN q = 1..K
  BY <1>1, <1>4
<1>6. q \in Seq(Literals(m))
  BY <1>1, <1>5, IsASeq
<1>7. \A l \in Range(q) : \E c \in Range(learn) : Len(c) = 1 /\ c[1] = l
  BY <1>1, <1>3 DEF Range
<1>8. QED
  BY <1>2, <1>6, <1>7

\* The trail after the jump back, with the units and what follows from the new clauses.
Resettled(old, learn, tr, level) ==
    Settle(EnqueueUnits(Backtrack(tr, level), UnitsOf(learn), level), Longer(old, learn),
           Len(old) + 1..Len(Longer(old, learn)), level)

\* It agrees with the old one up to place k, above which it has one level only; what
\* has no reason there is a unit that is learned.
Relearned(new, tr, k, level, learn) ==
    /\ k \in 0..Len(tr)
    /\ \A i \in 1..Len(tr) : tr[i].level <= level <=> i <= k
    /\ \A i \in 1..Len(new) : i <= k => new[i] = tr[i]
    /\ \A i \in 1..Len(new) : i > k =>
          /\ new[i].level = level
          /\ new[i].why = Decision => \E c \in Range(learn) : Len(c) = 1 /\ c[1] = new[i].lit
    /\ \A i \in 1..k : tr[i].level = 0 => i <= Len(new)
    /\ \A i \in 1..k : i <= Len(new) \/ \A j \in 1..Len(new) : new[j].level = 0

\* Whatever has a reason above place k has it among the clauses after the first M.
NewReasons(new, k, M) == \A i \in 1..Len(new) : i > k => new[i].why = Decision \/ new[i].why > M

\* The trail after a conflict fits the longer database; up to the jump it is what it was.
LEMMA ResettledFits ==
    ASSUME NEW n \in Nat, NEW m \in Nat, n <= m, NEW old \in Seq(Clauses(n)), NEW learn \in Seq(Clauses(m)),
           NEW tr, TrailFits(tr, old, n), NEW w, WatchesFit(w, old), NEW level \in Nat
    PROVE  /\ TrailFits(Resettled(old, learn, tr, level), Longer(old, learn), m)
           /\ \E k \in 0..Len(tr) : BacksTo(tr, level, k) /\ k <= Len(Resettled(old, learn, tr, level))
                                    /\ Len(Backtrack(tr, level)) = k
                                    /\ Relearned(Resettled(old, learn, tr, level), tr, k, level, learn)
                                    /\ NewReasons(Resettled(old, learn, tr, level), k, Len(old))
<1> DEFINE kept == Backtrack(tr, level)
           lits == UnitsOf(learn)
           clauses == Longer(old, learn)
           added == Len(old) + 1..Len(clauses)
           asserted == EnqueueUnits(kept, lits, level)
           settled == Settle(asserted, clauses, added, level)
           T == Entries(m, Len(clauses))
<1>1. old \in Seq(Clauses(m)) /\ Clauses(n) \subseteq Clauses(m)
  BY ClausesGrow
<1>2. /\ clauses \in Seq(Clauses(m)) /\ Len(old) \in Nat /\ Len(clauses) \in Nat /\ Len(old) <= Len(clauses)
      /\ \A i \in 1..Len(old) : clauses[i] = old[i]
  BY <1>1, LongerFits
<1>3. lits \in Seq(Literals(m)) /\ \A l \in Range(lits) : \E c \in Range(learn) : Len(c) = 1 /\ c[1] = l
  BY UnitsOfTyped
<1> HIDE DEF clauses, lits
<1>4. tr \in Seq(Entries(n, Len(old))) /\ Ordered(tr) /\ Len(tr) \in Nat
  BY <1>2, EntryTyped DEF TrailFits
<1>5. PICK k \in 0..Len(tr) : BacksTo(tr, level, k)
  BY <1>2, <1>4, BacktrackCuts
<1>6. TrailFits(kept, old, n) /\ Len(kept) = k /\ \A i \in 1..k : kept[i] = tr[i]
  BY <1>2, <1>5, PrefixFits DEF BacksTo
<1> HIDE DEF kept
<1>7. TrailFits(kept, clauses, m)
  <2>1. \A i \in 1..Len(old) : Range(clauses[i]) = Range(old[i])
    BY <1>2
  <2>2. QED
    BY <1>1, <1>2, <1>6, <2>1, MoreClausesFit
<1>8. CurLevel(kept) <= level
  <2>1. CASE kept = <<>>
    BY <2>1 DEF CurLevel
  <2>2. CASE kept # <<>>
    <3>1. kept \in Seq(T)
      BY <1>7 DEF TrailFits
    <3>2. k \in 1..k /\ k \in 1..Len(tr) /\ k <= k
      BY <1>4, <1>6, <2>2, <3>1
    <3>3. kept[k].level <= level
      BY <1>5, <1>6, <3>2 DEF BacksTo
    <3>4. QED
      BY <1>6, <2>2, <3>3 DEF CurLevel
  <2>3. QED
    BY <2>1, <2>2
<1>9. /\ TrailFits(asserted, clauses, m) /\ Grown(asserted, kept, level)
      /\ \A i \in Len(kept) + 1..Len(asserted) : asserted[i].why = Decision /\ asserted[i].lit \in Range(lits)
  <2>1. level >= CurLevel(kept)
    <3>1. CurLevel(kept) \in Nat
      BY <1>2, <1>7, CurLevelIsTop DEF TrailFits
    <3>2. QED
      BY <1>8, <3>1
  <2>2. QED
    BY <1>2, <1>3, <1>7, <2>1, UnitsFit
<1> HIDE DEF asserted
<1>10. kept \in Seq(T) /\ asserted \in Seq(T) /\ Len(kept) \in Nat /\ Len(asserted) \in Nat
  BY <1>7, <1>9 DEF TrailFits
<1>11. CurLevel(asserted) <= level
  <2>1. IF Len(asserted) = Len(kept) THEN CurLevel(asserted) = CurLevel(kept) ELSE CurLevel(asserted) = level
    <3> HIDE DEF T
    <3>1. QED
      BY <1>9, <1>10, GrownLevel
  <2>2. QED
    BY <1>8, <2>1
<1>12. /\ TrailFits(settled, clauses, m) /\ Grown(settled, asserted, level)
       /\ \A i \in Len(asserted) + 1..Len(settled) : settled[i].why # Decision /\ settled[i].why > Len(old)
  <2>1. added \in SUBSET (1..Len(clauses)) /\ \A i \in added : i # Decision /\ i > Len(old)
    BY <1>2 DEF Decision
  <2> HIDE DEF added
  <2>2. QED
    BY <1>2, <1>9, <1>11, <2>1, SettleFits
<1> HIDE DEF settled
<1>13. settled \in Seq(T) /\ Len(settled) \in Nat
  BY <1>12 DEF TrailFits
<1>14. Grown(settled, kept, level)
  <2> HIDE DEF T
  <2>1. QED
    BY <1>9, <1>10, <1>12, <1>13, GrownTwice
<1>15. Len(kept) <= Len(asserted) /\ Len(asserted) <= Len(settled)
  BY <1>9, <1>12 DEF Grown
<1>16. Relearned(settled, tr, k, level, learn) /\ NewReasons(settled, k, Len(old))
  <2>1. \A i \in 1..Len(settled) : i <= k => settled[i] = tr[i]
    <3>1. \A i \in 1..Len(settled) : i <= k => i \in 1..k /\ i \in 1..Len(kept)
      BY <1>6
    <3>2. QED
      BY <1>6, <1>14, <3>1 DEF Grown
  <2>2. ASSUME NEW i \in 1..Len(settled), i > k
        PROVE  /\ settled[i].level = level
               /\ settled[i].why = Decision \/ settled[i].why > Len(old)
               /\ settled[i].why = Decision => \E c \in Range(learn) : Len(c) = 1 /\ c[1] = settled[i].lit
    <3>1. i \in Len(kept) + 1..Len(settled)
      BY <1>6, <1>10, <1>13, <2>2
    <3>2. i \in Len(kept) + 1..Len(asserted) \/ i \in Len(asserted) + 1..Len(settled)
      BY <1>10, <1>13, <3>1
    <3>3. settled[i].level = level
      BY <1>14, <3>1 DEF Grown
    <3>4. CASE i \in Len(asserted) + 1..Len(settled)
      BY <1>12, <3>3, <3>4
    <3>5. CASE i \in Len(kept) + 1..Len(asserted)
      <4>1. i \in 1..Len(asserted)
        BY <1>10, <3>5
      <4>2. settled[i] = asserted[i]
        BY <1>12, <4>1 DEF Grown
      <4>3. QED
        BY <1>3, <1>9, <3>3, <3>5, <4>2
    <3>6. QED
      BY <3>2, <3>4, <3>5
  <2>3. \A i \in 1..k : i <= Len(settled)
    BY <1>6, <1>10, <1>13, <1>15
  <2>4. \A i \in 1..Len(tr) : tr[i].level <= level <=> i <= k
    BY <1>5 DEF BacksTo
  <2>5. QED
    BY <1>5, <2>1, <2>2, <2>3, <2>4 DEF Relearned, NewReasons
<1>17. k <= Len(settled)
  BY <1>6, <1>10, <1>13, <1>15
<1>18. Resettled(old, learn, tr, level) = settled
  BY DEF Resettled, settled, asserted, added, clauses, lits, kept
<1>19. QED
  BY <1>5, <1>6, <1>12, <1>16, <1>17, <1>18 DEF clauses, kept

\* ... and after a restart.
LEMMA RestartFits ==
    ASSUME NEW m \in Nat, NEW clauses, Len(clauses) \in Nat, NEW new, TrailFits(new, clauses, m),
           NEW tr, Len(tr) \in Nat, NEW k \in 0..Len(tr), NEW level \in Nat, NEW learn, Relearned(new, tr, k, level, learn),
           NEW M, NewReasons(new, k, M)
    PROVE  /\ TrailFits(Backtrack(new, 0), clauses, m)
           /\ Relearned(Backtrack(new, 0), tr, k, level, learn)
           /\ NewReasons(Backtrack(new, 0), k, M)
<1> DEFINE cut == Backtrack(new, 0)
<1>1. new \in Seq(Entries(m, Len(clauses))) /\ Ordered(new) /\ Len(new) \in Nat
      /\ \A i \in 1..Len(new) : new[i].level \in Nat
  BY EntryTyped DEF TrailFits
<1>2. PICK q \in 0..Len(new) : BacksTo(new, 0, q)
  BY <1>1, BacktrackCuts
<1>3. TrailFits(cut, clauses, m) /\ Len(cut) = q /\ \A i \in 1..q : cut[i] = new[i]
  <2>1. cut = SubSeq(new, 1, q)
    BY <1>2 DEF BacksTo
  <2> HIDE DEF cut
  <2>2. QED
    BY <2>1, PrefixFits
<1> HIDE DEF cut
<1>4. \A i \in 1..q : i \in 1..Len(new) /\ new[i].level = 0
  <2>1. \A i \in 1..q : i \in 1..Len(new) /\ i <= q
    BY <1>1, <1>2
  <2>2. \A i \in 1..q : new[i].level <= 0
    BY <1>2, <2>1 DEF BacksTo
  <2>3. QED
    BY <1>1, <2>1, <2>2
<1>5. \A i \in 1..k : tr[i].level = 0 => i <= Len(cut)
  <2>1. SUFFICES ASSUME NEW i \in 1..k, tr[i].level = 0 PROVE i <= q
    BY <1>3
  <2>2. i <= Len(new)
    BY <2>1 DEF Relearned
  <2>3. i \in 1..Len(new) /\ i <= k
    BY <1>1, <2>2
  <2>4. new[i] = tr[i]
    BY <2>3 DEF Relearned
  <2>5. new[i].level <= 0
    BY <2>1, <2>4
  <2>6. QED
    BY <1>2, <2>3, <2>5 DEF BacksTo
<1>6. \A i \in 1..Len(cut) : /\ i \in 1..Len(new) /\ cut[i] = new[i] /\ cut[i].level = 0
  BY <1>3, <1>4
<1>7. Relearned(cut, tr, k, level, learn)
  <2>1. /\ k \in 0..Len(tr) /\ \A i \in 1..Len(tr) : tr[i].level <= level <=> i <= k
        /\ \A i \in 1..Len(new) : i <= k => new[i] = tr[i]
        /\ \A i \in 1..Len(new) : i > k =>
              /\ new[i].level = level
              /\ new[i].why = Decision => \E c \in Range(learn) : Len(c) = 1 /\ c[1] = new[i].lit
    BY DEF Relearned
  <2>2. \A i \in 1..Len(cut) : i <= k => cut[i] = tr[i]
    BY <1>6, <2>1
  <2>3. \A i \in 1..Len(cut) : i > k =>
           /\ cut[i].level = level
           /\ cut[i].why = Decision => \E c \in Range(learn) : Len(c) = 1 /\ c[1] = cut[i].lit
    BY <1>6, <2>1
  <2>4. \A i \in 1..k : i <= Len(cut) \/ \A j \in 1..Len(cut) : cut[j].level = 0
    BY <1>6
  <2>5. QED
    BY <1>5, <2>1, <2>2, <2>3, <2>4 DEF Relearned
<1>8. NewReasons(cut, k, M)
  BY <1>6 DEF NewReasons
<1>9. QED
  BY <1>3, <1>7, <1>8 DEF cut

----------------------------------------------------------------------------
\* The queue, and what two watches guarantee.

\* Clause i waits for the literal at place p of the trail: the literal is not taken off
\* the queue, or it is the one at hand, in the list of which the clause is still ahead.
Waiting(list, place, qh, i, p) ==
    p > qh \/ (p = qh /\ place > 0 /\ \E k \in 1..Len(list) : k >= place /\ list[k] = i)

\* When a watch of one of the first M clauses is false and does not wait for it,
\* the other one is true, and was before or at the same level.
GuardFits(clauses, tr, list, place, qh, M) ==
    \A i \in 1..M : \A a \in 1..2 : \A p \in 1..Len(tr) :
       tr[p].lit = -clauses[i][a] /\ ~Waiting(list, place, qh, i, p) =>
          \E q \in 1..Len(tr) : tr[q].lit = clauses[i][3-a] /\ tr[q].level <= tr[p].level

\* What is still to be propagated is of the current level.
QueueFits(tr, list, place, qh) ==
    /\ qh \in 0..Len(tr) /\ place \in Nat /\ (place > 0 => qh > 0)
    /\ \A p \in 1..Len(tr) : p > qh \/ (p = qh /\ place \in 1..Len(list)) => tr[p].level = CurLevel(tr)

\* Watch lists have clauses with that watch, all of them.
Lists(s, clauses, l) ==
    \A i \in 1..Len(clauses) : \A a \in 1..2 : clauses[i][a] = -l /\ l \in Int =>
       \E k \in 1..Len(s) : s[k] = i

\* A watch list holds every clause that watches its literal, and nothing else.
LEMMA ListTyped ==
    ASSUME NEW n \in Nat, NEW clauses \in Seq(Clauses(n)), NEW w, WatchesFit(w, clauses), NEW l
    PROVE  /\ WatchList(w, l) \in Seq(1..Len(clauses)) /\ IsInjective(WatchList(w, l))
           /\ \A k \in 1..Len(WatchList(w, l)) :
                 /\ l \in DOMAIN w /\ WatchList(w, l) = w[l] /\ l \in Int
                 /\ WatchList(w, l)[k] \in 1..Len(clauses)
                 /\ -l \in {clauses[WatchList(w, l)[k]][1], clauses[WatchList(w, l)[k]][2]}
           /\ Lists(WatchList(w, l), clauses, l)
<1> DEFINE s == WatchList(w, l)
<1>1. CASE l \in DOMAIN w
  <2>1. s = w[l] /\ l \in Int
    BY <1>1 DEF WatchList, WatchesFit
  <2>2. s \in Seq(1..Len(clauses)) /\ IsInjective(s) /\ Range(s) = Watching(clauses, 1..Len(clauses), l)
    BY <1>1, <2>1 DEF WatchesFit
  <2> HIDE DEF s
  <2>3. DOMAIN s = 1..Len(s)
    BY <2>2
  <2>4. \A k \in 1..Len(s) : s[k] \in 1..Len(clauses) /\ -l \in {clauses[s[k]][1], clauses[s[k]][2]}
    BY <2>2, <2>3 DEF Range, Watching
  <2>5. ASSUME NEW i \in 1..Len(clauses), NEW a \in 1..2, clauses[i][a] = -l
        PROVE  \E k \in 1..Len(s) : s[k] = i
    <3>1. -l \in {clauses[i][1], clauses[i][2]}
      <4>1. a = 1 \/ a = 2
        OBVIOUS
      <4>2. QED
        BY <2>5, <4>1
    <3>2. i \in Range(s)
      BY <2>2, <3>1 DEF Watching
    <3>3. QED
      BY <2>3, <3>2 DEF Range
  <2>6. QED
    BY <1>1, <2>1, <2>2, <2>4, <2>5 DEF s, Lists
<1>2. CASE l \notin DOMAIN w
  <2>1. s = <<>>
    BY <1>2 DEF WatchList
  <2>2. <<>> \in Seq(1..Len(clauses)) /\ IsInjective(<<>>) /\ Len(<<>>) = 0
    BY DEF IsInjective
  <2>3. ASSUME NEW i \in 1..Len(clauses), NEW a \in 1..2, clauses[i][a] = -l, l \in Int
        PROVE  FALSE
    <3>1. -clauses[i][a] = l
      BY <2>3
    <3>2. a = 1 \/ a = 2
      OBVIOUS
    <3>3. l \in Wakers(clauses, {i})
      BY <3>1, <3>2 DEF Wakers
    <3>4. QED
      BY <1>2, <3>3 DEF WatchesFit
  <2> HIDE DEF s
  <2>4. QED
    BY <2>1, <2>2, <2>3 DEF s, Lists
<1>3. QED
  BY <1>1, <1>2

\* The next literal is taken off the queue.
LEMMA NextFits ==
    ASSUME NEW n \in Nat, NEW clauses \in Seq(Clauses(n)), NEW tr, TrailFits(tr, clauses, n),
           NEW w, WatchesFit(w, clauses), NEW M \in Nat, M <= Len(clauses),
           NEW list, NEW place, NEW qh, qh < Len(tr), ~(place > 0 /\ place <= Len(list)), Len(list) \in Nat,
           GuardFits(clauses, tr, list, place, qh, M), QueueFits(tr, list, place, qh)
    PROVE  /\ GuardFits(clauses, tr, WatchList(w, tr[qh + 1].lit), 1, qh + 1, M)
           /\ QueueFits(tr, WatchList(w, tr[qh + 1].lit), 1, qh + 1)
<1> DEFINE l == tr[qh + 1].lit
           s == WatchList(w, l)
<1>1. /\ tr \in Seq(Entries(n, Len(clauses))) /\ Len(tr) \in Nat /\ Len(clauses) \in Nat
      /\ qh \in Nat /\ place \in Nat /\ qh + 1 \in 1..Len(tr)
  BY DEF TrailFits, QueueFits
<1>2. \A i \in 1..Len(tr) : tr[i].lit \in Int
  BY <1>1, EntryTyped
<1>3. ASSUME NEW i \in 1..M, NEW a \in 1..2, NEW p \in 1..Len(tr), tr[p].lit = -clauses[i][a],
             ~Waiting(s, 1, qh + 1, i, p)
      PROVE  ~Waiting(list, place, qh, i, p)
  <2>1. ~(p > qh + 1)
    BY <1>3 DEF Waiting
  <2>2. ASSUME p = qh + 1 PROVE FALSE
    <3>1. i \in 1..Len(clauses) /\ l \in Int /\ clauses[i][a] = -l
      <4>1. i \in 1..Len(clauses)
        BY <1>1
      <4>2. tr[p].lit = l /\ l \in Int
        BY <1>1, <1>2, <2>2
      <4>3. i \in DOMAIN clauses /\ a \in DOMAIN clauses[i] /\ clauses[i][a] \in Int
        <5> DEFINE c == clauses[i]
        <5>1. c \in Clauses(n) /\ Len(c) > 1
          <6>1. Len(c) > 1
            BY <4>1 DEF WatchesFit
          <6>2. c \in Clauses(n)
            BY <4>1
          <6>3. QED
            BY <6>1, <6>2
        <5>2. c \in Seq(Literals(n))
          BY <5>1 DEF Clauses
        <5> HIDE DEF c
        <5>3. a \in DOMAIN c /\ c[a] \in Literals(n)
          BY <5>1, <5>2
        <5>4. QED
          BY <4>1, <5>3 DEF c, Literals
      <4>4. QED
        BY <1>3, <4>1, <4>2, <4>3
    <3> HIDE DEF l
    <3>2. \E k \in 1..Len(s) : s[k] = i
      <4> DEFINE t == WatchList(w, l)
      <4>1. Lists(t, clauses, l)
        BY ListTyped
      <4> HIDE DEF t
      <4>2. \E k \in 1..Len(t) : t[k] = i
        BY <3>1, <4>1 DEF Lists
      <4>3. QED
        BY <4>2 DEF t
    <3>3. PICK k \in 1..Len(s) : s[k] = i
      BY <3>2
    <3>4. k >= 1 /\ 1 > 0
      BY <3>3
    <3>5. QED
      BY <1>3, <2>2, <3>3, <3>4 DEF Waiting
  <2>3. p <= qh
    BY <1>1, <2>1, <2>2
  <2>4. ~\E k \in 1..Len(list) : k >= place /\ place > 0
    BY <1>1
  <2>5. QED
    BY <1>1, <2>3, <2>4 DEF Waiting
<1>4. GuardFits(clauses, tr, s, 1, qh + 1, M)
  BY <1>3 DEF GuardFits
<1>5. QueueFits(tr, s, 1, qh + 1)
  <2>1. \A p \in 1..Len(tr) : p > qh + 1 \/ p = qh + 1 => p > qh
    BY <1>1
  <2>2. \A p \in 1..Len(tr) : p > qh + 1 \/ p = qh + 1 => tr[p].level = CurLevel(tr)
    BY <2>1 DEF QueueFits
  <2>3. QED
    BY <1>1, <2>2 DEF QueueFits
<1>6. QED
  BY <1>4, <1>5

\* The clause at hand is left as it is: its other watch is true, maybe since now.
LEMMA AdvanceFits ==
    ASSUME NEW n \in Nat, NEW clauses \in Seq(Clauses(n)), NEW tr, TrailFits(tr, clauses, n),
           NEW M \in Nat, M <= Len(clauses),
           NEW list, IsInjective(list), DOMAIN list = 1..Len(list), Len(list) \in Nat,
           NEW qh, NEW place \in 1..Len(list),
           GuardFits(clauses, tr, list, place, qh, M), QueueFits(tr, list, place, qh),
           NEW new, TrailFits(new, clauses, n), Grown(new, tr, CurLevel(tr)),
           NEW a \in 1..2, clauses[list[place]][a] = -tr[qh].lit,
           list[place] \in 1..Len(clauses), Len(clauses[list[place]]) > 1,
           \E q \in 1..Len(new) : new[q].lit = clauses[list[place]][3-a]
    PROVE  /\ GuardFits(clauses, new, list, place + 1, qh, M)
           /\ QueueFits(new, list, place + 1, qh)
<1> DEFINE i0 == list[place]
           level == CurLevel(tr)
<1>1. /\ tr \in Seq(Entries(n, Len(clauses))) /\ Len(tr) \in Nat /\ Ordered(tr) /\ Len(clauses) \in Nat
      /\ new \in Seq(Entries(n, Len(clauses))) /\ Len(new) \in Nat /\ Ordered(new)
      /\ qh \in 1..Len(tr) /\ place \in Nat /\ Len(tr) <= Len(new)
      /\ \A i \in 1..Len(tr) : new[i] = tr[i] /\ i \in 1..Len(new)
  <2>1. tr \in Seq(Entries(n, Len(clauses))) /\ Ordered(tr) /\ new \in Seq(Entries(n, Len(clauses))) /\ Ordered(new)
    BY DEF TrailFits
  <2>2. Len(tr) \in Nat /\ Len(new) \in Nat /\ Len(clauses) \in Nat
    BY SMTT(30), <2>1
  <2>3. qh \in 0..Len(tr) /\ place \in Nat /\ place > 0 /\ qh > 0
    BY DEF QueueFits
  <2>4. Len(tr) <= Len(new) /\ \A i \in 1..Len(tr) : new[i] = tr[i]
    BY DEF Grown
  <2>5. \A i \in 1..Len(tr) : i \in 1..Len(new)
    BY <2>2, <2>4
  <2>6. QED
    BY <2>1, <2>2, <2>3, <2>4, <2>5
<1>2. /\ \A i \in 1..Len(new) : new[i].level \in Nat /\ new[i].lit \in Int \ {0}
      /\ level \in Nat /\ CurLevel(new) = level
  <2>1. level \in Nat /\ \A i \in 1..Len(new) : new[i].level \in Nat /\ new[i].lit \in Int \ {0}
    BY <1>1, EntryTyped, CurLevelIsTop
  <2>2. CurLevel(new) = level
    <3> DEFINE T == Entries(n, Len(clauses))
    <3>1. tr \in Seq(T) /\ new \in Seq(T)
      BY <1>1
    <3> HIDE DEF T
    <3>2. IF Len(new) = Len(tr) THEN CurLevel(new) = CurLevel(tr) ELSE CurLevel(new) = level
      BY <3>1, GrownLevel
    <3>3. QED
      BY <3>2
  <2>3. QED
    BY <2>1, <2>2
<1>3. new[qh].level = level /\ new[qh] = tr[qh]
  <2>1. tr[qh].level = level
    BY <1>1 DEF QueueFits
  <2>2. QED
    BY <1>1, <2>1
<1>4. \A i \in 1..Len(new) : new[i].level <= level
  BY <1>1, <1>2, CurLevelIsTop
<1>5. \A i \in Len(tr) + 1..Len(new) : new[i].level = level
  BY DEF Grown
<1> HIDE DEF level, i0
<1>6. ASSUME NEW i \in 1..M, NEW b \in 1..2, NEW p \in 1..Len(new), new[p].lit = -clauses[i][b],
             ~Waiting(list, place + 1, qh, i, p)
      PROVE  \E q \in 1..Len(new) : new[q].lit = clauses[i][3-b] /\ new[q].level <= new[p].level
  <2>1. ~(p > qh)
    BY <1>6 DEF Waiting
  <2>2. p \in 1..Len(tr) /\ p <= qh
    BY <1>1, <2>1
  <2>3. CASE p = qh /\ i = i0
    <3>1. clauses[i][b] = clauses[i][a]
      <4> DEFINE x == clauses[i][b]
      <4>1. new[qh].lit = -x /\ clauses[i][a] = -new[qh].lit
        BY <1>3, <1>6, <2>3 DEF i0
      <4>2. x \in Int
        <5> DEFINE c == clauses[i]
        <5>1. c \in Clauses(n) /\ Len(c) > 1
          BY <2>3 DEF i0
        <5>2. c \in Seq(Literals(n))
          BY <5>1 DEF Clauses
        <5> HIDE DEF c
        <5>3. c[b] \in Literals(n)
          BY <5>1, <5>2
        <5>4. QED
          BY <5>3 DEF c, Literals
      <4> HIDE DEF x
      <4>3. -new[qh].lit = x
        BY <4>1, <4>2
      <4>4. QED
        BY <4>1, <4>3 DEF x
    <3>2. a = b
      <4> DEFINE c == clauses[i]
      <4>1. c \in Clauses(n) /\ Len(c) > 1 /\ c[a] = c[b]
        BY <2>3, <3>1 DEF i0
      <4> HIDE DEF c
      <4>2. a \in 1..Len(c) /\ b \in 1..Len(c)
        <5>1. Len(c) \in Nat
          BY <4>1 DEF Clauses
        <5> DEFINE L == Len(c)
        <5>2. L \in Nat /\ L > 1 /\ a \in 1..2 /\ b \in 1..2
          BY <4>1, <5>1
        <5> HIDE DEF L
        <5>3. a \in 1..L /\ b \in 1..L
          BY SMTT(30), <5>2
        <5>4. QED
          BY <5>3 DEF L
      <4>3. QED
        BY <4>1, <4>2 DEF Clauses
    <3>3. QED
      BY <1>3, <1>4, <2>3, <3>2 DEF i0
  <2>4. CASE ~(p = qh /\ i = i0)
    <3>1. ~Waiting(list, place, qh, i, p)
      <4>1. SUFFICES ASSUME p = qh, NEW k \in 1..Len(list), k >= place, list[k] = i PROVE FALSE
        BY <2>2, <1>1 DEF Waiting
      <4>2. k # place
        BY <2>4, <4>1 DEF i0
      <4>3. k >= place + 1 /\ place + 1 > 0
        BY <1>1, <4>1, <4>2
      <4>4. QED
        BY <1>6, <4>1, <4>3 DEF Waiting
    <3>2. tr[p].lit = -clauses[i][b]
      BY <1>1, <1>6, <2>2
    <3>3. PICK q \in 1..Len(tr) : tr[q].lit = clauses[i][3-b] /\ tr[q].level <= tr[p].level
      BY <2>2, <3>1, <3>2 DEF GuardFits
    <3>4. QED
      BY <1>1, <2>2, <3>3
  <2>5. QED
    BY <2>3, <2>4
<1>7. GuardFits(clauses, new, list, place + 1, qh, M)
  BY <1>6 DEF GuardFits
<1>8. QueueFits(new, list, place + 1, qh)
  <2>1. qh \in 0..Len(new) /\ place + 1 \in Nat /\ qh > 0
    BY <1>1
  <2>2. ASSUME NEW p \in 1..Len(new), p >= qh PROVE new[p].level = level
    <3>1. CASE p \in 1..Len(tr)
      <4>1. CASE p = qh
        BY <1>3, <4>1
      <4>2. CASE p # qh
        <5>1. p > qh
          BY <1>1, <2>2, <4>2
        <5>2. tr[p].level = level
          BY <3>1, <5>1 DEF QueueFits, level
        <5>3. QED
          BY <1>1, <3>1, <5>2
      <4>3. QED
        BY <4>1, <4>2
    <3>2. CASE p \in Len(tr) + 1..Len(new)
      BY <1>5, <3>2
    <3>3. QED
      BY <1>1, <3>1, <3>2
  <2>3. \A p \in 1..Len(new) : p > qh \/ p = qh => p >= qh
    BY <1>1
  <2>4. QED
    BY <1>2, <2>1, <2>2, <2>3 DEF QueueFits
<1>9. QED
  BY <1>7, <1>8

\* A watch of a clause of two literals or more is a literal.
LEMMA WatchIsLiteral ==
    ASSUME NEW n \in Nat, NEW c \in Clauses(n), Len(c) > 1, NEW a \in 1..2
    PROVE  /\ c \in Seq(Literals(n)) /\ a \in 1..Len(c) /\ 3 - a \in 1..Len(c) /\ 3 - a # a /\ 3 - a \in 1..2
           /\ c[a] \in Literals(n) /\ c[a] \in Int \ {0} /\ c[3 - a] \in Literals(n) /\ c[a] # c[3 - a]
<1>1. c \in Seq(Literals(n)) /\ \A i, j \in 1..Len(c) : i # j => c[i] # c[j]
  BY DEF Clauses
<1> DEFINE L == Len(c)
<1>2. L \in Nat /\ L > 1
  BY <1>1
<1> HIDE DEF L
<1>3. a \in 1..L /\ 3 - a \in 1..L /\ 3 - a # a /\ 3 - a \in 1..2
  BY <1>2
<1>4. c[a] \in Literals(n) /\ c[3 - a] \in Literals(n) /\ c[a] # c[3 - a]
  BY <1>1, <1>3 DEF L
<1>5. QED
  BY <1>1, <1>3, <1>4 DEF L, Literals

\* A watch moves: the clause leaves the list at hand.
LEMMA MoveGuardFits ==
    ASSUME NEW n \in Nat, NEW clauses \in Seq(Clauses(n)), \A i \in 1..Len(clauses) : Len(clauses[i]) > 1,
           NEW tr, TrailFits(tr, clauses, n), NEW M \in Nat, M <= Len(clauses),
           NEW list \in Seq(1..Len(clauses)), IsInjective(list), NEW qh, NEW place \in 1..Len(list),
           GuardFits(clauses, tr, list, place, qh, M), QueueFits(tr, list, place, qh),
           NEW a \in 1..2, clauses[list[place]][a] = -tr[qh].lit,
           NEW j \in 3..Len(clauses[list[place]]), Value(tr, clauses[list[place]][j]) >= 0
    PROVE  /\ GuardFits([clauses EXCEPT ![list[place]] = Swap(clauses[list[place]], a, j)], tr,
                        Without(list, place), place, qh, M)
           /\ QueueFits(tr, Without(list, place), place, qh)
<1> DEFINE i0 == list[place]
           c == clauses[i0]
           d == Swap(c, a, j)
           new == [clauses EXCEPT ![i0] = d]
           rest == Without(list, place)
<1>1. /\ tr \in Seq(Entries(n, Len(clauses))) /\ Len(tr) \in Nat /\ Ordered(tr) /\ Len(clauses) \in Nat
      /\ qh \in 1..Len(tr) /\ place \in Nat /\ Len(list) \in Nat /\ place > 0
  <2>1. qh \in 0..Len(tr) /\ place \in Nat /\ place > 0 /\ qh > 0
    BY DEF QueueFits
  <2>2. QED
    BY SMTT(30), <2>1 DEF TrailFits
<1>2. i0 \in 1..Len(clauses) /\ c \in Clauses(n) /\ Len(c) > 1 /\ j \in 3..Len(c)
  <2>1. i0 \in 1..Len(clauses)
    OBVIOUS
  <2> HIDE DEF i0
  <2>2. c \in Clauses(n) /\ Len(c) > 1
    BY <2>1
  <2>3. QED
    BY <2>1, <2>2 DEF i0
<1>3. \A i \in 1..Len(clauses) : new[i] = IF i = i0 THEN d ELSE clauses[i]
  <2>1. DOMAIN clauses = 1..Len(clauses)
    OBVIOUS
  <2> HIDE DEF i0, d
  <2>2. QED
    BY <1>2, <2>1
<1>4. c[a] = -tr[qh].lit /\ Value(tr, c[j]) >= 0
  OBVIOUS
<1>5. /\ Len(rest) = Len(list) - 1
      /\ \A y \in place + 1..Len(list) : \E x \in place..Len(list) - 1 : rest[x] = list[y]
  BY WithoutShape, WithoutMember
<1>6. \A k \in 1..Len(list) : list[k] = i0 => k = place
  BY SMTT(30) DEF IsInjective
<1> HIDE DEF i0, c, d, new, rest
<1>7. /\ d \in Clauses(n) /\ d[a] = c[j] /\ d[3 - a] = c[3 - a] /\ Len(d) = Len(c)
  BY <1>2, SwapShape DEF d
<1>8. /\ c[a] \in Literals(n) /\ c[a] \in Int \ {0} /\ c[3 - a] \in Literals(n) /\ c[a] # c[3 - a]
      /\ 3 - a \in 1..2 /\ c[3 - a] \in Int \ {0} /\ 3 - (3 - a) = a
  <2>1. /\ c[a] \in Literals(n) /\ c[a] \in Int \ {0} /\ c[3 - a] \in Literals(n) /\ c[a] # c[3 - a]
        /\ 3 - a \in 1..2
    BY <1>2, WatchIsLiteral
  <2>2. c[3 - a] \in Int \ {0}
    BY <2>1 DEF Literals
  <2>3. QED
    BY <2>1, <2>2
<1>9. c[j] \in Literals(n) /\ c[j] \in Int \ {0} /\ ~\E q \in 1..Len(tr) : tr[q].lit = -c[j]
  <2>1. c[j] \in Literals(n)
    <3>1. c \in Seq(Literals(n)) /\ j \in 1..Len(c)
      <4>1. c \in Seq(Literals(n)) /\ Len(c) \in Nat
        BY <1>2 DEF Clauses
      <4>2. QED
        BY <1>2, <4>1
    <3>2. QED
      BY <3>1
  <2>2. ~\E q \in 1..Len(tr) : tr[q].lit = -c[j]
    <3> DEFINE e == c[j]
    <3>1. e \in Literals(n) /\ Value(tr, e) >= 0
      BY <1>4, <2>1
    <3> HIDE DEF e
    <3>2. Value(tr, e) >= 0 <=> ~\E i \in 1..Len(tr) : tr[i].lit = -e
      BY <1>1, <3>1, ValueTells
    <3>3. QED
      BY <3>1, <3>2 DEF e
  <2>3. QED
    BY <2>1, <2>2 DEF Literals
<1>10. /\ \A q \in 1..Len(tr) : tr[q].lit \in Int \ {0}
       /\ \A p, q \in 1..Len(tr) : Var(tr[p].lit) = Var(tr[q].lit) => p = q
  <2>1. \A p, q \in 1..Len(tr) : p # q => p < q \/ q < p
    BY <1>1
  <2>2. DOMAIN tr = 1..Len(tr) /\ \A q \in 1..Len(tr) : tr[q].lit \in Int \ {0}
    BY <1>1, EntryTyped
  <2>3. \A p, q \in 1..Len(tr) : Var(tr[p].lit) = Var(tr[q].lit) => p = q
    BY <1>1, <2>1, <2>2 DEF Ordered
  <2>4. QED
    BY <2>2, <2>3
<1>11. ~\E q \in 1..Len(tr) : tr[q].lit = c[a]
  <2>1. SUFFICES ASSUME NEW q \in 1..Len(tr), tr[q].lit = c[a] PROVE FALSE
    OBVIOUS
  <2>2. tr[q].lit = -tr[qh].lit /\ tr[qh].lit \in Int \ {0}
    BY <1>1, <1>4, <1>10, <2>1
  <2>3. Var(tr[q].lit) = Var(tr[qh].lit) /\ tr[q].lit # tr[qh].lit
    <3> DEFINE x == tr[qh].lit
               y == tr[q].lit
    <3>1. y = -x /\ x \in Int \ {0}
      BY <2>2
    <3> HIDE DEF x, y
    <3>2. Var(y) = Var(x) /\ y # x
      BY SMTT(30), <3>1 DEF Var
    <3>3. QED
      BY <3>2 DEF x, y
  <2>4. QED
    BY <1>1, <1>10, <2>3
<1>12. ASSUME NEW i \in 1..M, NEW b \in 1..2, NEW p \in 1..Len(tr), tr[p].lit = -new[i][b],
              ~Waiting(rest, place, qh, i, p)
       PROVE  \E q \in 1..Len(tr) : tr[q].lit = new[i][3-b] /\ tr[q].level <= tr[p].level
  <2>1. i \in 1..Len(clauses)
    BY <1>1
  <2>2. CASE i # i0
    <3>1. new[i] = clauses[i]
      BY <1>3, <2>1, <2>2
    <3>2. ~Waiting(list, place, qh, i, p)
      <4>1. ~(p > qh)
        BY <1>12 DEF Waiting
      <4>2. SUFFICES ASSUME p = qh, NEW k \in 1..Len(list), k >= place, list[k] = i PROVE FALSE
        BY <4>1 DEF Waiting
      <4>3. k # place
        BY <2>2, <4>2 DEF i0
      <4>4. k \in place + 1..Len(list)
        BY <1>1, <4>2, <4>3
      <4>5. PICK x \in place..Len(list) - 1 : rest[x] = list[k]
        BY <1>5, <4>4
      <4>6. x \in 1..Len(rest) /\ x >= place
        BY <1>1, <1>5, <4>5
      <4>7. QED
        BY <1>1, <1>12, <4>2, <4>5, <4>6 DEF Waiting
    <3>3. tr[p].lit = -clauses[i][b]
      BY <1>12, <3>1
    <3>4. \E q \in 1..Len(tr) : tr[q].lit = clauses[i][3-b] /\ tr[q].level <= tr[p].level
      BY <3>2, <3>3 DEF GuardFits
    <3>5. QED
      BY <3>1, <3>4
  <2>3. CASE i = i0
    <3>1. new[i] = d /\ clauses[i] = c
      BY <1>3, <2>1, <2>3 DEF c
    <3>2. b # a
      BY <1>7, <1>9, <1>12, <3>1
    <3>3. b = 3 - a
      BY <3>2
    <3>4. tr[p].lit = -c[3-a]
      BY <1>7, <1>12, <3>1, <3>3
    <3>5. Waiting(list, place, qh, i, p)
      <4>1. SUFFICES ASSUME ~Waiting(list, place, qh, i, p) PROVE FALSE
        OBVIOUS
      <4>2. PICK q \in 1..Len(tr) : tr[q].lit = c[3-(3-a)]
        BY <1>8, <3>1, <3>4, <4>1 DEF GuardFits
      <4>3. QED
        BY <1>8, <1>11, <4>2
    <3>6. p = qh
      BY <1>12, <3>5 DEF Waiting
    <3>7. c[3-a] = c[a]
      BY SMTT(30), <1>4, <1>8, <3>4, <3>6
    <3>8. QED
      BY <1>8, <3>7
  <2>4. QED
    BY <2>2, <2>3
<1>13. GuardFits(new, tr, rest, place, qh, M)
  BY <1>12 DEF GuardFits
<1>14. QueueFits(tr, rest, place, qh)
  <2>1. place \in 1..Len(rest) => place \in 1..Len(list)
    BY <1>1, <1>5
  <2>2. QED
    BY <2>1 DEF QueueFits
<1>15. QED
  BY <1>13, <1>14 DEF new, d, c, i0, rest

\* A decision, when nothing is left to propagate.
LEMMA DecideFits ==
    ASSUME NEW n \in Nat, NEW clauses, Len(clauses) \in Nat, NEW tr, TrailFits(tr, clauses, n), NEW M,
           NEW list, Len(list) \in Nat, NEW qh, qh = Len(tr), NEW place, ~(place > 0 /\ place <= Len(list)),
           GuardFits(clauses, tr, list, place, qh, M), QueueFits(tr, list, place, qh),
           NEW new, Len(new) = Len(tr) + 1, \A i \in 1..Len(tr) : new[i] = tr[i],
           new[Len(tr) + 1].level = CurLevel(new)
    PROVE  GuardFits(clauses, new, list, place, qh, M) /\ QueueFits(new, list, place, qh)
<1>1. Len(tr) \in Nat /\ place \in Nat
  BY DEF TrailFits, QueueFits
<1>2. \A p \in 1..Len(new) : p \in 1..Len(tr) \/ p = Len(tr) + 1
  BY <1>1
<1>3. ASSUME NEW i \in 1..M, NEW a \in 1..2, NEW p \in 1..Len(new), new[p].lit = -clauses[i][a],
             ~Waiting(list, place, qh, i, p)
      PROVE  \E q \in 1..Len(new) : new[q].lit = clauses[i][3-a] /\ new[q].level <= new[p].level
  <2>1. ~(p > qh)
    BY <1>3 DEF Waiting
  <2>2. p \in 1..Len(tr)
    BY <1>1, <1>2, <2>1
  <2>3. PICK q \in 1..Len(tr) : tr[q].lit = clauses[i][3-a] /\ tr[q].level <= tr[p].level
    BY SMTT(30), <1>3, <2>2 DEF GuardFits
  <2>4. q \in 1..Len(new) /\ new[q] = tr[q] /\ new[p] = tr[p]
    BY <1>1, <2>2
  <2>5. QED
    BY <2>3, <2>4
<1>4. QueueFits(new, list, place, qh)
  <2>1. qh \in 0..Len(new)
    BY <1>1
  <2>2. \A p \in 1..Len(new) : p > qh => p = Len(tr) + 1
    BY <1>1, <1>2
  <2>3. ~(place \in 1..Len(list))
    BY <1>1
  <2>4. QED
    BY <2>1, <2>2, <2>3 DEF QueueFits
<1>5. QED
  BY <1>3, <1>4 DEF GuardFits

\* A jump back, to a level below that of the literal at hand.
LEMMA JumpFits ==
    ASSUME NEW clauses, NEW more, NEW M \in Nat, M <= Len(clauses), Len(clauses) \in Nat,
           \A i \in 1..Len(clauses) : more[i] = clauses[i],
           NEW tr, Len(tr) \in Nat, NEW list, NEW place, NEW qh,
           GuardFits(clauses, tr, list, place, qh, M), QueueFits(tr, list, place, qh), place \in 1..Len(list),
           NEW level \in Nat, level < CurLevel(tr), CurLevel(tr) \in Nat,
           NEW k, NEW new, Len(new) \in Nat, NEW learn, Relearned(new, tr, k, level, learn),
           \A i \in 1..Len(tr) : tr[i].level \in Nat,
           NEW m \in Nat, TrailFits(new, more, m), Len(more) \in Nat,
           NEW any
    PROVE  /\ GuardFits(more, new, any, 0, Min({qh, k, Len(new)}), M)
           /\ QueueFits(new, any, 0, Min({qh, k, Len(new)}))
<1> DEFINE h == Min({qh, k, Len(new)})
           N == Len(new)
<1>1. qh \in 1..Len(tr) /\ k \in 0..Len(tr) /\ N \in Nat
  <2>1. qh \in 0..Len(tr) /\ place > 0
    BY DEF QueueFits
  <2>2. qh > 0
    BY <2>1 DEF QueueFits
  <2>3. QED
    BY <2>1, <2>2 DEF Relearned
<1>2. k < qh
  <2>1. tr[qh].level = CurLevel(tr)
    BY <1>1 DEF QueueFits
  <2>2. ~(tr[qh].level <= level)
    BY <2>1
  <2>3. ~(qh <= k)
    BY <1>1, <2>2 DEF Relearned
  <2>4. QED
    BY <1>1, <2>3
<1>3. h \in Nat /\ h <= k /\ h <= N /\ (h = k \/ h = N)
  <2> DEFINE S == {qh, k, N}
  <2>1. S \in SUBSET Int /\ S # {} /\ IsFiniteSet(S)
    <3>1. IsFiniteSet({qh, k, N})
      <4>1. IsFiniteSet({qh})
        BY FS_Singleton
      <4>2. IsFiniteSet({qh} \cup {k})
        BY <4>1, FS_AddElement
      <4>3. IsFiniteSet(({qh} \cup {k}) \cup {N})
        BY <4>2, FS_AddElement
      <4>4. {qh, k, N} = ({qh} \cup {k}) \cup {N}
        OBVIOUS
      <4>5. QED
        BY <4>3, <4>4
    <3>2. QED
      BY <1>1, <3>1
  <2>2. Min(S) \in S /\ \A y \in S : Min(S) <= y
    <3> HIDE DEF S
    <3>1. QED
      BY <2>1, MinIsLeast
  <2>3. h = Min(S)
    OBVIOUS
  <2> HIDE DEF h
  <2>4. h \in {qh, k, N} /\ h <= qh /\ h <= k /\ h <= N
    BY <2>2, <2>3
  <2>5. QED
    BY <1>1, <1>2, <2>4
<1> HIDE DEF h, N
<1>4. ASSUME NEW i \in 1..M, NEW a \in 1..2, NEW p \in 1..N, new[p].lit = -more[i][a],
             ~Waiting(any, 0, h, i, p)
      PROVE  \E q \in 1..N : new[q].lit = more[i][3-a] /\ new[q].level <= new[p].level
  <2>1. p <= h
    <3>1. ~(p > h)
      BY <1>4 DEF Waiting
    <3>2. QED
      BY <1>3, <3>1
  <2>2. p \in 1..k /\ p \in 1..Len(tr) /\ p < qh /\ p <= k
    BY <1>1, <1>2, <1>3, <2>1
  <2>3. new[p] = tr[p] /\ tr[p].level <= level
    BY <2>2 DEF Relearned, N
  <2>4. more[i] = clauses[i]
    BY <1>1
  <2>5. ~Waiting(list, place, qh, i, p)
    BY <1>1, <2>2 DEF Waiting
  <2>6. tr[p].lit = -clauses[i][a]
    BY <1>4, <2>3, <2>4
  <2>7. PICK q \in 1..Len(tr) : tr[q].lit = clauses[i][3-a] /\ tr[q].level <= tr[p].level
    BY <2>2, <2>5, <2>6 DEF GuardFits
  <2>8. q \in 1..k
    <3>1. tr[q].level <= level
      <4>1. tr[q].level \in Nat /\ tr[p].level \in Nat
        BY <2>2
      <4> DEFINE x == tr[q].level
                 y == tr[p].level
      <4>2. x \in Nat /\ y \in Nat /\ x <= y /\ y <= level
        BY <2>3, <2>7, <4>1
      <4> HIDE DEF x, y
      <4>3. x <= level
        BY <4>2
      <4>4. QED
        BY <4>3 DEF x
    <3>2. q <= k
      BY <3>1 DEF Relearned
    <3>3. QED
      BY <1>1, <3>2
  <2>9. q <= N
    <3>1. CASE \A x \in 1..Len(new) : new[x].level = 0
      <4>1. tr[p].level = 0
        BY <2>3, <3>1 DEF N
      <4>2. tr[q].level = 0
        BY SMTT(30), <2>2, <2>7, <4>1
      <4>3. QED
        BY <2>8, <4>2 DEF Relearned, N
    <3>2. CASE ~\A x \in 1..Len(new) : new[x].level = 0
      BY <2>8, <3>2 DEF Relearned, N
    <3>3. QED
      BY <3>1, <3>2
  <2>10. q \in 1..N /\ q <= k
    BY <1>1, <2>8, <2>9
  <2>11. new[q] = tr[q]
    BY <2>10 DEF Relearned, N
  <2>12. QED
    BY <2>3, <2>4, <2>7, <2>10, <2>11
<1>5. ASSUME NEW p \in 1..N, p > h PROVE new[p].level = CurLevel(new)
  <2>1. h = k /\ N \in 1..N /\ p > k /\ N > k /\ N # 0
    BY <1>1, <1>3, <1>5
  <2>2. new[p].level = level /\ new[N].level = level
    BY <2>1 DEF Relearned, N
  <2>3. new # <<>>
    BY <2>1 DEF N
  <2>4. QED
    BY <2>2, <2>3 DEF CurLevel, N
<1>6. GuardFits(more, new, any, 0, h, M)
  BY <1>4 DEF GuardFits, N
<1>7. QueueFits(new, any, 0, h)
  <2>1. h \in 0..Len(new) /\ ~(0 > 0) /\ 0 \in Nat
    BY <1>1, <1>3 DEF N
  <2>2. ~(0 \in 1..Len(any))
    OBVIOUS
  <2>3. QED
    BY <2>1, <2>2, <1>5 DEF QueueFits, N
<1>8. QED
  BY <1>6, <1>7 DEF h, N

----------------------------------------------------------------------------
\* The inductive invariant.

\* The clauses are over the variables there are, and those of the input come first, in
\* whatever order their literals are by now.
ClausesOK ==
    /\ HookTyped(hook) /\ inst.n < hook.next
    /\ db \in Seq(Clauses(hook.next - 1))
    /\ Len(Long(inst.cls)) <= Len(db)
    /\ \A i \in 1..Len(Long(inst.cls)) : Range(db[i]) = Long(inst.cls)[i]

TrailOK == TrailFits(trail, db, hook.next - 1)
WatchesOK == WatchesFit(watch, db)
QueueOK == QueueFits(trail, Watched, at, qhead)
Guarded == GuardFits(db, trail, Watched, at, qhead, Len(Long(inst.cls)))
PhaseOK == phase \in [1..inst.n -> {-1, 1}]

\* A conflict is a false clause: the one at hand.
ConflictOK ==
    /\ confl \in 0..Len(db)
    /\ confl # NoConflict => Busy /\ Watched[at] = confl /\ Neg(Range(db[confl])) \subseteq Lits(trail)

IInv ==
    /\ inst \in Instances /\ answer \in Answers
    /\ ClausesOK /\ TrailOK /\ WatchesOK /\ QueueOK /\ Guarded /\ PhaseOK /\ ConflictOK

\* The instances are formulas.
LEMMA InstanceTyped ==
    ASSUME NEW x \in Instances
    PROVE  x.n \in Nat /\ x.cls \in Seq(SUBSET Literals(x.n)) /\ x.hook \in Hooks
<1>1. x.n \in Nat /\ x.cls \in Seq(SUBSET Int) /\ x.hook \in Hooks
  BY InstancesAssumption
<1>2. \A i \in DOMAIN x.cls : x.cls[i] \subseteq Literals(x.n)
  BY InstancesAssumption
<1>3. x.cls \in Seq(SUBSET Literals(x.n))
  <2> DEFINE s == x.cls
             T == SUBSET Literals(x.n)
  <2>1. s \in Seq(SUBSET Int) /\ \A i \in DOMAIN s : s[i] \in T
    BY <1>1, <1>2
  <2> HIDE DEF s, T
  <2>2. s \in [1..Len(s) -> T] /\ Len(s) \in Nat
    BY <2>1
  <2>3. s \in Seq(T)
    BY <2>2, IsASeq
  <2>4. QED
    BY <2>3 DEF s, T
<1>4. QED
  BY <1>1, <1>3

\* The long clauses and the units of a formula.
LEMMA FormulaSplits ==
    ASSUME NEW n \in Nat, NEW cls \in Seq(SUBSET Literals(n))
    PROVE  /\ Long(cls) \in Seq(SUBSET Literals(n)) /\ Units(cls) \in Seq(SUBSET Literals(n))
           /\ \A i \in 1..Len(Long(cls)) : Cardinality(Long(cls)[i]) > 1
           /\ \A i \in 1..Len(Units(cls)) : Cardinality(Units(cls)[i]) = 1
           /\ \A c \in Range(cls) : Proper(c) /\ Cardinality(c) > 1 => c \in Range(Long(cls))
           /\ \A c \in Range(cls) : Cardinality(c) = 1 => c \in Range(Units(cls))
           /\ Range(Long(cls)) \subseteq Range(cls) /\ Range(Units(cls)) \subseteq Range(cls)
<1> DEFINE S == {i \in DOMAIN cls : Proper(cls[i]) /\ Cardinality(cls[i]) > 1}
           T == {i \in DOMAIN cls : Cardinality(cls[i]) = 1}
           long == Long(cls)
           units == Units(cls)
           X == SUBSET Literals(n)
<1>1. S \in SUBSET DOMAIN cls /\ T \in SUBSET DOMAIN cls /\ cls \in Seq(X)
  OBVIOUS
<1>2. long = Select(cls, S) /\ units = Select(cls, T)
  BY DEF Long, Units
<1>3. /\ \A i \in S : Proper(cls[i]) /\ Cardinality(cls[i]) > 1 /\ cls[i] \in Range(cls)
      /\ \A i \in T : Cardinality(cls[i]) = 1 /\ cls[i] \in Range(cls)
      /\ \A c \in Range(cls) : Proper(c) /\ Cardinality(c) > 1 => \E i \in S : c = cls[i]
      /\ \A c \in Range(cls) : Cardinality(c) = 1 => \E i \in T : c = cls[i]
  BY DEF Range
<1> HIDE DEF S, T, long, units, X
<1>4. /\ long \in Seq(X) /\ Len(long) \in Nat /\ DOMAIN long = 1..Len(long)
      /\ \A k \in 1..Len(long) : \E i \in S : long[k] = cls[i]
      /\ \A i \in S : \E k \in 1..Len(long) : long[k] = cls[i]
  <2>1. /\ long \in Seq(X) /\ Len(long) = Cardinality(S)
        /\ \A k \in 1..Cardinality(S) : \E i \in S : long[k] = cls[i]
        /\ \A i \in S : \E k \in 1..Cardinality(S) : long[k] = cls[i]
    <3> DEFINE u == Select(cls, S)
    <3>1. /\ u \in Seq(X) /\ Len(u) = Cardinality(S)
          /\ \A k \in 1..Cardinality(S) : \E i \in S : u[k] = cls[i]
          /\ \A i \in S : \E k \in 1..Cardinality(S) : u[k] = cls[i]
      BY <1>1, SelectLists
    <3>2. u = long
      BY <1>2
    <3> HIDE DEF u
    <3>3. QED
      BY <3>1, <3>2
  <2>2. QED
    BY <2>1
<1>5. /\ units \in Seq(X) /\ Len(units) \in Nat /\ DOMAIN units = 1..Len(units)
      /\ \A k \in 1..Len(units) : \E i \in T : units[k] = cls[i]
      /\ \A i \in T : \E k \in 1..Len(units) : units[k] = cls[i]
  <2>1. /\ units \in Seq(X) /\ Len(units) = Cardinality(T)
        /\ \A k \in 1..Cardinality(T) : \E i \in T : units[k] = cls[i]
        /\ \A i \in T : \E k \in 1..Cardinality(T) : units[k] = cls[i]
    <3> DEFINE u == Select(cls, T)
    <3>1. /\ u \in Seq(X) /\ Len(u) = Cardinality(T)
          /\ \A k \in 1..Cardinality(T) : \E i \in T : u[k] = cls[i]
          /\ \A i \in T : \E k \in 1..Cardinality(T) : u[k] = cls[i]
      BY <1>1, SelectLists
    <3>2. u = units
      BY <1>2
    <3> HIDE DEF u
    <3>3. QED
      BY <3>1, <3>2
  <2>2. QED
    BY <2>1
<1>6. \A k \in 1..Len(long) : Cardinality(long[k]) > 1 /\ long[k] \in Range(cls)
  BY <1>3, <1>4
<1>7. \A k \in 1..Len(units) : Cardinality(units[k]) = 1 /\ units[k] \in Range(cls)
  BY <1>3, <1>5
<1>8. \A c \in Range(cls) : Proper(c) /\ Cardinality(c) > 1 => c \in Range(long)
  <2>1. \A k \in 1..Len(long) : long[k] \in Range(long)
    BY <1>4 DEF Range
  <2>2. QED
    BY <1>3, <1>4, <2>1
<1>9. \A c \in Range(cls) : Cardinality(c) = 1 => c \in Range(units)
  <2>1. \A k \in 1..Len(units) : units[k] \in Range(units)
    BY <1>5 DEF Range
  <2>2. QED
    BY <1>3, <1>5, <2>1
<1>10. Range(long) \subseteq Range(cls) /\ Range(units) \subseteq Range(cls)
  BY <1>4, <1>5, <1>6, <1>7 DEF Range
<1>11. QED
  BY <1>4, <1>5, <1>6, <1>7, <1>8, <1>9, <1>10 DEF long, units, X

\* The tuple of a unit is its literal.
LEMMA UnitTuple ==
    ASSUME NEW n \in Nat, NEW c \in SUBSET Literals(n), Cardinality(c) = 1
    PROVE  Tuple(c)[1] \in Literals(n) /\ c = {Tuple(c)[1]}
<1>1. IsFiniteSet(c)
  BY LiteralsFinite, FS_Subset
<1>2. PICK l : c = {l}
  BY <1>1, FS_Singleton
<1>3. c \in SUBSET (Int \ {0})
  BY DEF Literals
<1>4. Tuple(c) \in Seq(c) /\ Len(Tuple(c)) = 1
  BY <1>1, <1>3, TupleIsAll
<1> DEFINE t == Tuple(c)
<1> HIDE DEF t
<1>5. t \in Seq(c) /\ Len(t) = 1
  BY <1>4 DEF t
<1>6. t[1] \in c
  BY <1>5
<1>7. QED
  BY <1>2, <1>6 DEF t

\* A formula at the start.
Tuples(s) == [i \in DOMAIN s |-> Tuple(s[i])]
Firsts(s) == [i \in DOMAIN s |-> Tuple(s[i])[1]]

Starts(clauses, lits, n, cls) ==
    /\ clauses \in Seq(Clauses(n)) /\ Len(clauses) = Len(Long(cls))
    /\ \A i \in 1..Len(clauses) : Len(clauses[i]) > 1 /\ Range(clauses[i]) = Long(cls)[i]
    /\ lits \in Seq(Literals(n)) /\ Len(lits) = Len(Units(cls))
    /\ \A i \in 1..Len(lits) : Units(cls)[i] = {lits[i]}

\* What the clauses of the instance become.
LEMMA StartFits ==
    ASSUME NEW n \in Nat, NEW cls \in Seq(SUBSET Literals(n)),
           NEW clauses, clauses = Tuples(Long(cls)), NEW lits, lits = Firsts(Units(cls))
    PROVE  Starts(clauses, lits, n, cls)
<1> DEFINE long == Long(cls)
           units == Units(cls)
           L == Len(long)
           U == Len(units)
<1>1. /\ long \in Seq(SUBSET Literals(n)) /\ units \in Seq(SUBSET Literals(n))
      /\ \A i \in 1..L : Cardinality(long[i]) > 1
      /\ \A i \in 1..U : Cardinality(units[i]) = 1
  BY FormulaSplits
<1>2. clauses = [i \in DOMAIN long |-> Tuple(long[i])] /\ lits = [i \in DOMAIN units |-> Tuple(units[i])[1]]
  BY DEF Tuples, Firsts
<1> HIDE DEF long, units
<1>3. L \in Nat /\ U \in Nat /\ DOMAIN long = 1..L /\ DOMAIN units = 1..U
  BY <1>1
<1>4. ASSUME NEW i \in 1..L PROVE Tuple(long[i]) \in Clauses(n) /\ Range(Tuple(long[i])) = long[i] /\ Len(Tuple(long[i])) > 1
  <2> DEFINE c == long[i]
  <2>1. c \in SUBSET Literals(n) /\ Cardinality(c) > 1
    BY <1>1
  <2> HIDE DEF c
  <2>2. IsFiniteSet(c) /\ c \in SUBSET (Int \ {0})
    BY <2>1, LiteralsFinite, FS_Subset DEF Literals
  <2>3. Len(Tuple(c)) = Cardinality(c)
    BY <2>2, TupleIsAll
  <2>4. Tuple(c) \in Clauses(n) /\ Range(Tuple(c)) = c
    BY <2>1, TupleTyped
  <2>5. QED
    BY <2>1, <2>3, <2>4 DEF c
<1>5. ASSUME NEW i \in 1..U PROVE Tuple(units[i])[1] \in Literals(n) /\ units[i] = {Tuple(units[i])[1]}
  <2> DEFINE c == units[i]
  <2>1. c \in SUBSET Literals(n) /\ Cardinality(c) = 1
    BY <1>1
  <2> HIDE DEF c
  <2>2. Tuple(c)[1] \in Literals(n) /\ c = {Tuple(c)[1]}
    BY <2>1, UnitTuple
  <2>3. QED
    BY <2>2 DEF c
<1> HIDE DEF L, U
<1>6. clauses \in [1..L -> Clauses(n)] /\ lits \in [1..U -> Literals(n)]
  BY <1>2, <1>3, <1>4, <1>5
<1>7. clauses \in Seq(Clauses(n)) /\ Len(clauses) = L /\ lits \in Seq(Literals(n)) /\ Len(lits) = U
  BY <1>3, <1>6, IsASeq
<1>8. \A i \in 1..L : Len(clauses[i]) > 1 /\ Range(clauses[i]) = long[i]
  BY <1>2, <1>3, <1>4
<1>9. \A i \in 1..U : units[i] = {lits[i]}
  BY <1>2, <1>3, <1>5
<1>10. QED
  BY <1>7, <1>8, <1>9 DEF L, U, long, units, Starts

\* The invariant holds at the start, where all is of level 0.
LEMMA StartInv ==
    ASSUME Init
    PROVE  IInv /\ \A i \in 1..Len(trail) : trail[i].level = 0
<1> DEFINE n == inst.n
           cls == inst.cls
<1>1. inst \in Instances /\ n \in Nat /\ cls \in Seq(SUBSET Literals(n))
  BY InstanceTyped DEF Init
<1>2. /\ hook = [pairs |-> {}, gates |-> <<>>, next |-> n + 1] /\ answer \in Answers
      /\ qhead = 0 /\ at = 0 /\ confl = 0 /\ phase = [v \in 1..n |-> -1]
      /\ watch = AddToDb(<<>>, db, DOMAIN db)
  BY DEF Init, Answers, Running, NoConflict
<1> DEFINE units == Units(cls)
           lits == [i \in DOMAIN units |-> Tuple(units[i])[1]]
<1>3. db = Tuples(Long(cls)) /\ trail = EnqueueUnits(<<>>, lits, 0)
  BY DEF Init, Tuples
<1>0. lits = Firsts(Units(cls))
  BY DEF Firsts
<1> HIDE DEF n, cls
<1>4. /\ db \in Seq(Clauses(n)) /\ Len(db) = Len(Long(cls))
      /\ \A i \in 1..Len(db) : Len(db[i]) > 1 /\ Range(db[i]) = Long(cls)[i]
      /\ lits \in Seq(Literals(n))
  <2> HIDE DEF lits, units
  <2>1. Starts(db, lits, n, cls)
    BY <1>0, <1>1, <1>3, StartFits
  <2>2. QED
    BY <2>1 DEF Starts
<1> HIDE DEF lits, units
<1>5. Len(db) \in Nat /\ DOMAIN db = 1..Len(db)
  BY <1>4
<1>6. HookTyped(hook) /\ hook.next = n + 1 /\ hook.next - 1 = n
  <2>1. hook.pairs = {} /\ hook.gates = <<>> /\ hook.next = n + 1
    BY <1>2
  <2>2. DOMAIN hook.gates = {}
    BY <2>1
  <2>3. hook = [pairs |-> hook.pairs, gates |-> hook.gates, next |-> hook.next]
    BY <1>2
  <2>4. hook.next \in Nat \ {0} /\ hook.next - 1 = n
    BY <1>1, <2>1
  <2>5. QED
    BY <2>1, <2>2, <2>3, <2>4 DEF HookTyped
<1>7. TrailFits(<<>>, db, n) /\ CurLevel(<<>>) = 0 /\ Len(<<>>) = 0
  <2>1. <<>> \in Seq(Entries(n, Len(db))) /\ DOMAIN <<>> = {} /\ Len(<<>>) = 0
    OBVIOUS
  <2>2. QED
    BY <2>1 DEF TrailFits, Ordered, Reasoned, CurLevel
<1>8. TrailFits(trail, db, n) /\ Grown(trail, <<>>, 0)
  <2>1. 0 \in Nat /\ 0 >= CurLevel(<<>>)
    BY <1>7
  <2>2. TrailFits(EnqueueUnits(<<>>, lits, 0), db, n) /\ Grown(EnqueueUnits(<<>>, lits, 0), <<>>, 0)
    BY <1>1, <1>4, <1>5, <1>7, <2>1, UnitsFit
  <2>3. QED
    BY <1>3, <2>2
<1>9. WatchesFit(watch, db)
  <2>1. <<>> \in Seq(Clauses(n)) /\ <<>> \o db = db /\ Len(<<>>) = 0 /\ DOMAIN <<>> = {}
    BY <1>4
  <2>2. WatchesFit(<<>>, <<>>)
    BY <2>1 DEF WatchesFit
  <2>3. WatchesFit(AddToDb(<<>>, <<>> \o db, Len(<<>>) + 1..Len(<<>> \o db)), <<>> \o db)
    BY <1>1, <1>4, <2>1, <2>2, AddFits
  <2>4. Len(<<>>) + 1..Len(<<>> \o db) = DOMAIN db
    BY <1>5, <2>1
  <2>5. QED
    BY <1>2, <2>1, <2>3, <2>4
<1>10. /\ Len(trail) \in Nat /\ trail \in Seq(Entries(n, Len(db))) /\ DOMAIN trail = 1..Len(trail)
       /\ \A p \in 1..Len(trail) : trail[p].level = 0
  <2>1. trail \in Seq(Entries(n, Len(db)))
    BY <1>8 DEF TrailFits
  <2>2. Len(trail) \in Nat /\ DOMAIN trail = 1..Len(trail)
    BY <2>1
  <2>3. \A p \in 0 + 1..Len(trail) : trail[p].level = 0
    BY <1>7, <1>8 DEF Grown
  <2>4. QED
    BY <2>1, <2>2, <2>3
<1>11. CurLevel(trail) = 0
  <2>1. CASE trail = <<>>
    BY <2>1 DEF CurLevel
  <2>2. CASE trail # <<>>
    <3>1. Len(trail) \in 1..Len(trail)
      BY <1>10, <2>2
    <3>2. QED
      BY <1>10, <2>2, <3>1 DEF CurLevel
  <2>3. QED
    BY <2>1, <2>2
<1>12. QueueOK
  BY <1>2, <1>10, <1>11 DEF QueueOK, QueueFits
<1>13. Guarded
  <2>1. \A i : \A p \in 1..Len(trail) : Waiting(Watched, at, qhead, i, p)
    BY <1>2, <1>10 DEF Waiting
  <2>2. QED
    BY <2>1 DEF Guarded, GuardFits
<1>14. ClausesOK
  <2>1. Len(Long(cls)) = Len(db) /\ db \in Seq(Clauses(hook.next - 1)) /\ inst.n < hook.next
    BY <1>1, <1>4, <1>6 DEF n
  <2>2. \A i \in 1..Len(Long(cls)) : Range(db[i]) = Long(cls)[i]
    BY <1>4, <2>1
  <2>3. QED
    BY <1>5, <1>6, <2>1, <2>2 DEF ClausesOK, cls
<1>15. ConflictOK /\ PhaseOK
  BY <1>2, <1>5 DEF ConflictOK, PhaseOK, NoConflict, n
<1>16. QED
  BY <1>1, <1>2, <1>6, <1>8, <1>9, <1>10, <1>12, <1>13, <1>14, <1>15 DEF IInv, TrailOK, WatchesOK

\* What the invariant says of the variables.
Parts(n, M) ==
    /\ n \in Nat /\ inst.n \in Nat /\ inst.n <= n /\ M \in Nat /\ M <= Len(db)
    /\ db \in Seq(Clauses(n)) /\ Len(db) \in Nat /\ DOMAIN db = 1..Len(db)
    /\ TrailFits(trail, db, n) /\ trail \in Seq(Entries(n, Len(db))) /\ Ordered(trail)
    /\ Len(trail) \in Nat /\ DOMAIN trail = 1..Len(trail)
    /\ WatchesFit(watch, db) /\ \A i \in 1..Len(db) : Len(db[i]) > 1
    /\ QueueFits(trail, Watched, at, qhead) /\ GuardFits(db, trail, Watched, at, qhead, M)
    /\ qhead \in Nat /\ qhead <= Len(trail) /\ at \in Nat
    /\ Watched \in Seq(1..Len(db)) /\ IsInjective(Watched) /\ Len(Watched) \in Nat /\ DOMAIN Watched = 1..Len(Watched)

\* The clause at hand and its watch.
AtHand(n, i, a) ==
    /\ qhead \in 1..Len(trail) /\ at \in 1..Len(Watched)
    /\ i \in 1..Len(db) /\ i = Watched[at] /\ a \in 1..2 /\ db[i][a] = -Literal
    /\ Literal \in DOMAIN watch /\ Watched = watch[Literal]
    /\ Literal \in Literals(n) /\ Literal \in Int \ {0}

\* The invariant, spelled out.
LEMMA InvParts ==
    ASSUME IInv
    PROVE  Parts(hook.next - 1, Len(Long(inst.cls)))
<1> DEFINE n == hook.next - 1
           M == Len(Long(inst.cls))
<1>1. inst \in Instances /\ ClausesOK /\ TrailOK /\ WatchesOK /\ QueueOK /\ Guarded
  BY DEF IInv
<1>2. inst.n \in Nat /\ Long(inst.cls) \in Seq(SUBSET Literals(inst.n))
  <2>1. inst.n \in Nat /\ inst.cls \in Seq(SUBSET Literals(inst.n))
    BY <1>1, InstanceTyped
  <2>2. QED
    BY <2>1, FormulaSplits
<1>3. M \in Nat
  BY <1>2
<1>4. n \in Nat /\ inst.n <= n
  <2>1. hook.next \in Nat \ {0} /\ inst.n < hook.next
    BY <1>1 DEF ClausesOK, HookTyped
  <2>2. QED
    BY <1>2, <2>1
<1>5. db \in Seq(Clauses(n)) /\ M <= Len(db)
  BY <1>1 DEF ClausesOK
<1> HIDE DEF n, M
<1>6. Len(db) \in Nat /\ DOMAIN db = 1..Len(db)
  BY <1>5
<1>7. TrailFits(trail, db, n)
  BY <1>1 DEF TrailOK, n
<1>8. trail \in Seq(Entries(n, Len(db))) /\ Ordered(trail)
  BY <1>7 DEF TrailFits
<1>9. Len(trail) \in Nat /\ DOMAIN trail = 1..Len(trail)
  BY <1>8
<1>10. WatchesFit(watch, db) /\ \A i \in 1..Len(db) : Len(db[i]) > 1
  <2>1. WatchesFit(watch, db)
    BY <1>1 DEF WatchesOK
  <2>2. QED
    BY <2>1 DEF WatchesFit
<1>11. QueueFits(trail, Watched, at, qhead) /\ GuardFits(db, trail, Watched, at, qhead, M)
  BY <1>1 DEF QueueOK, Guarded, M
<1>12. qhead \in Nat /\ qhead <= Len(trail) /\ at \in Nat
  <2>1. qhead \in 0..Len(trail) /\ at \in Nat
    BY <1>11 DEF QueueFits
  <2>2. QED
    BY <1>9, <2>1
<1>13. Watched \in Seq(1..Len(db)) /\ IsInjective(Watched)
  <2>1. WatchList(watch, Literal) \in Seq(1..Len(db)) /\ IsInjective(WatchList(watch, Literal))
    BY <1>4, <1>5, <1>10, ListTyped
  <2>2. QED
    BY <2>1 DEF Watched
<1>14. Len(Watched) \in Nat /\ DOMAIN Watched = 1..Len(Watched)
  BY <1>13
<1>15. Parts(n, M)
  BY <1>2, <1>3, <1>4, <1>5, <1>6, <1>7, <1>8, <1>9, <1>10, <1>11, <1>12, <1>13, <1>14 DEF Parts
<1>16. QED
  BY <1>15 DEF n, M

\* The clause that is visited watches the literal at hand.
LEMMA AtHandFits ==
    ASSUME NEW n, NEW M, Parts(n, M), Busy
    PROVE  AtHand(n, Watched[at], IF db[Watched[at]][1] = -Literal THEN 1 ELSE 2)
<1>1. /\ n \in Nat /\ db \in Seq(Clauses(n)) /\ WatchesFit(watch, db) /\ QueueFits(trail, Watched, at, qhead)
      /\ trail \in Seq(Entries(n, Len(db))) /\ Len(trail) \in Nat /\ Len(db) \in Nat /\ at \in Nat /\ Len(Watched) \in Nat
      /\ qhead \in Nat /\ qhead <= Len(trail)
  BY DEF Parts
<1>2. at \in 1..Len(Watched)
  BY <1>1 DEF Busy
<1>3. qhead > 0
  <2>1. at > 0
    BY DEF Busy
  <2>2. QED
    BY <1>1, <2>1 DEF QueueFits
<1>4. qhead \in 1..Len(trail)
  BY <1>1, <1>3
<1>5. Literal \in Literals(n) /\ Literal \in Int \ {0}
  BY <1>1, <1>4, EntryTyped DEF Literal
<1>6. /\ Literal \in DOMAIN watch /\ Watched = watch[Literal] /\ Watched[at] \in 1..Len(db)
      /\ -Literal \in {db[Watched[at]][1], db[Watched[at]][2]}
  <2>1. \A k \in 1..Len(WatchList(watch, Literal)) :
           /\ Literal \in DOMAIN watch /\ WatchList(watch, Literal) = watch[Literal]
           /\ WatchList(watch, Literal)[k] \in 1..Len(db)
           /\ -Literal \in {db[WatchList(watch, Literal)[k]][1], db[WatchList(watch, Literal)[k]][2]}
    BY <1>1, ListTyped
  <2>2. QED
    BY <1>2, <2>1 DEF Watched
<1>7. QED
  <2> DEFINE i == Watched[at]
             a == IF db[i][1] = -Literal THEN 1 ELSE 2
  <2>1. a \in 1..2 /\ db[i][a] = -Literal
    BY <1>6
  <2>2. QED
    BY <1>2, <1>4, <1>5, <1>6, <2>1 DEF AtHand

----------------------------------------------------------------------------
\* A step that changes no clause, watch, trail or queue keeps the invariant ...
LEMMA StillInv ==
    ASSUME IInv, UNCHANGED <<inst, db, watch, trail, qhead, at, confl, phase, hook>>, answer' \in Answers
    PROVE  IInv'
<1>1. Watched' = Watched /\ Busy' = Busy
  BY DEF Watched, Busy, Literal
<1>2. ClausesOK' = ClausesOK /\ TrailOK' = TrailOK /\ WatchesOK' = WatchesOK /\ PhaseOK' = PhaseOK
  BY DEF ClausesOK, TrailOK, WatchesOK, PhaseOK
<1>3. QueueOK' = QueueOK /\ Guarded' = Guarded /\ ConflictOK' = ConflictOK
  BY <1>1 DEF QueueOK, Guarded, ConflictOK
<1>4. QED
  BY <1>2, <1>3 DEF IInv

\* ... and so does taking the next literal off the queue.
LEMMA NextLiteralInv ==
    ASSUME IInv, NextLiteral
    PROVE  IInv'
<1> DEFINE n == hook.next - 1
           M == Len(Long(inst.cls))
<1>1. Parts(n, M)
  BY InvParts
<1>2. /\ qhead < Len(trail) /\ ~Busy /\ qhead' = qhead + 1 /\ at' = 1 /\ confl = NoConflict
      /\ UNCHANGED <<inst, db, watch, trail, confl, phase, hook, answer>>
  BY DEF NextLiteral, Propagating
<1>3. Watched' = WatchList(watch, trail[qhead + 1].lit)
  BY <1>2 DEF Watched, Literal
<1> HIDE DEF n, M
<1>4. /\ n \in Nat /\ db \in Seq(Clauses(n)) /\ TrailFits(trail, db, n) /\ WatchesFit(watch, db)
      /\ M \in Nat /\ M <= Len(db) /\ Len(Watched) \in Nat
      /\ GuardFits(db, trail, Watched, at, qhead, M) /\ QueueFits(trail, Watched, at, qhead)
  BY <1>1 DEF Parts
<1>5. ~(at > 0 /\ at <= Len(Watched))
  BY <1>2 DEF Busy
<1>6. /\ GuardFits(db, trail, WatchList(watch, trail[qhead + 1].lit), 1, qhead + 1, M)
      /\ QueueFits(trail, WatchList(watch, trail[qhead + 1].lit), 1, qhead + 1)
  <2> DEFINE list == Watched
  <2>1. Len(list) \in Nat /\ ~(at > 0 /\ at <= Len(list)) /\ GuardFits(db, trail, list, at, qhead, M) /\ QueueFits(trail, list, at, qhead)
    BY <1>4, <1>5
  <2> HIDE DEF list
  <2>2. QED
    BY <1>2, <1>4, <2>1, NextFits
<1>7. Guarded' /\ QueueOK'
  BY <1>2, <1>3, <1>6 DEF Guarded, QueueOK, M
<1>8. ClausesOK' = ClausesOK /\ TrailOK' = TrailOK /\ WatchesOK' = WatchesOK /\ PhaseOK' = PhaseOK
  BY <1>2 DEF ClausesOK, TrailOK, WatchesOK, PhaseOK
<1>9. ConflictOK'
  <2>1. confl' = NoConflict /\ confl' \in 0..Len(db')
    BY <1>2 DEF IInv, ConflictOK
  <2>2. QED
    BY <2>1 DEF ConflictOK
<1>10. QED
  BY <1>2, <1>7, <1>8, <1>9 DEF IInv

\* The literals of a clause that are not watched and could hold.
Rest(i) == {j \in 3..Len(db[i]) : Value(trail, db[i][j]) >= 0}

\* What a visit does with clause i, the watch of which at position a is false.
Skips(i, a) ==
    Value(trail, db[i][3-a]) > 0 /\ at' = at + 1 /\ UNCHANGED <<db, watch, trail, confl>>
Moves(i, a, j) ==
    j \in Rest(i) /\ MoveWatch(i, a, j) /\ UNCHANGED <<at, trail, confl>>
Implies(i, a) ==
    /\ Value(trail, db[i][3-a]) = 0 /\ Rest(i) = {}
    /\ trail' = Enqueue(trail, db[i][3-a], i, CurLevel(trail)) /\ at' = at + 1 /\ UNCHANGED <<db, watch, confl>>
Fails(i, a) ==
    Value(trail, db[i][3-a]) < 0 /\ Rest(i) = {} /\ confl' = i /\ UNCHANGED <<db, watch, trail, at>>

\* A visit is one of four.
LEMMA VisitHandles ==
    ASSUME Visit, NEW n, NEW M, Parts(n, M), NEW i, i = Watched[at], NEW a, a = (IF db[i][1] = -Literal THEN 1 ELSE 2)
    PROVE  /\ Busy /\ confl = NoConflict /\ UNCHANGED <<inst, qhead, phase, hook, answer>>
           /\ Skips(i, a) \/ (\E j : Moves(i, a, j)) \/ Implies(i, a) \/ Fails(i, a)
<1> DEFINE b == db[i][3 - a]
           open == {j \in 3 .. Len(db[i]) : Value(trail, db[i][j]) >= 0}
<1>1. Busy /\ confl = NoConflict /\ UNCHANGED <<inst, qhead, phase, hook, answer>>
  BY DEF Visit, Propagating
<1>2. \/ Value(trail, b) > 0 /\ at' = at + 1 /\ UNCHANGED <<db, watch, trail, confl>>
      \/ Value(trail, b) <= 0 /\ open # {} /\ MoveWatch(i, a, Min(open)) /\ UNCHANGED <<at, trail, confl>>
      \/ /\ Value(trail, b) = 0 /\ open = {}
         /\ trail' = Enqueue(trail, b, i, CurLevel(trail)) /\ at' = at + 1 /\ UNCHANGED <<db, watch, confl>>
      \/ Value(trail, b) < 0 /\ open = {} /\ confl' = i /\ UNCHANGED <<db, watch, trail, at>>
  BY Zenon DEF Visit, NextPlace
<1>3. open = Rest(i)
  BY DEF Rest
<1>4. open # {} => Min(open) \in open
  <2>1. open \in SUBSET (3..Len(db[i])) /\ 3 \in Int
    OBVIOUS
  <2>2. open \in SUBSET Int /\ \A x \in open : x >= 3 /\ x <= Len(db[i])
    OBVIOUS
  <2>3. IsFiniteSet(3..Len(db[i]))
    <3>1. i \in 1..Len(db) /\ db \in Seq(Clauses(n))
      BY <1>1, AtHandFits DEF AtHand, Parts
    <3>2. Len(db[i]) \in Nat
      BY <3>1 DEF Clauses
    <3>3. 3 \in Int /\ Len(db[i]) \in Int
      BY <3>2
    <3>4. QED
      BY <3>3, FS_Interval
  <2>4. QED
    BY <2>1, <2>2, <2>3, FS_Subset, MinIsLeast
<1> HIDE DEF b, open
<1>5. QED
  BY <1>1, <1>2, <1>3, <1>4 DEF Skips, Moves, Implies, Fails, b

\* The literals at hand: their types, and those that are not false.
LEMMA HandTyped ==
    ASSUME NEW n, NEW M, Parts(n, M), NEW i, NEW a, AtHand(n, i, a)
    PROVE  /\ db[i] \in Clauses(n) /\ Len(db[i]) > 1 /\ Len(db[i]) \in Nat
           /\ 3 - a \in 1..2 /\ 3 - a # a /\ \A k \in 1..Len(db[i]) : db[i][k] \in Literals(n)
           /\ a \in 1..Len(db[i]) /\ 3 - a \in 1..Len(db[i])
           /\ \A l \in Literals(n) : /\ Value(trail, l) \in {-1, 0, 1}
                                     /\ Value(trail, l) > 0 <=> \E q \in 1..Len(trail) : trail[q].lit = l
                                     /\ Value(trail, l) < 0 <=> \E q \in 1..Len(trail) : trail[q].lit = -l
                                     /\ Value(trail, l) >= 0 <=> ~\E q \in 1..Len(trail) : trail[q].lit = -l
<1>1. /\ n \in Nat /\ db \in Seq(Clauses(n)) /\ \A j \in 1..Len(db) : Len(db[j]) > 1
      /\ trail \in Seq(Entries(n, Len(db))) /\ Ordered(trail) /\ Len(db) \in Nat
  BY DEF Parts
<1>2. i \in 1..Len(db) /\ a \in 1..2
  BY DEF AtHand
<1>3. db[i] \in Clauses(n) /\ Len(db[i]) > 1
  BY <1>1, <1>2
<1>4. db[i] \in Seq(Literals(n)) /\ a \in 1..Len(db[i]) /\ 3 - a \in 1..Len(db[i]) /\ 3 - a # a /\ 3 - a \in 1..2
  BY <1>1, <1>2, <1>3, WatchIsLiteral
<1>5. Len(db[i]) \in Nat /\ \A k \in 1..Len(db[i]) : db[i][k] \in Literals(n)
  BY <1>4
<1>6. \A l \in Literals(n) : /\ Value(trail, l) \in {-1, 0, 1}
                             /\ Value(trail, l) > 0 <=> \E q \in 1..Len(trail) : trail[q].lit = l
                             /\ Value(trail, l) < 0 <=> \E q \in 1..Len(trail) : trail[q].lit = -l
                             /\ Value(trail, l) >= 0 <=> ~\E q \in 1..Len(trail) : trail[q].lit = -l
  BY <1>1, ValueTells
<1>7. QED
  BY <1>3, <1>4, <1>5, <1>6

\* What stays of the invariant when only the trail grows.
LEMMA SameClauses ==
    ASSUME IInv, UNCHANGED <<inst, db, watch, phase, hook, answer>>, TrailFits(trail', db, hook.next - 1)
    PROVE  /\ inst' \in Instances /\ answer' \in Answers
           /\ ClausesOK' /\ TrailOK' /\ WatchesOK' /\ PhaseOK'
<1>1. TrailOK'
  BY DEF TrailOK
<1>2. ClausesOK' = ClausesOK /\ WatchesOK' = WatchesOK /\ PhaseOK' = PhaseOK
  BY DEF ClausesOK, WatchesOK, PhaseOK
<1>3. QED
  BY <1>1, <1>2 DEF IInv

\* The clause at hand is left for the next one, and the trail may have grown.
LEMMA PassInv ==
    ASSUME IInv, NEW i, NEW a, AtHand(hook.next - 1, i, a), confl = NoConflict,
           at' = at + 1, UNCHANGED <<inst, db, watch, confl, phase, hook, answer, qhead>>,
           TrailFits(trail', db, hook.next - 1), Grown(trail', trail, CurLevel(trail)),
           \E q \in 1..Len(trail') : trail'[q].lit = db[i][3-a]
    PROVE  IInv'
<1> DEFINE n == hook.next - 1
           M == Len(Long(inst.cls))
           new == trail'
           list == Watched
<1>1. Parts(n, M) /\ AtHand(n, i, a)
  BY InvParts
<1>2. /\ TrailFits(new, db, n) /\ Grown(new, trail, CurLevel(trail)) /\ \E q \in 1..Len(new) : new[q].lit = db[i][3-a]
  OBVIOUS
<1> HIDE DEF n, M, new
<1>3. /\ n \in Nat /\ db \in Seq(Clauses(n)) /\ TrailFits(trail, db, n) /\ M \in Nat /\ M <= Len(db)
      /\ IsInjective(list) /\ DOMAIN list = 1..Len(list) /\ Len(list) \in Nat
      /\ GuardFits(db, trail, list, at, qhead, M) /\ QueueFits(trail, list, at, qhead)
      /\ \A j \in 1..Len(db) : Len(db[j]) > 1
  BY <1>1 DEF Parts
<1>4. at \in 1..Len(list) /\ list[at] = i /\ i \in 1..Len(db) /\ a \in 1..2 /\ db[i][a] = -trail[qhead].lit /\ qhead \in 1..Len(trail)
  BY <1>1 DEF AtHand, Literal
<1>5. Len(db[list[at]]) > 1
  BY <1>3, <1>4
<1>6. GuardFits(db, new, list, at + 1, qhead, M) /\ QueueFits(new, list, at + 1, qhead)
  <2> HIDE DEF list
  <2>1. /\ db[list[at]][a] = -trail[qhead].lit /\ list[at] \in 1..Len(db)
        /\ \E q \in 1..Len(new) : new[q].lit = db[list[at]][3-a]
    BY <1>2, <1>4
  <2>2. QED
    BY <1>2, <1>3, <1>4, <1>5, <2>1, AdvanceFits
<1>7. Watched' = list
  <2>1. trail'[qhead] = trail[qhead]
    BY <1>2, <1>4 DEF Grown, new
  <2>2. QED
    BY <2>1 DEF Watched, Literal
<1>8. Guarded' /\ QueueOK'
  BY <1>6, <1>7 DEF Guarded, QueueOK, M, new
<1>9. ConflictOK'
  BY DEF IInv, ConflictOK
<1>10. QED
  BY <1>8, <1>9, SameClauses DEF IInv

\* The other watch is true: nothing to do.
LEMMA SkipInv ==
    ASSUME IInv, NEW i, NEW a, AtHand(hook.next - 1, i, a), confl = NoConflict,
           UNCHANGED <<inst, qhead, phase, hook, answer>>, Skips(i, a)
    PROVE  IInv'
<1> DEFINE n == hook.next - 1
           M == Len(Long(inst.cls))
<1>1. Parts(n, M) /\ AtHand(n, i, a)
  BY InvParts
<1> HIDE DEF M
<1>2. Value(trail, db[i][3-a]) > 0 /\ at' = at + 1 /\ UNCHANGED <<db, watch, trail, confl>>
  BY DEF Skips
<1>3. \E q \in 1..Len(trail) : trail[q].lit = db[i][3-a]
  <2> HIDE DEF n
  <2> DEFINE b == db[i][3-a]
  <2>1. b \in Literals(n) /\ (Value(trail, b) > 0 <=> \E q \in 1..Len(trail) : trail[q].lit = b)
    BY <1>1, HandTyped
  <2>2. QED
    BY <1>2, <2>1
<1>4. TrailFits(trail, db, hook.next - 1) /\ Len(trail) \in Nat
  BY <1>1 DEF Parts
<1>5. Grown(trail, trail, CurLevel(trail))
  BY <1>4 DEF Grown
<1>6. TrailFits(trail', db, hook.next - 1) /\ Grown(trail', trail, CurLevel(trail)) /\ \E q \in 1..Len(trail') : trail'[q].lit = db[i][3-a]
  BY <1>2, <1>3, <1>4, <1>5
<1>7. QED
  BY <1>2, <1>6, PassInv

\* All other literals are false: the other watch is implied.
LEMMA ImplyInv ==
    ASSUME IInv, NEW i, NEW a, AtHand(hook.next - 1, i, a), confl = NoConflict,
           UNCHANGED <<inst, qhead, phase, hook, answer>>, Implies(i, a)
    PROVE  IInv'
<1> DEFINE n == hook.next - 1
           M == Len(Long(inst.cls))
           b == db[i][3-a]
           c == db[i]
           level == CurLevel(trail)
<1>1. Parts(n, M) /\ AtHand(n, i, a)
  BY InvParts
<1>2. /\ Value(trail, b) = 0 /\ Rest(i) = {} /\ trail' = Enqueue(trail, b, i, level)
      /\ at' = at + 1 /\ UNCHANGED <<db, watch, confl>>
  BY DEF Implies
<1> HIDE DEF M, n
<1>3. /\ c \in Clauses(n) /\ Len(c) \in Nat /\ 3 - a \in 1..2 /\ 3 - a # a /\ \A k \in 1..Len(c) : c[k] \in Literals(n)
      /\ 3 - a \in 1..Len(c) /\ b \in Literals(n)
      /\ \A l \in Literals(n) : /\ Value(trail, l) \in {-1, 0, 1}
                                /\ Value(trail, l) < 0 <=> \E q \in 1..Len(trail) : trail[q].lit = -l
                                /\ Value(trail, l) >= 0 <=> ~\E q \in 1..Len(trail) : trail[q].lit = -l
  BY <1>1, HandTyped
<1>4. /\ n \in Nat /\ Len(db) \in Nat /\ TrailFits(trail, db, n) /\ trail \in Seq(Entries(n, Len(db))) /\ Ordered(trail)
      /\ i \in 1..Len(db) /\ qhead \in 1..Len(trail) /\ c[a] = -trail[qhead].lit /\ a \in 1..2
      /\ trail[qhead].lit \in Int /\ Len(trail) \in Nat
  BY <1>1 DEF Parts, AtHand, Literal
<1>5. c \in Seq(Literals(n)) /\ DOMAIN c = 1..Len(c)
  BY <1>3 DEF Clauses
<1>6. \A m \in Range(c) \ {b} : \E j \in 1..Len(trail) : trail[j].lit = -m
  <2> SUFFICES ASSUME NEW k \in 1..Len(c), c[k] # b
               PROVE  \E j \in 1..Len(trail) : trail[j].lit = -c[k]
    BY <1>5 DEF Range
  <2>1. CASE k = a
    <3>1. -c[k] = trail[qhead].lit
      BY <1>4, <2>1
    <3>2. QED
      BY <1>4, <3>1
  <2>2. CASE k # a
    <3>1. k \in 3..Len(c)
      <4>1. k # 3 - a
        OBVIOUS
      <4>2. k # 1 /\ k # 2
        BY <1>4, <2>2, <4>1
      <4>3. QED
        BY <1>3, <4>2
    <3>2. ~ (Value(trail, c[k]) >= 0)
      BY <1>2, <3>1 DEF Rest
    <3>3. c[k] \in Literals(n)
      BY <1>3
    <3>4. QED
      BY <1>3, <3>2, <3>3
  <2>3. QED
    BY <2>1, <2>2
<1>7. b \in Range(c)
  BY <1>3, <1>5 DEF Range
<1>8. level \in Nat
  BY <1>4, CurLevelIsTop
<1> DEFINE new == Enqueue(trail, b, i, level)
<1>9. /\ TrailFits(new, db, n) /\ Len(new) = Len(trail) + 1
      /\ \A j \in 1..Len(trail) : new[j] = trail[j]
      /\ new[Len(trail) + 1] = [lit |-> b, why |-> i, level |-> level]
  <2> HIDE DEF b, level
  <2>1. i \in 0..Len(db) /\ level >= level
    BY <1>4, <1>8
  <2>2. b \in Range(db[i]) /\ \A m \in Range(db[i]) \ {b} : \E j \in 1..Len(trail) : trail[j].lit = -m
    BY <1>6, <1>7
  <2>3. level >= CurLevel(trail)
    BY <1>8 DEF level
  <2>4. Value(trail, b) = 0 /\ b \in Literals(n)
    BY <1>2, <1>3
  <2> HIDE DEF c
  <2>5. QED
    BY <1>4, <1>8, <2>1, <2>2, <2>3, <2>4, EnqueueFits
<1> HIDE DEF new
<1>10. Grown(new, trail, level)
  BY <1>4, <1>9 DEF Grown
<1>11. \E q \in 1..Len(new) : new[q].lit = b
  <2>1. Len(trail) + 1 \in 1..Len(new) /\ new[Len(trail) + 1].lit = b
    BY <1>4, <1>9
  <2>2. QED
    BY <2>1
<1>12. trail' = new
  BY <1>2 DEF new
<1>13. TrailFits(trail', db, hook.next - 1) /\ Grown(trail', trail, CurLevel(trail)) /\ \E q \in 1..Len(trail') : trail'[q].lit = db[i][3-a]
  BY <1>9, <1>10, <1>11, <1>12 DEF n, b, level
<1>14. QED
  BY <1>2, <1>13, PassInv

\* All literals are false.
LEMMA FailInv ==
    ASSUME IInv, NEW i, NEW a, AtHand(hook.next - 1, i, a), Busy,
           UNCHANGED <<inst, qhead, phase, hook, answer>>, Fails(i, a)
    PROVE  IInv'
<1> DEFINE n == hook.next - 1
           M == Len(Long(inst.cls))
           c == db[i]
<1>1. Parts(n, M) /\ AtHand(n, i, a)
  BY InvParts
<1>2. Value(trail, c[3-a]) < 0 /\ Rest(i) = {} /\ confl' = i /\ UNCHANGED <<db, watch, trail, at>>
  BY DEF Fails
<1>3. TrailFits(trail', db, n)
  BY <1>1, <1>2 DEF Parts
<1> HIDE DEF M
<1>4. ClausesOK' /\ TrailOK' /\ WatchesOK' /\ PhaseOK' /\ inst' \in Instances /\ answer' \in Answers
  BY <1>2, <1>3, SameClauses
<1> HIDE DEF n
<1>5. Watched' = Watched /\ Busy' = Busy
  BY <1>2 DEF Watched, Literal, Busy
<1>6. QueueOK' = QueueOK /\ Guarded' = Guarded
  BY <1>2, <1>5 DEF QueueOK, Guarded
<1>7. /\ c \in Clauses(n) /\ Len(c) \in Nat /\ 3 - a \in 1..2 /\ 3 - a # a /\ \A k \in 1..Len(c) : c[k] \in Literals(n)
      /\ \A l \in Literals(n) : /\ Value(trail, l) \in {-1, 0, 1}
                                /\ Value(trail, l) < 0 <=> \E q \in 1..Len(trail) : trail[q].lit = -l
                                /\ Value(trail, l) >= 0 <=> ~\E q \in 1..Len(trail) : trail[q].lit = -l
  BY <1>1, HandTyped
<1>8. /\ i \in 1..Len(db) /\ i = Watched[at] /\ qhead \in 1..Len(trail) /\ c[a] = -trail[qhead].lit /\ a \in 1..2
      /\ trail[qhead].lit \in Int /\ DOMAIN trail = 1..Len(trail)
  BY <1>1 DEF Parts, AtHand, Literal
<1>9. c \in Seq(Literals(n)) /\ DOMAIN c = 1..Len(c)
  BY <1>7 DEF Clauses
<1>10. \A k \in 1..Len(c) : \E j \in 1..Len(trail) : trail[j].lit = -c[k]
  <2> SUFFICES ASSUME NEW k \in 1..Len(c)
               PROVE  \E j \in 1..Len(trail) : trail[j].lit = -c[k]
    OBVIOUS
  <2>1. CASE k = a
    <3>1. -c[k] = trail[qhead].lit
      BY <1>8, <2>1
    <3>2. QED
      BY <1>8, <3>1
  <2>2. CASE k # a
    <3>1. ~ (Value(trail, c[k]) >= 0) \/ Value(trail, c[k]) < 0
      <4>1. CASE k = 3 - a
        BY <1>2, <4>1
      <4>2. CASE k # 3 - a
        <5>1. k # 1 /\ k # 2
          BY <1>8, <2>2, <4>2
        <5>2. k \in 3..Len(c)
          BY <1>7, <5>1
        <5>3. QED
          BY <1>2, <5>2 DEF Rest
      <4>3. QED
        BY <4>1, <4>2
    <3>2. c[k] \in Literals(n)
      BY <1>7
    <3>3. QED
      BY <1>7, <3>1, <3>2
  <2>3. QED
    BY <2>1, <2>2
<1>11. Neg(Range(c)) \subseteq Lits(trail)
  <2>1. ASSUME NEW x \in Neg(Range(c)) PROVE x \in Lits(trail)
    <3>1. PICK k \in 1..Len(c) : x = -c[k]
      BY <1>9 DEF Neg, Range
    <3>2. PICK j \in 1..Len(trail) : trail[j].lit = -c[k]
      BY <1>10
    <3>3. QED
      BY <1>8, <3>1, <3>2 DEF Lits
  <2>2. QED
    BY <2>1
<1>12. ConflictOK'
  <2>1. confl' \in 0..Len(db') /\ Watched'[at'] = confl' /\ Neg(Range(db'[confl'])) \subseteq Lits(trail')
    BY SMTT(30), <1>1, <1>2, <1>5, <1>8, <1>11 DEF Parts
  <2>2. QED
    BY <1>5, <2>1 DEF ConflictOK
<1>13. QED
  BY <1>4, <1>6, <1>12 DEF IInv

\* The watch moves to a literal that is not false.
LEMMA MoveInv ==
    ASSUME IInv, NEW i, NEW a, AtHand(hook.next - 1, i, a), confl = NoConflict,
           UNCHANGED <<inst, qhead, phase, hook, answer>>, NEW j, Moves(i, a, j)
    PROVE  IInv'
<1> DEFINE n == hook.next - 1
           M == Len(Long(inst.cls))
           c == db[i]
           d == Swap(c, a, j)
           list == Watched
<1>1. Parts(n, M) /\ AtHand(n, i, a)
  BY InvParts
<1>2. /\ j \in 3..Len(c) /\ Value(trail, c[j]) >= 0
      /\ db' = [db EXCEPT ![i] = d]
      /\ watch' = Watch([watch EXCEPT ![Literal] = Without(@, at)], -d[a], i)
      /\ UNCHANGED <<at, trail, confl>>
  BY DEF Moves, MoveWatch, Rest
<1>3. /\ n \in Nat /\ M \in Nat /\ M <= Len(db) /\ db \in Seq(Clauses(n)) /\ Len(db) \in Nat /\ DOMAIN db = 1..Len(db)
      /\ TrailFits(trail, db, n)
      /\ WatchesFit(watch, db) /\ \A k \in 1..Len(db) : Len(db[k]) > 1
      /\ QueueFits(trail, list, at, qhead) /\ GuardFits(db, trail, list, at, qhead, M)
      /\ list \in Seq(1..Len(db)) /\ IsInjective(list)
  BY <1>1 DEF Parts
<1>4. /\ qhead \in 1..Len(trail) /\ at \in 1..Len(list)
      /\ i \in 1..Len(db) /\ i = list[at] /\ a \in 1..2 /\ c[a] = -Literal
      /\ Literal \in DOMAIN watch /\ list = watch[Literal] /\ Literal \in Int
      /\ Literal = trail[qhead].lit /\ i = watch[Literal][at] /\ at \in 1..Len(watch[Literal])
  BY <1>1 DEF AtHand, Literal
<1>5. /\ c \in Clauses(n) /\ Len(c) \in Nat /\ a \in 1..Len(c) /\ \A k \in 1..Len(c) : c[k] \in Literals(n)
      /\ \A l \in Literals(n) : Value(trail, l) >= 0 <=> ~\E q \in 1..Len(trail) : trail[q].lit = -l
  BY <1>1, HandTyped
<1>6. d \in Clauses(n) /\ Range(d) = Range(c) /\ d[a] = c[j]
  <2>1. n \in Nat /\ c \in Clauses(n) /\ a \in 1..2 /\ j \in 3..Len(c)
    BY <1>2, <1>3, <1>4, <1>5
  <2> HIDE DEF n, c, M, list
  <2>2. QED
    BY <2>1, SwapShape DEF d
<1>7. c[j] # c[a] /\ c[j] \in Literals(n) /\ -c[j] # Literal /\ -c[j] \in Int
  <2>1. j \in 1..Len(c) /\ j # a
    <3>1. j \in 3..Len(c) /\ Len(c) \in Nat /\ a \in 1..2
      BY <1>2, <1>4, <1>5
    <3> HIDE DEF c
    <3>2. QED
      BY <3>1
  <2>2. c[j] # c[a] /\ c[j] \in Literals(n)
    BY <1>5, <2>1 DEF Clauses
  <2> DEFINE x == c[j]
             y == Literal
             z == c[a]
  <2>3. x \in Int /\ y \in Int /\ x # z /\ z = -y
    BY <1>4, <2>2 DEF Literals
  <2> HIDE DEF x, y, z
  <2>4. -x # y /\ -x \in Int
    BY <2>3
  <2>5. QED
    BY <2>2, <2>4 DEF x, y
<1> HIDE DEF d
<1>8. WatchesFit(watch', db')
  <2> DEFINE l == Literal
             w == watch
  <2>1. /\ w[l][at] = i /\ l \in DOMAIN w /\ at \in 1..Len(w[l]) /\ WatchesFit(w, db)
        /\ db[w[l][at]][a] = -l /\ j \in 3..Len(db[w[l][at]])
    BY <1>2, <1>3, <1>4
  <2> HIDE DEF l, w, c
  <2>2. WatchesFit(Watch([w EXCEPT ![l] = Without(@, at)], -db[w[l][at]][j], w[l][at]),
                   [db EXCEPT ![w[l][at]] = Swap(db[w[l][at]], a, j)])
    BY <1>3, <1>4, <2>1, MoveFits
  <2>3. /\ watch' = Watch([w EXCEPT ![l] = Without(@, at)], -db[w[l][at]][j], w[l][at])
        /\ db' = [db EXCEPT ![w[l][at]] = Swap(db[w[l][at]], a, j)]
    <3>1. watch' = Watch([w EXCEPT ![l] = Without(@, at)], -d[a], i) /\ d[a] = db[i][j] /\ i = w[l][at]
      BY <1>2, <1>6, <2>1 DEF w, l, c
    <3>2. db' = [db EXCEPT ![i] = Swap(db[i], a, j)]
      BY <1>2 DEF c, d
    <3>3. QED
      BY <3>1, <3>2
  <2>4. QED
    BY <2>2, <2>3
<1>9. Watched' = Without(list, at)
  <2>1. Watched' = WatchList(watch', Literal)
    BY <1>2 DEF Watched, Literal
  <2> DEFINE l == Literal
             w == [watch EXCEPT ![l] = Without(@, at)]
             z == -c[j]
  <2>2. z # l /\ l \in DOMAIN w /\ w[l] = Without(watch[l], at) /\ watch' = Watch(w, z, i)
    BY <1>2, <1>4, <1>6, <1>7
  <2> HIDE DEF l, w, z
  <2>3. WatchList(watch', l) = w[l]
    BY <2>2 DEF WatchList, Watch
  <2>4. QED
    BY <1>4, <2>1, <2>2, <2>3 DEF l
<1>10. GuardFits(db', trail, Without(list, at), at, qhead, M) /\ QueueFits(trail, Without(list, at), at, qhead)
  <2>1. /\ db[list[at]][a] = -trail[qhead].lit /\ j \in 3..Len(db[list[at]]) /\ Value(trail, db[list[at]][j]) >= 0
        /\ db' = [db EXCEPT ![list[at]] = Swap(db[list[at]], a, j)]
    BY <1>2, <1>4 DEF c, d
  <2> HIDE DEF c, list, n, M
  <2>2. /\ GuardFits([db EXCEPT ![list[at]] = Swap(db[list[at]], a, j)], trail, Without(list, at), at, qhead, M)
        /\ QueueFits(trail, Without(list, at), at, qhead)
    BY <1>3, <1>4, <2>1, MoveGuardFits
  <2>3. QED
    BY <2>1, <2>2
<1>11. db' \in Seq(Clauses(n)) /\ Len(db') = Len(db) /\ \A k \in 1..Len(db) : Range(db'[k]) = Range(db[k])
  <2> DEFINE K == Clauses(n)
  <2>0. db \in [1..Len(db) -> K] /\ d \in K /\ db' = [db EXCEPT ![i] = d] /\ i \in 1..Len(db)
    <3>1. i \in 1..Len(db) /\ db' = [db EXCEPT ![i] = d]
      BY <1>2, <1>4
    <3>2. d \in K
      BY <1>6
    <3>3. db \in [1..Len(db) -> K]
      <4> HIDE DEF K
      <4>1. db \in Seq(K)
        BY <1>3 DEF K
      <4>2. QED
        BY <4>1
    <3>4. QED
      BY <3>1, <3>2, <3>3
  <2>1. db' \in [1..Len(db) -> K]
    <3> HIDE DEF K, d, c, M, n, list
    <3>1. QED
      BY <2>0
  <2>2. db' \in Seq(Clauses(n)) /\ Len(db') = Len(db)
    BY SMTT(30), <1>3, <2>1, IsASeq
  <2>3. \A k \in 1..Len(db) : Range(db'[k]) = Range(db[k])
    BY <1>2, <1>3, <1>6
  <2>4. QED
    BY <2>2, <2>3
<1>12. TrailFits(trail, db', n)
  <2>1. n <= n /\ Len(db) <= Len(db')
    BY <1>3, <1>11
  <2> HIDE DEF n
  <2>2. QED
    BY <1>3, <1>11, <2>1, MoreClausesFit
<1>13. ClausesOK'
  <2>1. hook' = hook /\ inst' = inst
    OBVIOUS
  <2>2. /\ HookTyped(hook) /\ inst.n < hook.next
        /\ \A k \in 1..Len(Long(inst.cls)) : Range(db[k]) = Long(inst.cls)[k]
    BY DEF IInv, ClausesOK
  <2>3. \A k \in 1..Len(Long(inst.cls)) : Range(db'[k]) = Long(inst.cls)[k]
    <3>1. \A k \in 1..M : k \in 1..Len(db) /\ Range(db[k]) = Long(inst.cls)[k]
      BY <1>3, <2>2
    <3>2. \A k \in 1..M : Range(db'[k]) = Long(inst.cls)[k]
      <4> HIDE DEF M
      <4>1. QED
        BY <1>11, <3>1
    <3>3. QED
      BY <3>2
  <2>4. QED
    BY <1>3, <1>11, <2>1, <2>2, <2>3 DEF ClausesOK
<1>14. TrailOK' /\ WatchesOK' /\ QueueOK' /\ Guarded'
  BY <1>2, <1>8, <1>9, <1>10, <1>12 DEF TrailOK, WatchesOK, QueueOK, Guarded
<1>15. ConflictOK' /\ PhaseOK'
  <2>1. confl' = NoConflict /\ Len(db') = Len(db) /\ confl \in 0..Len(db) /\ PhaseOK
    BY <1>2, <1>11 DEF IInv, ConflictOK
  <2>2. QED
    BY <2>1 DEF ConflictOK, PhaseOK
<1>16. QED
  BY <1>13, <1>14, <1>15 DEF IInv

\* So a visit keeps the invariant.
LEMMA VisitInv ==
    ASSUME IInv, Visit
    PROVE  IInv'
<1> DEFINE n == hook.next - 1
           M == Len(Long(inst.cls))
           i == Watched[at]
           a == IF db[i][1] = -Literal THEN 1 ELSE 2
<1>1. Parts(n, M)
  BY InvParts
<1> HIDE DEF M
<1>2. /\ Busy /\ confl = NoConflict /\ UNCHANGED <<inst, qhead, phase, hook, answer>>
      /\ Skips(i, a) \/ (\E j : Moves(i, a, j)) \/ Implies(i, a) \/ Fails(i, a)
  BY <1>1, VisitHandles
<1>3. AtHand(n, i, a)
  BY <1>1, <1>2, AtHandFits
<1> HIDE DEF i, a
<1>4. CASE Skips(i, a)
  BY <1>2, <1>3, <1>4, SkipInv
<1>5. ASSUME NEW j, Moves(i, a, j) PROVE IInv'
  BY <1>2, <1>3, <1>5, MoveInv
<1>6. CASE Implies(i, a)
  BY <1>2, <1>3, <1>6, ImplyInv
<1>7. CASE Fails(i, a)
  BY <1>2, <1>3, <1>7, FailInv
<1>8. QED
  BY <1>2, <1>4, <1>5, <1>6, <1>7

\* A decision.
LEMMA DecideInv ==
    ASSUME IInv, Decide
    PROVE  IInv'
<1> DEFINE n == hook.next - 1
           M == Len(Long(inst.cls))
           level == CurLevel(trail) + 1
<1>1. Parts(n, M) /\ PhaseOK
  BY InvParts DEF IInv
<1>2. PICK v \in Open : trail' = Enqueue(trail, v * phase[v], Decision, level)
  BY DEF Decide
<1>3. ~Busy /\ qhead = Len(trail) /\ confl = NoConflict /\ UNCHANGED <<inst, db, watch, qhead, at, confl, phase, hook, answer>>
  BY DEF Decide, Propagating, Drained
<1> HIDE DEF n, M
<1>4. /\ n \in Nat /\ inst.n \in Nat /\ inst.n <= n /\ Len(db) \in Nat /\ TrailFits(trail, db, n)
      /\ trail \in Seq(Entries(n, Len(db))) /\ Ordered(trail) /\ Len(trail) \in Nat
      /\ QueueFits(trail, Watched, at, qhead) /\ GuardFits(db, trail, Watched, at, qhead, M)
      /\ Len(Watched) \in Nat
  BY <1>1 DEF Parts
<1> DEFINE l == v * phase[v]
<1>5. v \in 1..inst.n /\ Value(trail, v) = 0 /\ phase[v] \in {-1, 1}
  BY <1>1 DEF Open, PhaseOK
<1>6. l \in Literals(n) /\ v \in Literals(n) /\ Var(l) = Var(v) /\ (l = v \/ l = -v)
  <2>1. v \in Int /\ v > 0 /\ v <= n /\ v \in Nat
    BY <1>4, <1>5
  <2>2. v \in Literals(n) /\ -v \in Literals(n)
    BY <1>4, <2>1 DEF Literals
  <2>3. l = v \/ l = -v
    <3>1. CASE phase[v] = 1
      BY <2>1, <3>1
    <3>2. CASE phase[v] = -1
      BY <2>1, <3>2
    <3>3. QED
      BY <1>5, <3>1, <3>2
  <2> HIDE DEF l
  <2>4. Var(l) = Var(v)
    BY <2>1, <2>3 DEF Var
  <2>5. QED
    BY <2>2, <2>3, <2>4
<1> HIDE DEF l
<1>7. Value(trail, l) = 0
  <2>1. ~\E q \in 1..Len(trail) : Var(trail[q].lit) = Var(v)
    BY <1>4, <1>5, <1>6, ValueTells
  <2>2. QED
    BY <1>4, <1>6, <2>1, ValueTells
<1>8. CurLevel(trail) \in Nat /\ level \in Nat /\ level >= CurLevel(trail)
  <2>1. CurLevel(trail) \in Nat
    BY <1>4, CurLevelIsTop
  <2>2. QED
    BY <2>1
<1> DEFINE new == Enqueue(trail, l, Decision, level)
<1>9. /\ TrailFits(new, db, n) /\ Len(new) = Len(trail) + 1
      /\ \A k \in 1..Len(trail) : new[k] = trail[k]
      /\ new[Len(trail) + 1] = [lit |-> l, why |-> Decision, level |-> level]
      /\ CurLevel(new) = level
  <2> HIDE DEF level
  <2>1. Decision \in 0..Len(db) /\ (Decision # Decision => FALSE)
    BY <1>4 DEF Decision
  <2>2. QED
    BY <1>4, <1>6, <1>7, <1>8, <2>1, EnqueueFits
<1>10. trail' = new
  BY <1>2 DEF l
<1> HIDE DEF new, level
<1>11. GuardFits(db, new, Watched, at, qhead, M) /\ QueueFits(new, Watched, at, qhead)
  <2>1. new[Len(trail) + 1].level = CurLevel(new)
    BY <1>9
  <2>2. ~(at > 0 /\ at <= Len(Watched))
    BY <1>3 DEF Busy
  <2> DEFINE list == Watched
  <2>3. Len(list) \in Nat /\ ~(at > 0 /\ at <= Len(list)) /\ QueueFits(trail, list, at, qhead) /\ GuardFits(db, trail, list, at, qhead, M)
    BY <1>4, <2>2
  <2> HIDE DEF list
  <2>0. /\ n \in Nat /\ Len(db) \in Nat /\ TrailFits(trail, db, n) /\ qhead = Len(trail)
        /\ Len(new) = Len(trail) + 1 /\ \A k \in 1..Len(trail) : new[k] = trail[k]
    BY <1>3, <1>4, <1>9
  <2>4. GuardFits(db, new, list, at, qhead, M) /\ QueueFits(new, list, at, qhead)
    BY <2>0, <2>1, <2>3, DecideFits
  <2>5. QED
    BY <2>4 DEF list
<1>12. Watched' = Watched \/ qhead = 0
  <2>1. CASE qhead # 0
    <3>1. qhead \in 1..Len(trail)
      BY <1>3, <1>4, <2>1
    <3>2. trail'[qhead] = trail[qhead]
      BY <1>9, <1>10, <3>1
    <3>3. QED
      BY <1>3, <3>2 DEF Watched, Literal
  <2>2. QED
    BY <2>1
<1>13. GuardFits(db, new, Watched', at, qhead, M) /\ QueueFits(new, Watched', at, qhead)
  <2>1. CASE Watched' = Watched
    BY <1>11, <2>1
  <2>2. CASE qhead = 0
    <3>1. at = 0
      BY <1>4, <2>2 DEF QueueFits
    <3>2. \A list, x, p : Waiting(list, at, qhead, x, p) <=> p > qhead
      BY <3>1 DEF Waiting
    <3>3. GuardFits(db, new, Watched', at, qhead, M)
      BY <1>11, <3>2 DEF GuardFits
    <3>4. QueueFits(new, Watched', at, qhead)
      BY <1>11, <3>1 DEF QueueFits
    <3>5. QED
      BY <3>3, <3>4
  <2>3. QED
    BY <1>12, <2>1, <2>2
<1>14. Guarded' /\ QueueOK'
  BY <1>3, <1>10, <1>13 DEF Guarded, QueueOK, M
<1>15. ClausesOK' /\ TrailOK' /\ WatchesOK' /\ PhaseOK' /\ inst' \in Instances /\ answer' \in Answers
  <2>1. TrailFits(trail', db, hook.next - 1)
    BY <1>9, <1>10 DEF n
  <2>2. QED
    BY <1>3, <2>1, SameClauses
<1>16. ConflictOK'
  BY <1>3 DEF IInv, ConflictOK
<1>17. QED
  BY <1>14, <1>15, <1>16 DEF IInv

\* A conflict is one to analyze, unless there is no decision.
LEMMA ConflictFalsified ==
    ASSUME IInv, confl # NoConflict, CurLevel(trail) > 0
    PROVE  Falsified(hook.next - 1) /\ at \in 1..Len(Watched)
<1>1. Parts(hook.next - 1, Len(Long(inst.cls))) /\ ConflictOK
  BY InvParts DEF IInv
<1>2. confl \in 0..Len(db) /\ Busy /\ Neg(Range(db[confl])) \subseteq Lits(trail)
  BY <1>1 DEF ConflictOK
<1>3. /\ hook.next - 1 \in Nat /\ db \in Seq(Clauses(hook.next - 1)) /\ TrailFits(trail, db, hook.next - 1) /\ Len(db) \in Nat
      /\ at \in Nat /\ Len(Watched) \in Nat
  BY <1>1 DEF Parts
<1>4. confl \in 1..Len(db) /\ at \in 1..Len(Watched)
  BY <1>2, <1>3 DEF NoConflict, Busy
<1>5. QED
  BY <1>2, <1>3, <1>4 DEF Falsified

\* What Learn does with a result of the hook.
Learns(r, level) ==
    /\ r \in Hooked(Cone, Analyze.clause) /\ level = Analyze.level
    /\ hook' = r.hook
    /\ db' = Longer(db, r.learn)
    /\ watch' = AddToDb(watch, db', Len(db) + 1..Len(db'))
    /\ trail' \in {Resettled(db, r.learn, trail, level), Backtrack(Resettled(db, r.learn, trail, level), 0)}
    /\ qhead' = Min({qhead, Len(Backtrack(trail, level)), Len(trail')})
    /\ \E a, b, c, d : phase' = SavedPhase(SavedPhase(phase, a, b), c, d)
    /\ confl' = NoConflict /\ at' = 0 /\ UNCHANGED <<inst, answer>>

\* A conflict that is learned from, without the names of the action.
LEMMA LearnLearns ==
    ASSUME Learn
    PROVE  /\ \E r : Learns(r, Analyze.level)
           /\ Analyzed /\ confl # NoConflict /\ CurLevel(trail) > 0
<1>1. PICK r \in Hooked(Cone, Analyze.clause) :
         LET level == Analyze.level
             kept == Backtrack(trail, level)
             units == Select(r.learn, {i \in DOMAIN r.learn : Len(r.learn[i]) = 1})
             clauses == db \o Select(r.learn, {i \in DOMAIN r.learn : Len(r.learn[i]) > 1})
             added == Len(db) + 1 .. Len(clauses)
             asserted == EnqueueUnits(kept, [i \in DOMAIN units |-> units[i][1]], level)
             settled == Settle(asserted, clauses, added, level)
             due == since + 1 >= Luby(restarts) * RestartUnit
             tr == IF due THEN Backtrack(settled, 0) ELSE settled
         IN  /\ hook' = r.hook
             /\ db' = clauses /\ watch' = AddToDb(watch, clauses, added)
             /\ trail' = tr
             /\ qhead' = Min({qhead, Len(kept), Len(tr)})
             /\ phase' = SavedPhase(SavedPhase(phase, trail, kept), settled, tr)
  BY Zenon DEF Learn
<1> DEFINE level == Analyze.level
           kept == Backtrack(trail, level)
           units == Select(r.learn, {i \in DOMAIN r.learn : Len(r.learn[i]) = 1})
           clauses == db \o Select(r.learn, {i \in DOMAIN r.learn : Len(r.learn[i]) > 1})
           added == Len(db) + 1 .. Len(clauses)
           asserted == EnqueueUnits(kept, [i \in DOMAIN units |-> units[i][1]], level)
           settled == Settle(asserted, clauses, added, level)
           due == since + 1 >= Luby(restarts) * RestartUnit
           tr == IF due THEN Backtrack(settled, 0) ELSE settled
<1>2. /\ hook' = r.hook
      /\ db' = clauses /\ watch' = AddToDb(watch, clauses, added)
      /\ trail' = tr
      /\ qhead' = Min({qhead, Len(kept), Len(tr)})
      /\ phase' = SavedPhase(SavedPhase(phase, trail, kept), settled, tr)
  BY <1>1, Zenon
<1>3. clauses = Longer(db, r.learn) /\ settled = Resettled(db, r.learn, trail, level)
  BY DEF Longer, Resettled, UnitsOf
<1> HIDE DEF level, settled, clauses, due, kept
<1>4. tr \in {settled, Backtrack(settled, 0)}
  OBVIOUS
<1> HIDE DEF tr
<1>5. confl' = NoConflict /\ at' = 0 /\ UNCHANGED <<inst, answer>> /\ Analyzed
  BY DEF Learn
<1>6. \E a, b, c, d : phase' = SavedPhase(SavedPhase(phase, a, b), c, d)
  BY <1>2
<1>7. Learns(r, level)
  BY <1>1, <1>2, <1>3, <1>4, <1>5, <1>6 DEF Learns, level, kept
<1>8. QED
  BY <1>5, <1>7 DEF level, Analyzed, Conflict

\* What is learned fits the clauses and the trail there are.
Relearns(r, level, n, m, k) ==
    /\ m = r.hook.next - 1 /\ m \in Nat /\ n <= m
    /\ HookTyped(r.hook) /\ hook.next <= r.hook.next
    /\ r.learn \in Seq(Clauses(m))
    /\ db' \in Seq(Clauses(m)) /\ Len(db) <= Len(db') /\ Len(db') \in Nat
    /\ \A i \in 1..Len(db) : db'[i] = db[i]
    /\ \A i \in Len(db) + 1..Len(db') : db'[i] \in Range(r.learn)
    /\ WatchesFit(watch', db')
    /\ TrailFits(trail', db', m)
    /\ level \in Nat /\ level < CurLevel(trail) /\ k \in 0..Len(trail)
    /\ qhead' = Min({qhead, k, Len(trail')})
    /\ Relearned(trail', trail, k, level, r.learn) /\ NewReasons(trail', k, Len(db))

\* There the database and the trail fit the variables, the new ones included.
LEMMA LearnsFits ==
    ASSUME IInv, confl # NoConflict, CurLevel(trail) > 0, NEW r, NEW level, Learns(r, level)
    PROVE  \E k : Relearns(r, level, hook.next - 1, r.hook.next - 1, k)
<1> DEFINE n == hook.next - 1
           M == Len(Long(inst.cls))
           m == r.hook.next - 1
<1>1. Parts(n, M) /\ Falsified(n) /\ HookTyped(hook) /\ inst \in Instances
  BY InvParts, ConflictFalsified DEF IInv, ClausesOK
<1>2. /\ r \in Hooked(Cone, Analyze.clause) /\ level = Analyze.level /\ db' = Longer(db, r.learn)
      /\ watch' = AddToDb(watch, db', Len(db) + 1..Len(db'))
      /\ trail' \in {Resettled(db, r.learn, trail, level), Backtrack(Resettled(db, r.learn, trail, level), 0)}
      /\ qhead' = Min({qhead, Len(Backtrack(trail, level)), Len(trail')})
  BY DEF Learns
<1>3. Taught(r, hook)
  <2>1. inst.hook \in Hooks
    BY <1>1, InstanceTyped
  <2>2. QED
    BY <1>1, <1>2, <2>1, HookedTaught
<1>4. HookTyped(r.hook) /\ hook.next <= r.hook.next /\ r.learn \in Seq(Clauses(m))
  BY <1>3 DEF Taught
<1>5. n \in Nat /\ m \in Nat /\ n <= m
  <2>1. hook.next \in Nat \ {0} /\ r.hook.next \in Nat \ {0}
    BY <1>1, <1>4 DEF HookTyped
  <2>2. QED
    BY <1>4, <2>1
<1>6. level \in Nat /\ level < CurLevel(trail)
  BY <1>1, <1>2, AnalyzeFits
<1>7. db \in Seq(Clauses(n)) /\ TrailFits(trail, db, n) /\ WatchesFit(watch, db)
  BY <1>1 DEF Parts
<1> HIDE DEF n, M, m
<1>8. db \in Seq(Clauses(m))
  BY <1>5, <1>7, ClausesGrow
<1> DEFINE learn == r.learn
           new == Resettled(db, learn, trail, level)
           more == Longer(db, learn)
<1>9. learn \in Seq(Clauses(m))
  BY <1>4
<1> HIDE DEF learn
<1>10. /\ more \in Seq(Clauses(m))
       /\ Len(db) <= Len(more) /\ Len(db) \in Nat /\ Len(more) \in Nat
       /\ \A i \in 1..Len(db) : more[i] = db[i]
       /\ \A i \in Len(db) + 1..Len(more) : more[i] \in Range(learn)
       /\ WatchesFit(AddToDb(watch, more, Len(db) + 1..Len(more)), more)
  BY <1>5, <1>7, <1>8, <1>9, LongerFits
<1>11. /\ TrailFits(new, more, m)
       /\ \E k \in 0..Len(trail) : BacksTo(trail, level, k) /\ k <= Len(new)
                                    /\ Len(Backtrack(trail, level)) = k
                                    /\ Relearned(new, trail, k, level, learn) /\ NewReasons(new, k, Len(db))
  BY <1>5, <1>6, <1>7, <1>9, ResettledFits
<1>12. PICK k \in 0..Len(trail) : /\ Len(Backtrack(trail, level)) = k /\ Relearned(new, trail, k, level, learn)
                                  /\ NewReasons(new, k, Len(db))
  BY <1>11
<1>13. db' = more /\ trail' \in {new, Backtrack(new, 0)}
  BY <1>2 DEF learn
<1> HIDE DEF new, more
<1>14. TrailFits(trail', more, m) /\ Relearned(trail', trail, k, level, learn) /\ NewReasons(trail', k, Len(db))
  <2>1. CASE trail' = new
    BY <1>11, <1>12, <2>1
  <2>2. CASE trail' = Backtrack(new, 0)
    <3>1. Len(trail) \in Nat
      BY <1>1 DEF Parts
    <3>2. /\ TrailFits(Backtrack(new, 0), more, m) /\ Relearned(Backtrack(new, 0), trail, k, level, learn)
          /\ NewReasons(Backtrack(new, 0), k, Len(db))
      BY <1>5, <1>6, <1>10, <1>11, <1>12, <3>1, RestartFits
    <3>3. QED
      BY <2>2, <3>2
  <2>3. QED
    BY <1>13, <2>1, <2>2
<1>15. Relearns(r, level, n, m, k)
  <2>1. r.learn = learn /\ m = r.hook.next - 1
    BY DEF learn, m
  <2>2. k \in 0..Len(trail) /\ qhead' = Min({qhead, k, Len(trail')})
    BY <1>2, <1>12
  <2>3. WatchesFit(watch', db')
    BY <1>2, <1>10, <1>13
  <2>4. QED
    BY <1>4, <1>5, <1>6, <1>9, <1>10, <1>13, <1>14, <2>1, <2>2, <2>3 DEF Relearns
<1>16. QED
  BY <1>15 DEF n, m

\* Phases are signs.
LEMMA PhaseKept ==
    ASSUME NEW V, NEW ph \in [V -> {-1, 1}], NEW a, NEW b
    PROVE  SavedPhase(ph, a, b) \in [V -> {-1, 1}]
  BY DEF SavedPhase

\* So learning, with the jump back and the restart, keeps the invariant.
LEMMA LearnInv ==
    ASSUME IInv, Learn
    PROVE  IInv'
<1> DEFINE n == hook.next - 1
           M == Len(Long(inst.cls))
<1>1. confl # NoConflict /\ CurLevel(trail) > 0
  BY LearnLearns
<1>2. PICK r : Learns(r, Analyze.level)
  BY LearnLearns
<1> DEFINE level == Analyze.level
           m == r.hook.next - 1
<1>3. PICK k : Relearns(r, level, n, m, k)
  BY <1>1, <1>2, LearnsFits
<1>4. Parts(n, M) /\ at \in 1..Len(Watched)
  BY <1>1, InvParts, ConflictFalsified
<1>5. hook' = r.hook /\ confl' = NoConflict /\ at' = 0 /\ inst' = inst /\ answer' = answer
  BY <1>2 DEF Learns
<1> HIDE DEF level, n, m, M
<1>6. PhaseOK'
  <2>1. PICK a, b, c, d : phase' = SavedPhase(SavedPhase(phase, a, b), c, d)
    BY <1>2 DEF Learns
  <2>2. phase \in [1..inst.n -> {-1, 1}]
    BY DEF IInv, PhaseOK
  <2>3. SavedPhase(phase, a, b) \in [1..inst.n -> {-1, 1}]
    BY <2>2, PhaseKept
  <2>4. phase' \in [1..inst.n -> {-1, 1}]
    BY <2>1, <2>3, PhaseKept
  <2>5. QED
    BY <1>5, <2>4 DEF PhaseOK
<1>7. /\ m = r.hook.next - 1 /\ m \in Nat /\ HookTyped(r.hook) /\ hook.next <= r.hook.next
      /\ db' \in Seq(Clauses(m)) /\ Len(db) <= Len(db') /\ Len(db') \in Nat
      /\ \A i \in 1..Len(db) : db'[i] = db[i]
      /\ WatchesFit(watch', db') /\ TrailFits(trail', db', m)
      /\ level \in Nat /\ level < CurLevel(trail) /\ k \in 0..Len(trail) /\ qhead' = Min({qhead, k, Len(trail')})
      /\ Relearned(trail', trail, k, level, r.learn)
  BY <1>3 DEF Relearns
<1>8. /\ n \in Nat /\ M \in Nat /\ M <= Len(db) /\ Len(db) \in Nat /\ Len(trail) \in Nat
      /\ trail \in Seq(Entries(n, Len(db))) /\ Ordered(trail) /\ TrailFits(trail, db, n)
      /\ GuardFits(db, trail, Watched, at, qhead, M) /\ QueueFits(trail, Watched, at, qhead)
  BY <1>4 DEF Parts
<1>9. ClausesOK'
  <2>1. /\ HookTyped(hook) /\ inst.n < hook.next /\ M <= Len(db)
        /\ \A i \in 1..M : Range(db[i]) = Long(inst.cls)[i]
    BY DEF IInv, ClausesOK, M
  <2>2. inst.n \in Nat /\ hook.next \in Nat /\ r.hook.next \in Nat
    BY <1>4, <1>7, <2>1 DEF Parts, HookTyped
  <2>3. inst.n < r.hook.next /\ M <= Len(db')
    <3>1. inst.n < r.hook.next
      BY <1>7, <2>1, <2>2
    <3>2. M <= Len(db')
      BY <1>7, <1>8
    <3>3. QED
      BY <3>1, <3>2
  <2>4. \A i \in 1..M : Range(db'[i]) = Long(inst.cls)[i]
    <3>1. \A i \in 1..M : i \in 1..Len(db)
      BY <1>8
    <3>2. QED
      BY <1>7, <2>1, <3>1
  <2>5. QED
    BY <1>5, <1>7, <2>3, <2>4 DEF ClausesOK, M
<1>10. TrailOK' /\ WatchesOK'
  BY <1>5, <1>7 DEF TrailOK, WatchesOK
<1>11. GuardFits(db', trail', Watched', 0, qhead', M) /\ QueueFits(trail', Watched', 0, qhead')
  <2>1. CurLevel(trail) \in Nat /\ \A i \in 1..Len(trail) : trail[i].level \in Nat
    BY <1>8, CurLevelIsTop, EntryTyped
  <2>2. Len(trail') \in Nat
    <3>1. trail' \in Seq(Entries(m, Len(db')))
      BY <1>7 DEF TrailFits
    <3>2. QED
      BY <3>1
  <2> DEFINE new == trail'
             more == db'
             any == Watched'
             list == Watched
             learn == r.learn
  <2>3. /\ \A i \in 1..Len(db) : more[i] = db[i]
        /\ TrailFits(new, more, m) /\ Relearned(new, trail, k, level, learn) /\ qhead' = Min({qhead, k, Len(new)})
        /\ Len(new) \in Nat /\ Len(more) \in Nat
        /\ GuardFits(db, trail, list, at, qhead, M) /\ QueueFits(trail, list, at, qhead) /\ at \in 1..Len(list)
    BY <1>4, <1>7, <1>8, <2>2
  <2> HIDE DEF new, more, any, list, learn
  <2>4. GuardFits(more, new, any, 0, Min({qhead, k, Len(new)}), M) /\ QueueFits(new, any, 0, Min({qhead, k, Len(new)}))
    BY <1>7, <1>8, <2>1, <2>3, JumpFits
  <2>5. QED
    BY <2>3, <2>4 DEF new, more, any
<1>12. QueueOK' /\ Guarded'
  BY <1>5, <1>11 DEF QueueOK, Guarded, M
<1>13. ConflictOK'
  BY <1>5, <1>7 DEF ConflictOK, NoConflict
<1>14. QED
  BY <1>5, <1>6, <1>9, <1>10, <1>12, <1>13 DEF IInv

\* The invariant holds at every step.
LEMMA StepInv ==
    ASSUME IInv, [Next]_vars
    PROVE  IInv'
<1>1. CASE NextLiteral
  BY <1>1, NextLiteralInv
<1>2. CASE Visit
  BY <1>2, VisitInv
<1>3. CASE Learn
  BY <1>3, LearnInv
<1>4. CASE Decide
  BY <1>4, DecideInv
<1>5. CASE GiveUp
  BY <1>5, StillInv DEF GiveUp, Answers
<1>6. CASE Refute
  BY <1>6, StillInv DEF Refute, Answers
<1>7. CASE Abort
  BY <1>7, StillInv DEF Abort, Answers
<1>8. CASE Satisfy
  BY <1>8, StillInv DEF Satisfy, Answers
<1>9. CASE Answered \/ UNCHANGED vars
  BY <1>9, StillInv DEF Answered, vars, IInv
<1>10. QED
  BY <1>1, <1>2, <1>3, <1>4, <1>5, <1>6, <1>7, <1>8, <1>9 DEF Next

\* It says what the types are ...
LEMMA InvTypeOK ==
    ASSUME IInv
    PROVE  TypeOK
<1> DEFINE n == hook.next - 1
           M == Len(Long(inst.cls))
<1>1. Parts(n, M) /\ inst \in Instances /\ answer \in Answers /\ confl \in 0..Len(db)
  BY InvParts DEF IInv, ConflictOK
<1> HIDE DEF n, M
<1>2. /\ DOMAIN db = 1..Len(db) /\ Ordered(trail) /\ WatchesFit(watch, db)
      /\ qhead \in Nat /\ qhead <= Len(trail) /\ Len(trail) \in Nat
  BY <1>1 DEF Parts
<1>3. qhead \in 0..Len(trail)
  BY <1>2
<1>4. /\ \A l \in DOMAIN watch : IsInjective(watch[l]) /\ Range(watch[l]) = Watching(db, DOMAIN db, l)
      /\ \A i \in DOMAIN db : Len(db[i]) > 1 /\ Wakers(db, {i}) \subseteq DOMAIN watch
  BY <1>2 DEF WatchesFit
<1>5. QED
  BY <1>1, <1>2, <1>3, <1>4 DEF TypeOK, Ordered

\* ... and that nothing is missed when the queue is empty.
LEMMA InvNothingMissed ==
    ASSUME IInv
    PROVE  NothingMissed
<1> DEFINE n == hook.next - 1
           M == Len(Long(inst.cls))
<1>1. SUFFICES ASSUME Drained, NEW i \in 1..M, ~ \E l \in Range(db[i]) : Value(trail, l) > 0
               PROVE  Cardinality({l \in Range(db[i]) : Value(trail, l) = 0}) > 1
  BY DEF NothingMissed
<1>2. Parts(n, M)
  BY InvParts
<1> HIDE DEF n, M
<1>3. /\ n \in Nat /\ M \in Nat /\ M <= Len(db) /\ db \in Seq(Clauses(n)) /\ Len(db) \in Nat
      /\ trail \in Seq(Entries(n, Len(db))) /\ Ordered(trail) /\ Len(trail) \in Nat
      /\ \A j \in 1..Len(db) : Len(db[j]) > 1
      /\ GuardFits(db, trail, Watched, at, qhead, M)
      /\ at \in Nat /\ Len(Watched) \in Nat
  BY <1>2 DEF Parts
<1>4. ~Busy /\ qhead = Len(trail)
  BY <1>1 DEF Drained
<1>5. i \in 1..Len(db)
  BY <1>3
<1> DEFINE c == db[i]
<1>6. c \in Clauses(n) /\ Len(c) > 1
  BY <1>3, <1>5
<1> HIDE DEF c
<1>7. \A p \in 1..Len(trail) : ~Waiting(Watched, at, qhead, i, p)
  <2>1. \A k \in 1..Len(Watched) : ~ (at > 0 /\ k >= at)
    BY <1>3, <1>4 DEF Busy
  <2>2. QED
    BY <1>3, <1>4, <2>1 DEF Waiting
<1>8. c \in Seq(Literals(n)) /\ Len(c) \in Nat /\ DOMAIN c = 1..Len(c)
  BY <1>6 DEF Clauses
<1>9. ASSUME NEW a \in 1..2
      PROVE  c[a] \in Range(c) /\ c[a] \in Literals(n) /\ c[a] # c[3 - a] /\ Value(trail, c[a]) = 0
  <2>1. /\ a \in 1..Len(c) /\ 3 - a \in 1..Len(c) /\ 3 - a \in 1..2
        /\ c[a] \in Literals(n) /\ c[3 - a] \in Literals(n) /\ c[a] # c[3 - a]
    BY <1>3, <1>6, WatchIsLiteral
  <2>2. c[a] \in Range(c) /\ c[3 - a] \in Range(c)
    BY <1>8, <2>1 DEF Range
  <2> DEFINE x == c[a]
             y == c[3 - a]
  <2>3. ~ (Value(trail, x) > 0) /\ ~ (Value(trail, y) > 0)
    BY <1>1, <2>2 DEF c
  <2>4. x \in Literals(n) /\ y \in Literals(n)
    BY <2>1
  <2> HIDE DEF x, y
  <2>5. ~\E q \in 1..Len(trail) : trail[q].lit = y
    BY <1>3, <2>3, <2>4, ValueTells
  <2>6. ~\E p \in 1..Len(trail) : trail[p].lit = -x
    <3>1. ASSUME NEW p \in 1..Len(trail), trail[p].lit = -x PROVE FALSE
      <4>1. trail[p].lit = -db[i][a]
        BY <3>1 DEF x, c
      <4>2. \E q \in 1..Len(trail) : trail[q].lit = db[i][3-a] /\ trail[q].level <= trail[p].level
        BY <1>3, <1>7, <4>1 DEF GuardFits
      <4>3. QED
        BY <2>5, <4>2 DEF y, c
    <3>2. QED
      BY <3>1
  <2>7. Value(trail, x) = 0
    <3>1. Value(trail, x) \in {-1, 0, 1} /\ Value(trail, x) >= 0
      BY <1>3, <2>4, <2>6, ValueTells
    <3>2. QED
      BY <2>3, <3>1
  <2>8. QED
    BY <2>1, <2>2, <2>7 DEF x
<1> DEFINE S == {l \in Range(c) : Value(trail, l) = 0}
<1>10. IsFiniteSet(S)
  <2>1. Range(c) \in SUBSET Literals(n)
    BY <1>8 DEF Range
  <2>2. S \in SUBSET Literals(n)
    BY <2>1
  <2> HIDE DEF S
  <2>3. QED
    BY <1>3, <2>2, LiteralsFinite, FS_Subset
<1>11. c[1] \in S /\ c[2] \in S /\ c[1] # c[2]
  <2>1. c[1] \in Range(c) /\ c[1] # c[3 - 1] /\ Value(trail, c[1]) = 0 /\ c[2] \in Range(c) /\ Value(trail, c[2]) = 0
    BY <1>9
  <2>2. QED
    BY <2>1
<1> HIDE DEF S
<1>12. Cardinality(S) > 1
  BY <1>10, <1>11, TwoElements
<1>13. QED
  BY <1>12 DEF S, c

\* The invariant holds in every state.
LEMMA InvAlways == Spec => []IInv
<1>1. Init => IInv
  BY StartInv
<1>2. IInv /\ [Next]_vars => IInv'
  BY StepInv
<1>3. QED
  BY <1>1, <1>2, PTL DEF Spec

\* Every clause is in the watch lists of its first two literals, once each, and in no
\* other; the trail is consistent and in the order of its levels: whatever the hook
\* learns, through jumps back and restarts.
THEOREM TypeCorrect == Spec => []TypeOK
<1>1. IInv => TypeOK
  BY InvTypeOK
<1>2. QED
  BY <1>1, InvAlways, PTL

\* When _propagate has drained its queue, every clause of the input is true or has
\* two open literals: no unit is missed and no conflict is overlooked, although
\* Backtrack leaves the watch lists as they are and cuts the queue.
THEOREM NoConsequenceMissed == Spec => []NothingMissed
<1>1. IInv => NothingMissed
  BY InvNothingMissed
<1>2. QED
  BY <1>1, InvAlways, PTL

----------------------------------------------------------------------------
\* Models.

\* The truth of a clause depends on its variables only.
LEMMA SatDepends ==
    ASSUME NEW c \in SUBSET (Int \ {0}), NEW A, NEW B, \A l \in c : Var(l) \in A <=> Var(l) \in B
    PROVE  Sat(A, c) <=> Sat(B, c)
<1>1. ASSUME NEW l \in c PROVE Holds(l, A) <=> Holds(l, B)
  <2>1. l \in Int \ {0} /\ (Var(l) \in A <=> Var(l) \in B)
    OBVIOUS
  <2>2. CASE l > 0
    <3>1. Var(l) = l
      BY <2>1, <2>2 DEF Var
    <3>2. QED
      BY <2>1, <2>2, <3>1 DEF Holds
  <2>3. CASE ~(l > 0)
    <3>1. Var(l) = -l
      BY <2>1, <2>3 DEF Var
    <3>2. QED
      BY <2>1, <2>3, <3>1 DEF Holds
  <2>4. QED
    BY <2>2, <2>3
<1>2. QED
  BY <1>1 DEF Sat

\* The greatest variable of a clause.
LEMMA TopTells ==
    ASSUME NEW n \in Nat, NEW c \in SUBSET Literals(n)
    PROVE  Top(c) \in 0..n /\ \A l \in c : Var(l) \in 1..Top(c)
<1>1. \A l \in c : Var(l) \in 1..n
  BY LiteralsFinite
<1>2. CASE c = {}
  BY <1>2 DEF Top
<1>3. CASE c # {}
  <2> DEFINE S == {Var(l) : l \in c}
  <2>1. S \in SUBSET (0..n) /\ S # {}
    BY <1>1, <1>3
  <2>2. Top(c) = Max(S)
    BY <1>3 DEF Top
  <2>3. \A l \in c : Var(l) \in S
    OBVIOUS
  <2> HIDE DEF S
  <2>4. Max(S) \in S /\ \A y \in S : y <= Max(S)
    BY <2>1, MaxIsGreatest
  <2>5. Max(S) \in 0..n
    BY <2>1, <2>4
  <2>6. ASSUME NEW l \in c PROVE Var(l) \in 1..Max(S)
    <3>1. Var(l) \in 1..n /\ Var(l) <= Max(S)
      BY <1>1, <2>3, <2>4
    <3>2. QED
      BY <2>5, <3>1
  <2>7. QED
    BY <2>2, <2>5, <2>6
<1>4. QED
  BY <1>2, <1>3

\* The models are the sets of variables that satisfy every clause.
LEMMA ModelsAre ==
    ASSUME NEW n \in Nat, NEW cls \in SUBSET SUBSET Literals(n)
    PROVE  Models(n, cls) = {A \in SUBSET (1..n) : \A c \in cls : Sat(A, c)}
<1> DEFINE Step(S, v) == {A \in IF v = 0 THEN {{}} ELSE UNION {{B, B \union {v}} : B \in S} :
                             \A c \in cls : Top(c) = v => \E l \in c : Holds(l, A)}
           G(f) == [v \in 0..n |->
                       {A \in IF v = 0 THEN {{}} ELSE UNION {{B, B \union {v}} : B \in f[v-1]} :
                           \A c \in cls : Top(c) = v => \E l \in c : Holds(l, A)}]
           F == CHOOSE f : f = G(f)
           U == [v \in 0..n |-> {A \in SUBSET (1..v) : \A c \in cls : Top(c) <= v => Sat(A, c)}]
<1>1. \A c \in cls : Top(c) \in 0..n /\ c \in SUBSET (Int \ {0}) /\ \A l \in c : Var(l) \in 1..Top(c)
  BY TopTells, LiteralsFinite
<1>2. U[0] = Step({}, 0)
  <2>1. 0 \in 0..n /\ 1..0 = {} /\ \A c \in cls : Top(c) <= 0 <=> Top(c) = 0
    BY <1>1
  <2>2. QED
    BY <2>1 DEF Sat
<1>3. ASSUME NEW v \in 1..n PROVE U[v] = Step(U[v-1], v)
  <2>1. v \in 0..n /\ v - 1 \in 0..n /\ v # 0 /\ v \in Nat /\ v \notin 1..v - 1 /\ 1..v = 1..(v-1) \cup {v}
    OBVIOUS
  <2>2. ASSUME NEW A \in SUBSET (1..v), NEW B \in SUBSET (1..v - 1), A = B \/ A = B \cup {v},
               NEW c \in cls, Top(c) <= v - 1
        PROVE  Sat(A, c) <=> Sat(B, c)
    <3>1. \A l \in c : Var(l) # v
      BY <1>1, <2>1, <2>2
    <3>2. \A l \in c : Var(l) \in A <=> Var(l) \in B
      BY <2>2, <3>1
    <3>3. QED
      BY <1>1, <3>2, SatDepends
  <2>3. ASSUME NEW A \in U[v] PROVE A \in Step(U[v-1], v)
    <3> DEFINE B == A \ {v}
    <3>1. A \in SUBSET (1..v) /\ \A c \in cls : Top(c) <= v => Sat(A, c)
      BY <2>1, <2>3
    <3>2. B \in SUBSET (1..v - 1) /\ (A = B \/ A = B \cup {v})
      BY <2>1, <3>1
    <3>3. \A c \in cls : Top(c) <= v - 1 => Sat(B, c)
      <4>1. \A c \in cls : Top(c) <= v - 1 => Top(c) <= v
        BY <1>1, <2>1
      <4> HIDE DEF B
      <4>2. QED
        BY <2>2, <3>1, <3>2, <4>1
    <3>4. B \in U[v-1]
      BY <2>1, <3>2, <3>3
    <3>5. A \in UNION {{D, D \union {v}} : D \in U[v-1]}
      <4> HIDE DEF B, U
      <4>1. QED
        BY <3>2, <3>4
    <3>6. \A c \in cls : Top(c) = v => Sat(A, c)
      BY <1>1, <3>1
    <3> HIDE DEF U
    <3>7. QED
      BY <2>1, <3>5, <3>6 DEF Sat
  <2>4. ASSUME NEW A \in Step(U[v-1], v) PROVE A \in U[v]
    <3>1. /\ A \in UNION {{D, D \union {v}} : D \in U[v-1]}
          /\ \A c \in cls : Top(c) = v => Sat(A, c)
      <4> HIDE DEF U
      <4>1. QED
        BY <2>1, <2>4 DEF Sat
    <3>2. PICK B \in U[v-1] : A = B \/ A = B \cup {v}
      <4> HIDE DEF U
      <4>1. QED
        BY <3>1
    <3>3. B \in SUBSET (1..v - 1) /\ \A c \in cls : Top(c) <= v - 1 => Sat(B, c)
      BY <2>1, <3>2
    <3>4. A \in SUBSET (1..v)
      BY <2>1, <3>2, <3>3
    <3>5. \A c \in cls : Top(c) <= v => Sat(A, c)
      <4>1. \A c \in cls : Top(c) <= v => Top(c) = v \/ Top(c) <= v - 1
        BY <1>1, <2>1
      <4>2. QED
        BY <2>2, <3>1, <3>2, <3>3, <3>4, <4>1
    <3>6. QED
      BY <2>1, <3>4, <3>5
  <2> HIDE DEF U, Step
  <2>5. QED
    BY <2>3, <2>4
<1>4. DOMAIN U = 0..n /\ U = [v \in 0..n |-> U[v]]
  OBVIOUS
<1>5. U[n] = {A \in SUBSET (1..n) : \A c \in cls : Sat(A, c)}
  <2>1. n \in 0..n /\ \A c \in cls : Top(c) <= n
    BY <1>1
  <2>2. QED
    BY <2>1
<1> HIDE DEF U
<1>6. U = G(U)
  <2>1. \A v \in 0..n : U[v] = Step(U[v-1], v)
    <3>1. \A S : Step(S, 0) = Step({}, 0)
      OBVIOUS
    <3> HIDE DEF Step
    <3>2. \A v \in 0..n : v = 0 \/ v \in 1..n
      OBVIOUS
    <3>3. QED
      BY <1>2, <1>3, <3>1, <3>2
  <2>2. G(U) = [v \in 0..n |-> Step(U[v-1], v)]
    OBVIOUS
  <2> HIDE DEF Step, G
  <2>3. QED
    BY <1>4, <2>1, <2>2
<1>7. F = G(F)
  <2> HIDE DEF G
  <2>1. QED
    BY <1>6 DEF F
<1>8. ASSUME NEW f, f = G(f) PROVE f[n] = U[n]
  <2> DEFINE T == {v \in 0..n : f[v] = U[v]}
  <2>1. \A v \in 0..n : f[v] = Step(f[v-1], v)
    <3> DEFINE e == G(f)
    <3>1. \A v \in 0..n : e[v] = Step(f[v-1], v)
      OBVIOUS
    <3> HIDE DEF e, Step
    <3>2. f = e
      BY <1>8 DEF e
    <3>3. QED
      BY <3>1, <3>2
  <2>2. 0 \in T
    <3>1. \A S : Step(S, 0) = Step({}, 0)
      OBVIOUS
    <3> HIDE DEF Step
    <3>2. QED
      BY <1>2, <2>1, <3>1
  <2> HIDE DEF Step
  <2>3. ASSUME NEW k \in 0..n - 1, k \in T PROVE k + 1 \in T
    <3>1. k + 1 \in 1..n /\ k + 1 \in 0..n /\ (k + 1) - 1 = k
      OBVIOUS
    <3>2. f[k + 1] = Step(f[k], k + 1) /\ U[k + 1] = Step(U[k], k + 1)
      BY <1>3, <2>1, <3>1
    <3>3. QED
      BY <2>3, <3>1, <3>2
  <2>4. 0..n \subseteq T
    <3> HIDE DEF T
    <3>1. QED
      BY <2>2, <2>3, UpTo
  <2>5. n \in 0..n
    OBVIOUS
  <2>6. QED
    BY <2>4, <2>5
<1>9. Models(n, cls) = F[n]
  BY Zenon DEF Models
<1> HIDE DEF G, F
<1>10. QED
  BY <1>5, <1>7, <1>8, <1>9

----------------------------------------------------------------------------
\* What a hook returns excludes no model.

\* A name that is true stands for a pair that is true.
GatesHold(B, gates) == \A p \in DOMAIN gates : gates[p] \in B => \A l \in p : Holds(l, B)

\* B extends to the new variables so that it satisfies what is learned.
Extends(r, h, B) ==
    \E D \in SUBSET (1..r.hook.next - 1) :
       /\ D \cap (1..h.next - 1) = B
       /\ \A c \in Range(r.learn) : Sat(D, Range(c))
       /\ GatesHold(D, r.hook.gates)

\* B satisfies a cone.
Bears(B, cone, n) ==
    /\ \A c \in ConeClauses(cone) : Sat(B, c)
    /\ cone.roots \subseteq Literals(n) /\ \A l \in cone.roots : Holds(l, B)

\* What satisfies the database and the roots satisfies the cone of a conflict.
LEMMA ConeBorne ==
    ASSUME NEW n, Falsified(n), NEW B, Agrees(B, db, trail)
    PROVE  Bears(B, Cone, n)
<1> DEFINE level == CurLevel(trail)
           conflict == Range(db[confl])
           seeds == AtLevel(Neg(conflict), level)
           current == Sources(seeds, level)
           implied == {t \in current : ReasonOf(trail, t) # Decision}
           reasons == [t \in implied |-> Range(db[ReasonOf(trail, t)])]
           below == Neg(conflict \union UNION {Others(t) : t \in implied}) \ current
<1>1. Cone.conflict = conflict /\ Cone.reasons = reasons /\ Cone.roots = AtLevel(below, 0)
  BY DEF Cone
<1>2. seeds \in SUBSET Lits(trail) /\ Neg(conflict) \subseteq Lits(trail)
  BY DEF Falsified, AtLevel
<1>3. Sat(B, conflict)
  BY DEF Falsified, Agrees
<1> HIDE DEF conflict, seeds, level
<1>4. current \in SUBSET Lits(trail)
  BY <1>2, SourcesOnTrail
<1>5. \A t \in implied : t \in Lits(trail) /\ ReasonOf(trail, t) # Decision
  BY <1>4
<1> HIDE DEF implied, current
<1>6. /\ n \in Nat /\ db \in Seq(Clauses(n)) /\ TrailFits(trail, db, n) /\ Len(db) \in Nat
      /\ trail \in Seq(Entries(n, Len(db))) /\ Ordered(trail)
  BY DEF Falsified, TrailFits
<1>7. \A l \in Lits(trail) : \E i \in 1..Len(trail) : trail[i].lit = l
  BY <1>6, LitsTell
<1>8. \A t \in implied : Sat(B, Range(db[ReasonOf(trail, t)]))
  <2>1. TAKE t \in implied
  <2>2. PICK i \in 1..Len(trail) : trail[i].lit = t
    BY <1>5, <1>7
  <2>3. ReasonOf(trail, t) = trail[i].why
    BY <1>6, <2>2, EntryTells
  <2>4. trail[i].why # Decision
    BY <1>5, <2>3
  <2>5. trail[i].why \in 1..Len(db)
    BY <1>6, <2>4, OthersFalse
  <2>6. QED
    BY <2>3, <2>5 DEF Agrees
<1>9. Range(reasons) = {Range(db[ReasonOf(trail, t)]) : t \in implied}
  BY DEF Range
<1>10. \A c \in ConeClauses(Cone) : Sat(B, c)
  BY <1>1, <1>3, <1>8, <1>9 DEF ConeClauses
<1>11. Cone.roots \subseteq AtLevel(Lits(trail), 0)
  BY ConeHasLevels DEF ConeLevels
<1>12. ASSUME NEW l \in Cone.roots PROVE l \in Literals(n) /\ Holds(l, B)
  <2>1. l \in Lits(trail) /\ LevelOf(trail, l) = 0
    BY <1>11 DEF AtLevel
  <2>2. PICK i \in 1..Len(trail) : trail[i].lit = l
    BY <1>7, <2>1
  <2>3. trail[i].level = 0
    BY <1>6, <2>1, <2>2, EntryTells
  <2>4. Holds(l, B)
    BY <1>6, <2>2, <2>3, RootsHold
  <2>5. l \in Literals(n)
    BY <1>6, <2>2, EntryTyped
  <2>6. QED
    BY <2>4, <2>5
<1>13. QED
  BY <1>1, <1>10, <1>12 DEF Bears

\* Clauses that B satisfies need no new variables.
LEMMA AsItIs ==
    ASSUME NEW h, NEW r, NEW B \in SUBSET (1..h.next - 1), r.hook.next = h.next, r.hook.gates = h.gates,
           GatesHold(B, h.gates), \A c \in Range(r.learn) : Sat(B, Range(c))
    PROVE  Extends(r, h, B)
<1>1. B \in SUBSET (1..r.hook.next - 1) /\ B \cap (1..h.next - 1) = B
  OBVIOUS
<1>2. QED
  BY <1>1 DEF Extends

\* One clause that B satisfies, and no new variable.
LEMMA OnlyExtends ==
    ASSUME NEW h, HookTyped(h), NEW uip \in SUBSET Literals(h.next - 1), NEW B \in SUBSET (1..h.next - 1),
           Sat(B, uip), GatesHold(B, h.gates), NEW r, r.hook.next = h.next, r.hook.gates = h.gates, r.learn = <<Tuple(uip)>>
    PROVE  Extends(r, h, B)
<1>1. h.next - 1 \in Nat
  BY DEF HookTyped
<1>2. Range(Tuple(uip)) = uip
  BY <1>1, TupleTyped
<1>3. Range(r.learn) = {Tuple(uip)}
  BY DEF Range
<1>4. \A c \in Range(r.learn) : Sat(B, Range(c))
  BY <1>2, <1>3
<1>5. QED
  BY <1>4, AsItIs

\* A clause loses what a root makes false.
LEMMA RootsLeaveSat ==
    ASSUME NEW B, NEW cone, NEW n \in Nat, Bears(B, cone, n), NEW c \in SUBSET Literals(n), Sat(B, c)
    PROVE  Sat(B, WithoutRoots(cone, c)) /\ WithoutRoots(cone, c) \in SUBSET Literals(n)
<1>1. PICK l \in c : Holds(l, B)
  BY DEF Sat
<1>2. l \notin Neg(cone.roots)
  <2>1. ASSUME NEW m \in cone.roots, l = -m PROVE FALSE
    <3>1. m \in Int \ {0} /\ Holds(m, B)
      BY DEF Bears, Literals
    <3>2. ~ Holds(-m, B)
      BY <3>1, HoldsOrNot
    <3>3. QED
      BY <1>1, <2>1, <3>2
  <2>2. QED
    BY <2>1 DEF Neg
<1>3. QED
  BY <1>1, <1>2 DEF WithoutRoots, Sat

\* So does a resolvent.
LEMMA ResolventHolds ==
    ASSUME NEW B, NEW cone, NEW n \in Nat, ConeTyped(cone, n), Bears(B, cone, n),
           NEW c \in SUBSET Literals(n), Sat(B, c), NEW t \in DOMAIN cone.reasons, -t \in c
    PROVE  Sat(B, Resolvent(cone, c, t))
<1> DEFINE r == cone.reasons[t]
<1>1. r \in ConeClauses(cone)
  BY DEF ConeClauses, Range
<1>2. r \in SUBSET Literals(n) /\ Sat(B, r)
  BY <1>1 DEF ConeTyped, Bears
<1> HIDE DEF r
<1>3. PICK l \in c : Holds(l, B)
  BY DEF Sat
<1>4. CASE l # -t
  BY <1>3, <1>4 DEF Resolvent, Sat
<1>5. CASE l = -t
  <2>1. PICK m \in WithoutRoots(cone, r) : Holds(m, B)
    BY <1>2, RootsLeaveSat DEF Sat
  <2>2. m # t
    <3>1. ASSUME m = t PROVE FALSE
      <4>1. m \in Int \ {0}
        BY <1>2, <2>1 DEF WithoutRoots, Literals
      <4>2. ~ Holds(-m, B)
        BY <2>1, <4>1, HoldsOrNot
      <4>3. QED
        BY <1>3, <1>5, <3>1, <4>2
    <3>2. QED
      BY <3>1
  <2>3. m \in WithoutRoots(cone, r \ {t})
    BY <2>1, <2>2 DEF WithoutRoots
  <2>4. QED
    BY <2>1, <2>3 DEF Resolvent, Sat, r
<1>6. QED
  BY <1>4, <1>5

\* The cuts follow from the cone.
LEMMA CutsHold ==
    ASSUME NEW B, NEW cone, NEW n \in Nat, ConeTyped(cone, n), Bears(B, cone, n)
    PROVE  \A c \in Cuts(cone) : Sat(B, c) /\ c \in SUBSET Literals(n)
<1> DEFINE P == {c \in SUBSET Literals(n) : Sat(B, c)}
<1>1. cone.conflict \in SUBSET Literals(n) /\ Sat(B, cone.conflict)
  BY DEF ConeTyped, Bears, ConeClauses
<1>2. WithoutRoots(cone, cone.conflict) \in P
  BY <1>1, RootsLeaveSat
<1>3. ASSUME NEW c \in SUBSET Literals(n), NEW t \in DOMAIN cone.reasons, c \in P, -t \in c
      PROVE  Resolvent(cone, c, t) \in P
  <2>1. Sat(B, Resolvent(cone, c, t))
    BY <1>3, ResolventHolds
  <2>2. cone.reasons[t] \in SUBSET Literals(n)
    BY DEF ConeTyped, ConeClauses, Range
  <2>3. Resolvent(cone, c, t) \in SUBSET Literals(n)
    BY <2>2 DEF Resolvent, WithoutRoots
  <2>4. QED
    BY <2>1, <2>3
<1>4. Cuts(cone) \subseteq P \cap SUBSET Literals(n)
  <2> HIDE DEF P
  <2>1. QED
    BY <1>2, <1>3, CutsFrom
<1>5. QED
  BY <1>4

\* MultiLearn.
LEMMA MultiExtends ==
    ASSUME NEW k, NEW h, HookTyped(h), NEW cone, ConeTyped(cone, h.next - 1),
           NEW uip \in SUBSET Literals(h.next - 1), NEW r \in MultiLearn(k, h, cone, uip),
           NEW B \in SUBSET (1..h.next - 1), Bears(B, cone, h.next - 1), Sat(B, uip), GatesHold(B, h.gates)
    PROVE  Extends(r, h, B)
<1> DEFINE n == h.next - 1
<1>1. n \in Nat
  BY DEF HookTyped
<1>2. IsFiniteSet(Cuts(cone)) /\ \A c \in Cuts(cone) \cup {uip} : Sat(B, c) /\ c \in SUBSET Literals(n)
  BY <1>1, CutsTyped, CutsHold
<1>3. r.hook = h /\ r.learn \in Seq({Tuple(c) : c \in Cuts(cone) \cup {uip}})
  BY <1>2, MultiResult
<1>4. \A c \in Range(r.learn) : \E d \in Cuts(cone) \cup {uip} : c = Tuple(d)
  <2> DEFINE s == r.learn
  <2>1. s \in Seq({Tuple(c) : c \in Cuts(cone) \cup {uip}})
    BY <1>3
  <2> HIDE DEF s
  <2>2. \A c \in Range(s) : \E d \in Cuts(cone) \cup {uip} : c = Tuple(d)
    BY <2>1 DEF Range
  <2>3. QED
    BY <2>2 DEF s
<1>5. \A c \in Range(r.learn) : Sat(B, Range(c))
  <2>1. TAKE c \in Range(r.learn)
  <2>2. PICK d \in Cuts(cone) \cup {uip} : c = Tuple(d)
    BY <1>4
  <2>3. Range(Tuple(d)) = d
    BY <1>1, <1>2, TupleTyped
  <2>4. QED
    BY <1>2, <2>2, <2>3
<1>6. QED
  BY <1>3, <1>5, AsItIs

----------------------------------------------------------------------------
\* ExtLearn.

\* What B and D agree on.
LEMMA HoldsSame ==
    ASSUME NEW n \in Nat, NEW B, NEW D, D \cap (1..n) = B \cap (1..n)
    PROVE  /\ \A l \in Literals(n) : Holds(l, D) <=> Holds(l, B)
           /\ \A c \in SUBSET Literals(n) : Sat(D, c) <=> Sat(B, c)
<1>1. ASSUME NEW l \in Literals(n) PROVE Holds(l, D) <=> Holds(l, B)
  <2>1. l \in Int /\ l # 0 /\ (l > 0 => l \in 1..n) /\ (~(l > 0) => -l \in 1..n)
    BY DEF Literals
  <2>2. QED
    BY <2>1 DEF Holds
<1>2. \A c \in SUBSET Literals(n) : Sat(D, c) <=> Sat(B, c)
  BY <1>1 DEF Sat
<1>3. QED
  BY <1>1, <1>2

\* A name for a pair that is true stands for the pair.
LEMMA RenamedHolds ==
    ASSUME NEW uip \in SUBSET (Int \ {0}), NEW p \in SUBSET (Int \ {0}), NEW z \in Nat \ {0}, NEW D,
           Sat(D, uip), z \in D => \A l \in p : Holds(l, D)
    PROVE  Sat(D, (uip \ Neg(p)) \union {-z})
<1>1. CASE z \in D
  <2>1. PICK l \in uip : Holds(l, D)
    BY DEF Sat
  <2>2. l \notin Neg(p)
    <3>1. ASSUME NEW m \in p, l = -m PROVE FALSE
      <4>1. m \in Int \ {0} /\ Holds(m, D)
        BY <1>1
      <4>2. ~ Holds(-m, D)
        BY <4>1, HoldsOrNot
      <4>3. QED
        BY <2>1, <3>1, <4>2
    <3>2. QED
      BY <3>1 DEF Neg
  <2>3. QED
    BY <2>1, <2>2 DEF Sat
<1>2. CASE z \notin D
  <2>1. -z \in Int /\ ~(-z > 0) /\ -(-z) = z
    OBVIOUS
  <2>2. Holds(-z, D)
    BY <1>2, <2>1 DEF Holds
  <2>3. QED
    BY <2>2 DEF Sat
<1>3. QED
  BY <1>1, <1>2

\* The definition of a name holds when the name is true where both literals are.
LEMMA DefinitionHolds ==
    ASSUME NEW z \in Nat \ {0}, NEW a \in Int \ {0}, NEW b \in Int \ {0}, NEW D,
           z \in D <=> Holds(a, D) /\ Holds(b, D)
    PROVE  \A c \in Range(ExtDefinition(z, a, b)) : Sat(D, Range(c))
<1>1. Range(ExtDefinition(z, a, b)) = {<<-z, a>>, <<-z, b>>, <<z, -a, -b>>}
  BY DEF ExtDefinition, Range
<1>2. Range(<<-z, a>>) = {-z, a} /\ Range(<<-z, b>>) = {-z, b} /\ Range(<<z, -a, -b>>) = {z, -a, -b}
  BY DEF Range
<1>3. (Holds(z, D) <=> z \in D) /\ (Holds(-z, D) <=> z \notin D)
  <2>1. z > 0 /\ -z \in Int /\ ~(-z > 0) /\ -(-z) = z
    OBVIOUS
  <2>2. QED
    BY <2>1 DEF Holds
<1>4. (Holds(-a, D) <=> ~ Holds(a, D)) /\ (Holds(-b, D) <=> ~ Holds(b, D))
  BY HoldsOrNot
<1>5. Sat(D, {-z, a}) /\ Sat(D, {-z, b}) /\ Sat(D, {z, -a, -b})
  BY <1>3, <1>4 DEF Sat
<1>6. QED
  BY <1>1, <1>2, <1>5

\* A clause with a name that is known.
LEMMA ReusedExtends ==
    ASSUME NEW h, HookTyped(h), NEW cone, ConeTyped(cone, h.next - 1),
           NEW uip \in SUBSET Literals(h.next - 1), NEW B \in SUBSET (1..h.next - 1), Sat(B, uip), GatesHold(B, h.gates),
           NEW p \in DOMAIN h.gates, NEW r, Reused(r, h, cone, uip, p)
    PROVE  Extends(r, h, B)
<1> DEFINE n == h.next - 1
           z == h.gates[p]
<1>1. n \in Nat /\ z \in 1..n /\ p \in h.pairs
  BY DEF HookTyped
<1>2. uip \in SUBSET (Int \ {0}) /\ p \in SUBSET (Int \ {0}) /\ p \in SUBSET Literals(n)
  <2>1. PICK a \in Literals(n), b \in Literals(n) : p = {a, b}
    BY <1>1 DEF HookTyped
  <2>2. Literals(n) \subseteq Int \ {0}
    BY DEF Literals
  <2>3. QED
    BY <2>1, <2>2
<1>3. z \in B => \A l \in p : Holds(l, B)
  BY DEF GatesHold
<1>4. r.hook.next = h.next /\ r.hook.gates = h.gates /\ r.learn = <<Renamed(uip, p, z)>>
  BY SeenTyped DEF Reused
<1> DEFINE c == (uip \ Neg(p)) \union {-z}
<1>5. Sat(B, c)
  <2> HIDE DEF n, z
  <2>1. z \in Nat \ {0}
    BY <1>1
  <2>2. QED
    BY <1>2, <1>3, <2>1, RenamedHolds
<1>6. c \in SUBSET Literals(n)
  <2>1. -z \in Literals(n)
    BY <1>1 DEF Literals
  <2>2. QED
    BY <2>1
<1>7. Range(Renamed(uip, p, z)) = c
  <2>1. Renamed(uip, p, z) = Tuple(c)
    BY DEF Renamed
  <2> HIDE DEF c
  <2>2. QED
    BY <1>1, <1>6, <2>1, TupleTyped
<1> HIDE DEF c, z
<1>8. Range(r.learn) = {Renamed(uip, p, z)}
  BY <1>4 DEF Range
<1>9. \A d \in Range(r.learn) : Sat(B, Range(d))
  BY <1>5, <1>7, <1>8
<1>10. QED
  BY <1>4, <1>9, AsItIs

\* A clause with a new name, and its definition.
LEMMA NamedExtends ==
    ASSUME NEW h, HookTyped(h), NEW cone, ConeTyped(cone, h.next - 1),
           NEW uip \in SUBSET Literals(h.next - 1), NEW B \in SUBSET (1..h.next - 1), Sat(B, uip), GatesHold(B, h.gates),
           NEW p \in Seen(h, cone).pairs, Neg(p) \subseteq uip, NEW r, Named(r, h, cone, uip, p)
    PROVE  Extends(r, h, B)
<1> DEFINE n == h.next - 1
           z == h.next
           s == Seen(h, cone)
           D == IF \A l \in p : Holds(l, B) THEN B \cup {z} ELSE B
<1>1. n \in Nat /\ z = n + 1 /\ z \in Nat \ {0} /\ z \notin 1..n
  BY DEF HookTyped
<1>2. HookTyped(s) /\ s.gates = h.gates /\ s.next = h.next
  BY SeenTyped
<1>3. PICK a \in Literals(n), b \in Literals(n) : a # b /\ p = {a, b}
  BY <1>2 DEF HookTyped
<1> DEFINE x == Tuple(p)[1]
           y == Tuple(p)[2]
<1>4. x \in Literals(n) /\ y \in Literals(n) /\ x # y /\ p = {x, y}
  BY <1>1, <1>3, PairSplits
<1>5. Literals(n) \subseteq Int \ {0}
  BY DEF Literals
<1>6. r.hook = [pairs |-> s.pairs, gates |-> Put(h.gates, p, z), next |-> z + 1]
  <2>1. r.hook = [s EXCEPT !.next = @ + 1, !.gates = Put(@, p, z)]
    BY DEF Named
  <2> HIDE DEF s
  <2>2. QED
    BY <1>2, <2>1, NamedHook
<1>7. r.hook.next = z + 1 /\ r.hook.gates = Put(h.gates, p, z)
  BY <1>6
<1>8. r.learn = <<Renamed(uip, p, z)>> \o ExtDefinition(z, x, y)
  BY DEF Named
<1>9. D \in SUBSET (1..z) /\ D \cap (1..n) = B /\ (z \in D <=> \A l \in p : Holds(l, B))
  <2>1. 1..n \subseteq 1..z /\ z \in 1..z /\ z \notin 1..n
    BY <1>1
  <2> HIDE DEF n, z
  <2>2. B \in SUBSET (1..n)
    BY DEF n
  <2>3. QED
    BY <2>1, <2>2
<1> HIDE DEF D, x, y
<1>10. /\ \A l \in Literals(n) : Holds(l, D) <=> Holds(l, B)
       /\ \A c \in SUBSET Literals(n) : Sat(D, c) <=> Sat(B, c)
  <2>1. D \cap (1..n) = B \cap (1..n)
    BY <1>9
  <2> HIDE DEF n
  <2>2. QED
    BY <1>1, <2>1, HoldsSame
<1>11. Sat(D, uip)
  BY <1>10
<1>12. z \in D <=> Holds(x, D) /\ Holds(y, D)
  BY <1>4, <1>9, <1>10
<1>13. \A c \in Range(ExtDefinition(z, x, y)) : Sat(D, Range(c))
  <2> HIDE DEF n, z
  <2>1. x \in Int \ {0} /\ y \in Int \ {0}
    BY <1>4, <1>5
  <2>2. QED
    BY <1>1, <1>12, <2>1, DefinitionHolds
<1> DEFINE c == (uip \ Neg(p)) \union {-z}
<1>14. Sat(D, c)
  <2> HIDE DEF n, z
  <2>1. uip \in SUBSET (Int \ {0}) /\ p \in SUBSET (Int \ {0})
    <3>1. uip \in SUBSET Literals(n)
      BY DEF n
    <3>2. QED
      BY <1>4, <1>5, <3>1
  <2>2. z \in D => \A l \in p : Holds(l, D)
    BY <1>4, <1>12
  <2>3. QED
    BY <1>1, <1>11, <2>1, <2>2, RenamedHolds
<1>15. Range(Renamed(uip, p, z)) = c
  <2>1. Renamed(uip, p, z) = Tuple(c)
    BY DEF Renamed
  <2>2. c \in SUBSET Literals(z)
    <3>1. Literals(n) \subseteq Literals(z) /\ -z \in Literals(z)
      BY <1>1 DEF Literals
    <3>2. QED
      BY <3>1
  <2> HIDE DEF c
  <2>3. z \in Nat
    BY <1>1
  <2> HIDE DEF z
  <2>4. QED
    BY <2>1, <2>2, <2>3, TupleTyped
<1>16. Range(r.learn) = {Renamed(uip, p, z)} \cup Range(ExtDefinition(z, x, y))
  <2> DEFINE q == <<Renamed(uip, p, z)>>
             e == ExtDefinition(z, x, y)
             T == Range(q) \cup Range(e)
  <2>1. q \in Seq(T) /\ Range(q) = {Renamed(uip, p, z)}
    <3> HIDE DEF e
    <3>1. QED
      BY DEF Range
  <2>2. e \in Seq(T)
    <3>1. e = << <<-z, x>>, <<-z, y>>, <<z, -x, -y>> >>
      BY DEF ExtDefinition
    <3> HIDE DEF q
    <3>2. QED
      BY <3>1 DEF Range
  <2>3. r.learn = q \o e
    BY <1>8
  <2> HIDE DEF q, e, T
  <2>4. Range(q \o e) = Range(q) \cup Range(e)
    BY <2>1, <2>2, RangeJoined
  <2>5. QED
    BY <2>1, <2>3, <2>4 DEF e
<1> HIDE DEF c
<1>17. \A d \in Range(r.learn) : Sat(D, Range(d))
  BY <1>13, <1>14, <1>15, <1>16
<1>18. GatesHold(D, Put(h.gates, p, z))
  <2>1. ASSUME NEW q \in DOMAIN Put(h.gates, p, z), Put(h.gates, p, z)[q] \in D
        PROVE  \A l \in q : Holds(l, D)
    <3>1. CASE q = p
      <4>1. Put(h.gates, p, z)[q] = z
        BY <3>1 DEF Put
      <4>2. QED
        BY <1>4, <1>12, <2>1, <3>1, <4>1
    <3>2. CASE q # p
      <4>1. q \in DOMAIN h.gates /\ Put(h.gates, p, z)[q] = h.gates[q]
        BY <3>2 DEF Put
      <4>2. h.gates[q] \in 1..n /\ q \in h.pairs
        BY <4>1 DEF HookTyped
      <4>3. h.gates[q] \in B
        BY <1>9, <2>1, <4>1, <4>2
      <4>4. \A l \in q : Holds(l, B)
        BY <4>1, <4>3 DEF GatesHold
      <4>5. PICK u \in Literals(n), v \in Literals(n) : q = {u, v}
        BY <4>2 DEF HookTyped
      <4>6. QED
        BY <1>10, <4>4, <4>5
    <3>3. QED
      BY <3>1, <3>2
  <2>2. QED
    BY <2>1 DEF GatesHold
<1>19. D \in SUBSET (1..r.hook.next - 1)
  <2>1. r.hook.next - 1 = z
    BY <1>1, <1>7
  <2>2. QED
    BY <1>9, <2>1
<1>20. QED
  <2>1. D \cap (1..h.next - 1) = B
    BY <1>9
  <2>2. GatesHold(D, r.hook.gates)
    BY <1>7, <1>18
  <2>3. QED
    BY <1>17, <1>19, <2>1, <2>2 DEF Extends

\* Naming a pair excludes nothing: the name is true where the pair is.
LEMMA ExtExtends ==
    ASSUME NEW s, NEW h, HookTyped(h), NEW cone, ConeTyped(cone, h.next - 1),
           NEW uip \in SUBSET Literals(h.next - 1), NEW r \in ExtLearn(s, h, cone, uip),
           NEW B \in SUBSET (1..h.next - 1), Sat(B, uip), GatesHold(B, h.gates)
    PROVE  Extends(r, h, B)
<1>1. ExtReturns(r, h, cone, uip)
  BY ExtResult
<1>2. Seen(h, cone).gates = h.gates /\ Seen(h, cone).next = h.next
  BY SeenTyped
<1>3. CASE r.hook \in {h, Seen(h, cone)} /\ r.learn = <<Tuple(uip)>>
  <2>1. r.hook.next = h.next /\ r.hook.gates = h.gates
    BY <1>2, <1>3
  <2>2. QED
    BY <1>3, <2>1, OnlyExtends
<1>4. ASSUME NEW p \in Seen(h, cone).pairs, Neg(p) \subseteq uip,
             \/ p \in DOMAIN Seen(h, cone).gates /\ Reused(r, h, cone, uip, p)
             \/ p \notin DOMAIN Seen(h, cone).gates /\ Named(r, h, cone, uip, p)
      PROVE  Extends(r, h, B)
  <2>1. CASE p \in DOMAIN h.gates /\ Reused(r, h, cone, uip, p)
    BY <2>1, ReusedExtends
  <2>2. CASE Named(r, h, cone, uip, p)
    BY <1>4, <2>2, NamedExtends
  <2>3. QED
    BY <1>2, <1>4, <2>1, <2>2
<1>5. QED
  BY <1>1, <1>3, <1>4 DEF ExtReturns

IsNeg(x) == IF x < 0 THEN 1 ELSE 0

\* The negative literals of a clause of three.
LEMMA NegativesOf ==
    ASSUME NEW x, NEW y, NEW z, x # y, x # z, y # z
    PROVE  Negatives({x, y, z}) = IsNeg(x) + IsNeg(y) + IsNeg(z)
<1> DEFINE S == {l \in {x, y, z} : l < 0}
<1>1. S \in SUBSET {x, y, z} /\ (x \in S <=> x < 0) /\ (y \in S <=> y < 0) /\ (z \in S <=> z < 0)
  OBVIOUS
<1>2. Negatives({x, y, z}) = Cardinality(S)
  BY DEF Negatives
<1> HIDE DEF S
<1>3. Cardinality(S) = In(x, S) + In(y, S) + In(z, S)
  BY <1>1, BitsCount DEF CountedThree
<1>4. In(x, S) = IsNeg(x) /\ In(y, S) = IsNeg(y) /\ In(z, S) = IsNeg(z)
  BY <1>1 DEF In, IsNeg
<1>5. QED
  BY <1>2, <1>3, <1>4

\* Clauses of three literals over three variables: the sign of each.
Signed(d, u, v, w) ==
    /\ d \subseteq {u, -u, v, -v, w, -w}
    /\ (u \in d <=> -u \notin d) /\ (v \in d <=> -v \notin d) /\ (w \in d <=> -w \notin d)
    /\ Negatives(d) = In(-u, d) + In(-v, d) + In(-w, d)

\* One literal of each variable.
LEMMA SignedAs ==
    ASSUME NEW u \in Nat \ {0}, NEW v \in Nat \ {0}, NEW w \in Nat \ {0}, u # v, u # w, v # w,
           NEW a \in Int, NEW b \in Int, NEW g \in Int, Var(a) = u, Var(b) = v, Var(g) = w
    PROVE  Signed({a, b, g}, u, v, w)
<1> DEFINE d == {a, b, g}
<1>1. a \in {u, -u} /\ b \in {v, -v} /\ g \in {w, -w}
  BY DEF Var
<1>2. a # b /\ a # g /\ b # g
  OBVIOUS
<1>3. d \subseteq {u, -u, v, -v, w, -w}
  BY <1>1
<1>4. (u \in d <=> a = u) /\ (-u \in d <=> a = -u) /\ (v \in d <=> b = v) /\ (-v \in d <=> b = -v)
        /\ (w \in d <=> g = w) /\ (-w \in d <=> g = -w)
  BY <1>1
<1>5. Negatives(d) = IsNeg(a) + IsNeg(b) + IsNeg(g)
  BY <1>2, NegativesOf
<1> HIDE DEF d
<1>6. IsNeg(a) = In(-u, d) /\ IsNeg(b) = In(-v, d) /\ IsNeg(g) = In(-w, d)
  BY <1>1, <1>4 DEF IsNeg, In
<1>7. (u \in d <=> -u \notin d) /\ (v \in d <=> -v \notin d) /\ (w \in d <=> -w \notin d)
  BY <1>1, <1>4
<1>8. Signed(d, u, v, w)
  BY <1>3, <1>5, <1>6, <1>7 DEF Signed
<1>9. QED
  BY <1>8 DEF d

\* Every clause of three literals over three variables is one of these.
LEMMA TernarySigned ==
    ASSUME NEW u \in Nat \ {0}, NEW v \in Nat \ {0}, NEW w \in Nat \ {0}, u # v, u # w, v # w,
           NEW d \in SUBSET (Int \ {0}), IsFiniteSet(d), Cardinality(d) = 3, Vars({d}) = {u, v, w}
    PROVE  Signed(d, u, v, w)
<1>1. PICK x, y, z : d = {x, y, z} /\ x # y /\ x # z /\ y # z
  BY ThreeElements
<1>2. Vars({d}) = {Var(l) : l \in d}
  BY DEF Vars
<1>3. \A t \in {u, v, w} : \E l \in d : Var(l) = t
  BY <1>2
<1>4. PICK a \in d, b \in d, g \in d : Var(a) = u /\ Var(b) = v /\ Var(g) = w
  BY <1>3
<1>5. a # b /\ a # g /\ b # g /\ a \in {x, y, z} /\ b \in {x, y, z} /\ g \in {x, y, z}
  BY <1>1, <1>4
<1>6. d = {a, b, g}
  BY <1>1, <1>5
<1>7. Signed({a, b, g}, u, v, w)
  BY <1>4, SignedAs
<1>8. QED
  BY <1>6, <1>7

\* Two signs and the parity of all tell the third.
LEMMA SignedSame ==
    ASSUME NEW u \in Nat \ {0}, NEW v \in Nat \ {0}, NEW w \in Nat \ {0},
           NEW d, Signed(d, u, v, w), NEW e, Signed(e, u, v, w), Negatives(d) % 2 = Negatives(e) % 2,
           u \in d <=> u \in e, v \in d <=> v \in e
    PROVE  d = e
<1> DEFINE i == In(-u, d)
           j == In(-v, d)
           p == In(-w, d)
           q == In(-w, e)
<1>1. i = In(-u, e) /\ j = In(-v, e)
  BY DEF In, Signed
<1>2. i \in 0..1 /\ j \in 0..1 /\ p \in 0..1 /\ q \in 0..1
  BY DEF In
<1>3. Negatives(d) = i + j + p /\ Negatives(e) = i + j + q
  BY <1>1 DEF Signed
<1>4. (p = 1 <=> -w \in d) /\ (q = 1 <=> -w \in e)
  BY DEF In
<1> HIDE DEF i, j, p, q
<1>5. p = q
  BY <1>2, <1>3
<1>6. -w \in d <=> -w \in e
  BY <1>4, <1>5
<1>7. (w \in d <=> w \in e) /\ (-u \in d <=> -u \in e) /\ (-v \in d <=> -v \in e)
  BY <1>6 DEF Signed
<1>8. d \subseteq {u, -u, v, -v, w, -w} /\ e \subseteq {u, -u, v, -v, w, -w}
  BY DEF Signed
<1>9. \A l \in {u, -u, v, -v, w, -w} : l \in d <=> l \in e
  BY <1>6, <1>7
<1>10. \A l : l \in d <=> l \in e
  BY <1>8, <1>9
<1>11. QED
  BY <1>10

\* The clauses that make a parity of c: of its size, variables and sign.
Alike(clauses, c) ==
    {d \in clauses : /\ Cardinality(d) = 3 /\ Vars({d}) = Vars({c})
                     /\ Negatives(d) % 2 = Negatives(c) % 2}

\* One of S is false under B, as far as u and v go.
Found(S, u, v, B) == \E d \in S : (u \in d <=> u \notin B) /\ (v \in d <=> v \notin B)

\* With four of them, one has any two signs there are.
LEMMA SignsFound ==
    ASSUME NEW u \in Nat \ {0}, NEW v \in Nat \ {0}, NEW w \in Nat \ {0},
           NEW S, Cardinality(S) = 4, NEW e, \A d \in S : Signed(d, u, v, w) /\ Negatives(d) % 2 = e, NEW B
    PROVE  Found(S, u, v, B)
<1> DEFINE F == {d \in S : (u \in d <=> u \in B) /\ (v \in d <=> v \in B)}
           G == {d \in S : (u \in d <=> u \in B) /\ (v \in d <=> v \notin B)}
           H == {d \in S : (u \in d <=> u \notin B) /\ (v \in d <=> v \in B)}
<1>1. ASSUME NEW d \in S, NEW g \in S, u \in d <=> u \in g, v \in d <=> v \in g PROVE d = g
  BY <1>1, SignedSame
<1>2. \A d, g \in F : d = g
  BY <1>1
<1>3. \A d, g \in G : d = g
  BY <1>1
<1>4. \A d, g \in H : d = g
  BY <1>1
<1>5. SUFFICES ASSUME ~\E d \in S : (u \in d <=> u \notin B) /\ (v \in d <=> v \notin B)
               PROVE  FALSE
  BY DEF Found
<1>6. \A d \in S : d \in F \/ d \in G \/ d \in H
  BY <1>5
<1> HIDE DEF F, G, H
<1>7. PICK a : F \subseteq {a}
  BY <1>2
<1>8. PICK b : G \subseteq {b}
  BY <1>3
<1>9. PICK g : H \subseteq {g}
  BY <1>4
<1>10. S \in SUBSET {a, b, g}
  BY <1>6, <1>7, <1>8, <1>9
<1>11. IsFiniteSet({a, b, g}) /\ Cardinality({a, b, g}) \in Nat /\ Cardinality({a, b, g}) <= 3
  BY SmallSets
<1>12. IsFiniteSet(S) /\ Cardinality(S) <= Cardinality({a, b, g})
  BY <1>10, <1>11, FS_Subset
<1>13. QED
  BY <1>11, <1>12

\* How many variables hold, when one clause with opposite signs of two of them does.
LEMMA SignsCount ==
    ASSUME NEW u \in Nat \ {0}, NEW v \in Nat \ {0}, NEW w \in Nat \ {0}, u # v, u # w, v # w,
           NEW d, Signed(d, u, v, w), NEW B, Sat(B, d), u \in d <=> u \notin B, v \in d <=> v \notin B
    PROVE  /\ Cardinality(B \cap {u, v, w}) \in Nat /\ Negatives(d) \in Nat
           /\ Cardinality(B \cap {u, v, w}) % 2 = (Negatives(d) + 1) % 2
<1>1. PICK l \in d : Holds(l, B)
  BY DEF Sat
<1>2. -u # u /\ -v # v /\ -w # w /\ -(-u) = u /\ -(-v) = v /\ -(-w) = w /\ u > 0 /\ v > 0 /\ w > 0
        /\ ~(-u > 0) /\ ~(-v > 0) /\ ~(-w > 0)
  OBVIOUS
<1>3. (Holds(u, B) <=> u \in B) /\ (Holds(-u, B) <=> u \notin B) /\ (Holds(v, B) <=> v \in B)
        /\ (Holds(-v, B) <=> v \notin B) /\ (Holds(w, B) <=> w \in B) /\ (Holds(-w, B) <=> w \notin B)
  BY <1>2 DEF Holds
<1>4. (u \in d <=> -u \notin d) /\ (v \in d <=> -v \notin d) /\ (w \in d <=> -w \notin d) /\ l \in {u, -u, v, -v, w, -w}
  BY <1>1 DEF Signed
<1>5. l = w \/ l = -w
  BY <1>1, <1>3, <1>4
<1>6. w \in d <=> w \in B
  BY <1>1, <1>3, <1>4, <1>5
<1> DEFINE X == B \cap {u, v, w}
<1>13. X \in SUBSET {u, v, w} /\ u # v /\ u # w /\ v # w
  OBVIOUS
<1> HIDE DEF X
<1>16. CountedThree(X, u, v, w)
  BY <1>13, BitsCount
<1>14. Cardinality(X) = In(u, X) + In(v, X) + In(w, X)
  BY <1>16 DEF CountedThree
<1>15. (u \in X <=> u \in B) /\ (v \in X <=> v \in B) /\ (w \in X <=> w \in B)
  BY DEF X
<1> DEFINE i == In(u, X)
           j == In(v, X)
           k == In(w, X)
           p == In(-u, d)
           q == In(-v, d)
           r == In(-w, d)
<1>7. Cardinality(X) = i + j + k
  BY <1>14
<1>8. Negatives(d) = p + q + r
  BY DEF Signed
<1>9. i \in 0..1 /\ j \in 0..1 /\ k \in 0..1
  BY DEF In
<1>10. p = i /\ q = j /\ r = 1 - k
  BY <1>4, <1>6, <1>15 DEF In
<1> HIDE DEF i, j, k, p, q, r
<1>11. Cardinality(X) \in Nat /\ Negatives(d) \in Nat /\ Cardinality(X) % 2 = (Negatives(d) + 1) % 2
  <2>1. Cardinality(X) = i + j + k /\ Negatives(d) = i + j + (1 - k)
    BY <1>7, <1>8, <1>10
  <2>2. Cardinality(X) \in Nat /\ Negatives(d) \in Nat
    BY <1>9, <2>1
  <2>3. (i + j + k) % 2 = (i + j + (1 - k) + 1) % 2
    BY <1>9
  <2>4. QED
    BY <2>1, <2>2, <2>3
<1>12. QED
  BY <1>11 DEF X

\* B gives the sum of gate c.
SumOne(B, c) ==
    /\ Cardinality(B \cap Vars({c})) \in Nat /\ IsFiniteSet(B \cap Vars({c})) /\ Negatives(c) \in Nat
    /\ Cardinality(B \cap Vars({c})) % 2 = (Negatives(c) + 1) % 2

\* All four clauses of a parity: c is one of them.
LEMMA ParityOne ==
    ASSUME NEW n \in Nat, NEW clauses \in SUBSET SUBSET Literals(n), NEW B, \A d \in clauses : Sat(B, d),
           NEW c \in InputXors(clauses), Proper(c)
    PROVE  SumOne(B, c)
<1>1. /\ IsFiniteSet(Literals(n)) /\ Literals(n) \in SUBSET (Int \ {0})
      /\ \A l \in Literals(n) : -l \in Literals(n)
  BY LiteralsFinite
<1>2. c \in clauses /\ Cardinality(c) = 3 /\ Cardinality(Alike(clauses, c)) = 4
  BY DEF InputXors, Alike
<1>3. \A d \in clauses : d \in SUBSET Literals(n) /\ d \in SUBSET (Int \ {0})
  BY <1>1
<1>4. ASSUME NEW d \in clauses PROVE IsFiniteSet(d)
  <2>1. d \in SUBSET Literals(n)
    BY <1>3
  <2>2. QED
    BY <1>1, <2>1, FS_Subset
<1>5. PICK x, y, z : c = {x, y, z} /\ x # y /\ x # z /\ y # z
  BY <1>2, <1>4, ThreeElements
<1>6. x \in Int \ {0} /\ y \in Int \ {0} /\ z \in Int \ {0}
  BY <1>2, <1>3, <1>5
<1>7. \A l \in c : -l \notin c
  <2>1. \A l \in c : l \in Int /\ -(-l) = l
    BY <1>2, <1>3
  <2>2. QED
    BY <2>1 DEF Proper, Neg
<1> DEFINE u == Var(x)
           v == Var(y)
           w == Var(z)
<1>8. u \in Nat \ {0} /\ v \in Nat \ {0} /\ w \in Nat \ {0}
  BY <1>6 DEF Var
<1>9. -x \notin c /\ -y \notin c /\ -z \notin c
  BY <1>5, <1>7
<1>10. x # -y /\ x # -z /\ y # -z
  BY <1>5, <1>9
<1>11. u # v /\ u # w /\ v # w
  BY <1>5, <1>6, <1>10 DEF Var
<1>12. Vars({c}) = {u, v, w}
  BY <1>5 DEF Vars
<1> HIDE DEF u, v, w
<1> DEFINE S == Alike(clauses, c)
           e == Negatives(c) % 2
<1>13. \A d \in S : d \in clauses /\ Cardinality(d) = 3 /\ Vars({d}) = {u, v, w} /\ Negatives(d) % 2 = e
  BY <1>12 DEF Alike
<1>14. Cardinality(S) = 4
  BY <1>2
<1>15. c \in S
  BY <1>2 DEF Alike
<1> HIDE DEF S, e
<1>16. ASSUME NEW d \in S PROVE Signed(d, u, v, w) /\ Negatives(d) % 2 = e
  BY <1>3, <1>4, <1>8, <1>11, <1>13, TernarySigned
<1>25. Found(S, u, v, B)
  BY <1>8, <1>14, <1>16, SignsFound
<1>17. PICK d \in S : (u \in d <=> u \notin B) /\ (v \in d <=> v \notin B)
  BY <1>25 DEF Found
<1>18. Signed(d, u, v, w) /\ Sat(B, d)
  BY <1>13, <1>16
<1>19. /\ Cardinality(B \cap {u, v, w}) \in Nat /\ Negatives(d) \in Nat
       /\ Cardinality(B \cap {u, v, w}) % 2 = (Negatives(d) + 1) % 2
  BY <1>8, <1>11, <1>17, <1>18, SignsCount
<1>20. Negatives(c) \in Nat
  <2>1. IsNeg(x) \in Nat /\ IsNeg(y) \in Nat /\ IsNeg(z) \in Nat
    BY DEF IsNeg
  <2>2. Negatives({x, y, z}) = IsNeg(x) + IsNeg(y) + IsNeg(z)
    BY <1>5, NegativesOf
  <2>3. QED
    BY <1>5, <2>1, <2>2
<1>21. Negatives(d) % 2 = Negatives(c) % 2
  BY <1>13 DEF e
<1>22. (Negatives(d) + 1) % 2 = (Negatives(c) + 1) % 2
  BY <1>19, <1>20, <1>21
<1>23. IsFiniteSet(B \cap {u, v, w})
  <2>1. IsFiniteSet({u, v, w}) /\ B \cap {u, v, w} \in SUBSET {u, v, w}
    BY SmallSets
  <2>2. QED
    BY <2>1, FS_Subset
<1>24. QED
  BY <1>12, <1>19, <1>20, <1>22, <1>23 DEF SumOne

\* The variables of an odd number of gates, and the gates that stand for an odd sum.
OddVars(W, G) == {v \in W : Cardinality({c \in G : v \in Vars({c})}) % 2 = 1}
OddSums(G) == {c \in G : Negatives(c) % 2 = 0}

\* B gives the sum of the gates G.
Sums(B, W, G) ==
    /\ IsFiniteSet(B \cap OddVars(W, G)) /\ IsFiniteSet(OddSums(G))
    /\ Cardinality(B \cap OddVars(W, G)) \in Nat /\ Cardinality(OddSums(G)) \in Nat
    /\ Cardinality(B \cap OddVars(W, G)) % 2 = Cardinality(OddSums(G)) % 2

\* One more gate.
LEMMA OneGate ==
    ASSUME NEW B, NEW W, NEW G, IsFiniteSet(G), Sums(B, W, G), NEW c, c \notin G, SumOne(B, c), Vars({c}) \subseteq W
    PROVE  Sums(B, W, G \cup {c})
<1> DEFINE H == G \cup {c}
           V == Vars({c})
           odd == OddVars(W, G)
           new == OddVars(W, H)
<1>1. ASSUME NEW v \in W PROVE v \in new <=> (v \in odd /\ v \notin V) \/ (v \notin odd /\ v \in V)
  <2> DEFINE X == {d \in G : v \in Vars({d})}
             Y == {d \in H : v \in Vars({d})}
  <2>1. IsFiniteSet(X) /\ Cardinality(X) \in Nat
    <3>1. X \in SUBSET G
      OBVIOUS
    <3>2. IsFiniteSet(X)
      BY <3>1, FS_Subset
    <3>3. QED
      BY <3>2, FS_CardinalityType
  <2>2. (v \in odd <=> Cardinality(X) % 2 = 1) /\ (v \in new <=> Cardinality(Y) % 2 = 1)
    BY DEF OddVars
  <2>3. CASE v \in V
    <3>1. Y = X \cup {c} /\ c \notin X
      BY <2>3
    <3> HIDE DEF X, Y
    <3>2. Cardinality(Y) = Cardinality(X) + 1
      BY <2>1, <3>1, FS_AddElement
    <3> DEFINE x == Cardinality(X)
    <3>3. (x + 1) % 2 = 1 <=> ~(x % 2 = 1)
      <4>1. x \in Nat
        BY <2>1
      <4> HIDE DEF x
      <4>2. QED
        BY <4>1
    <3>4. v \in new <=> v \notin odd
      BY <2>2, <3>2, <3>3
    <3>5. QED
      BY <2>3, <3>4
  <2>4. CASE v \notin V
    <3>1. Y = X
      BY <2>4
    <3>2. QED
      BY <2>2, <2>4, <3>1
  <2>5. QED
    BY <2>3, <2>4
<1>2. new \subseteq W /\ odd \subseteq W
  BY DEF OddVars
<1> DEFINE X == B \cap odd
           Y == B \cap V
           Z == B \cap new
<1>3. Z = (X \ Y) \cup (Y \ X)
  <2> HIDE DEF new, odd, V
  <2>1. V \subseteq W
    BY DEF V
  <2>2. \A v : v \in Z <=> v \in (X \ Y) \cup (Y \ X)
    BY <1>1, <1>2, <2>1
  <2>3. QED
    BY <2>2
<1>4. IsFiniteSet(X) /\ IsFiniteSet(Y)
  BY DEF Sums, SumOne
<1> DEFINE x == Cardinality(X)
           y == Cardinality(Y)
           z == Cardinality(Z)
           m == Negatives(c)
           e == Cardinality(OddSums(G))
           f == Cardinality(OddSums(H))
<1>5. /\ IsFiniteSet(Z) /\ x \in Nat /\ y \in Nat /\ z \in Nat
      /\ z % 2 = (x + y) % 2
  <2> HIDE DEF X, Y, Z
  <2>1. QED
    BY <1>3, <1>4, ParityAdds
<1>6. IsFiniteSet(OddSums(G)) /\ e \in Nat /\ x % 2 = e % 2
  BY DEF Sums
<1>7. m \in Nat /\ y % 2 = (m + 1) % 2
  BY DEF SumOne
<1>8. IsFiniteSet(OddSums(H)) /\ f = IF m % 2 = 0 THEN e + 1 ELSE e
  <2>1. CASE m % 2 = 0
    <3>1. OddSums(H) = OddSums(G) \cup {c} /\ c \notin OddSums(G)
      BY <2>1 DEF OddSums
    <3>2. IsFiniteSet(OddSums(G) \cup {c}) /\ Cardinality(OddSums(G) \cup {c}) = Cardinality(OddSums(G)) + 1
      BY <1>6, <3>1, FS_AddElement
    <3>3. QED
      BY <2>1, <3>1, <3>2
  <2>2. CASE m % 2 # 0
    <3>1. OddSums(H) = OddSums(G)
      BY <2>2 DEF OddSums
    <3>2. QED
      BY <1>6, <2>2, <3>1
  <2>3. QED
    BY <2>1, <2>2
<1> HIDE DEF x, y, z, m, e, f
<1>9. f \in Nat /\ z % 2 = f % 2
  <2>1. CASE m % 2 = 0
    <3>1. f = e + 1 /\ (m + 1) % 2 = 1
      BY <1>7, <1>8, <2>1
    <3>2. QED
      BY <1>5, <1>6, <1>7, <3>1
  <2>2. CASE m % 2 # 0
    <3>1. f = e /\ (m + 1) % 2 = 0
      BY <1>7, <1>8, <2>2
    <3>2. QED
      BY <1>5, <1>6, <1>7, <3>1
  <2>3. QED
    BY <2>1, <2>2
<1>10. QED
  BY <1>5, <1>8, <1>9 DEF Sums, z, f

\* So B gives the sum of all gates.
LEMMA GatesSum ==
    ASSUME NEW B, NEW W, NEW C, IsFiniteSet(C), \A c \in C : SumOne(B, c) /\ Vars({c}) \subseteq W
    PROVE  Sums(B, W, C)
<1> DEFINE N == Cardinality(C)
           T == {k \in Nat : \A G \in SUBSET C : Cardinality(G) = k => Sums(B, W, G)}
<1>1. N \in Nat
  BY FS_CardinalityType
<1>2. \A G \in SUBSET C : IsFiniteSet(G) /\ Cardinality(G) \in Nat
  <2>1. TAKE G \in SUBSET C
  <2>2. IsFiniteSet(G)
    BY FS_Subset
  <2>3. QED
    BY <2>2, FS_CardinalityType
<1>3. 0 \in T
  <2>1. ASSUME NEW G \in SUBSET C, Cardinality(G) = 0 PROVE Sums(B, W, G)
    <3>1. G = {}
      BY <1>2, <2>1, FS_EmptySet
    <3>2. OddVars(W, {}) = {} /\ OddSums({}) = {}
      <4>1. \A v \in W : Cardinality({c \in {} : v \in Vars({c})}) = 0
        <5>1. TAKE v \in W
        <5>2. {c \in {} : v \in Vars({c})} = {}
          OBVIOUS
        <5>3. QED
          BY <5>2, SmallSets
      <4>2. QED
        BY <4>1 DEF OddVars, OddSums
    <3>3. B \cap OddVars(W, {}) = {}
      BY <3>2
    <3>4. QED
      BY <3>1, <3>2, <3>3, SmallSets DEF Sums
  <2>2. QED
    BY <2>1
<1>4. ASSUME NEW k \in 0..N - 1, k \in T PROVE k + 1 \in T
  <2>1. ASSUME NEW G \in SUBSET C, Cardinality(G) = k + 1 PROVE Sums(B, W, G)
    <3>1. G # {}
      <4>1. Cardinality({}) = 0
        BY SmallSets
      <4>2. k + 1 # 0
        BY <1>1
      <4>3. QED
        BY <2>1, <4>1, <4>2
    <3>2. PICK c \in G : TRUE
      BY <3>1
    <3> DEFINE H == G \ {c}
    <3>3. IsFiniteSet(H) /\ Cardinality(H) = Cardinality(G) - 1
      BY <1>2, <3>2, FS_RemoveElement
    <3>4. H \in SUBSET C /\ c \notin H /\ G = H \cup {c} /\ c \in C
      BY <3>2
    <3> HIDE DEF H
    <3>5. Cardinality(H) = k
      BY <1>1, <2>1, <3>3
    <3>6. Sums(B, W, H)
      BY <1>4, <3>4, <3>5
    <3>7. Sums(B, W, H \cup {c})
      BY <3>3, <3>4, <3>6, OneGate
    <3>8. QED
      BY <3>4, <3>7
  <2>2. k + 1 \in Nat
    BY <1>1
  <2>3. QED
    BY <2>1, <2>2
<1>5. 0..N \subseteq T
  <2> HIDE DEF T, N
  <2>1. QED
    BY <1>1, <1>3, <1>4, UpTo
<1>6. N \in T
  BY <1>1, <1>5
<1>7. QED
  BY <1>6

\* B gives the sum q.
SumIs(B, q) == IsFiniteSet(B \cap q.vars) /\ Cardinality(B \cap q.vars) % 2 = q.parity

\* The variables that are set at level 0 are taken out of the sum.
LEMMA RootsTaken ==
    ASSUME NEW n \in Nat, NEW B, NEW roots \in SUBSET Literals(n), \A l \in roots : Holds(l, B),
           NEW odd \in SUBSET (1..n), IsFiniteSet(B \cap odd), NEW even \in Nat,
           Cardinality(B \cap odd) % 2 = even % 2,
           NEW q, q = [vars |-> odd \ (odd \cap Vars({roots})),
                       parity |-> (even + Cardinality((odd \cap Vars({roots})) \cap roots)) % 2]
    PROVE  SumIs(B, q)
<1> DEFINE rooted == odd \cap Vars({roots})
           X == B \cap (odd \ rooted)
           Y == B \cap rooted
<1>1. ASSUME NEW v \in rooted PROVE v \in B <=> v \in roots
  <2>1. v \in 1..n /\ v \in Vars({roots})
    OBVIOUS
  <2>2. PICK l \in roots : v = Var(l)
    BY <2>1 DEF Vars
  <2>3. v \in Int /\ v > 0 /\ l \in Int
    BY <2>1 DEF Literals
  <2>4. l = v \/ l = -v
    BY <2>2, <2>3 DEF Var
  <2>5. ~(-v > 0) /\ -(-v) = v
    BY <2>3
  <2>6. (Holds(v, B) <=> v \in B) /\ (Holds(-v, B) <=> v \notin B)
    BY <2>3, <2>5 DEF Holds
  <2>7. v \in roots => v \in B
    BY <2>6
  <2>8. v \in B => l = v
    BY <2>4, <2>6
  <2>9. QED
    BY <2>7, <2>8
<1>2. Y = rooted \cap roots
  <2> HIDE DEF rooted
  <2>1. QED
    BY <1>1
<1>3. B \cap odd = X \cup Y /\ X \cap Y = {} /\ X \in SUBSET (B \cap odd) /\ Y \in SUBSET (B \cap odd)
  <2>1. rooted \subseteq odd
    OBVIOUS
  <2> HIDE DEF rooted
  <2>2. QED
    BY <2>1
<1>4. q.vars = odd \ rooted /\ q.parity = (even + Cardinality(rooted \cap roots)) % 2
  OBVIOUS
<1> HIDE DEF X, Y, rooted
<1>5. IsFiniteSet(X) /\ IsFiniteSet(Y)
  BY <1>3, FS_Subset
<1> DEFINE x == Cardinality(X)
           y == Cardinality(Y)
           z == Cardinality(X \cup Y)
<1>6. x \in Nat /\ y \in Nat
  BY <1>5, FS_CardinalityType
<1>7. z = x + y
  <2>1. z = x + y - Cardinality(X \cap Y)
    BY <1>5, FS_Union
  <2>2. Cardinality(X \cap Y) = 0
    BY <1>3, SmallSets
  <2> HIDE DEF x, y, z
  <2>3. QED
    BY <1>6, <2>1, <2>2
<1>8. z % 2 = even % 2
  BY <1>3
<1>9. q.parity = (even + y) % 2
  BY <1>2, <1>4
<1> HIDE DEF x, y, z
<1>10. x % 2 = (even + y) % 2
  <2>1. (x + y) % 2 = even % 2
    BY <1>7, <1>8
  <2>2. (even + y) % 2 = ((x + y) + y) % 2
    BY <1>6, <2>1
  <2>3. ((x + y) + y) % 2 = x % 2
    <3>1. (x + y) + y = x + 2 * y
      BY <1>6
    <3>2. (x + 2 * y) % 2 = x % 2
      BY <1>6
    <3>3. QED
      BY <3>1, <3>2
  <2>4. QED
    BY <2>2, <2>3
<1>11. X = B \cap q.vars
  BY <1>4 DEF X
<1>12. QED
  BY <1>5, <1>9, <1>10, <1>11 DEF SumIs, x

\* The clauses of a cone are finitely many, finite, and over the variables 1..n.
LEMMA ConeFinite ==
    ASSUME NEW n \in Nat, NEW cone, ConeTyped(cone, n)
    PROVE  /\ IsFiniteSet(ConeClauses(cone))
           /\ \A c \in ConeClauses(cone) : c \in SUBSET Literals(n) /\ Vars({c}) \subseteq Vars(ConeClauses(cone))
           /\ Vars(ConeClauses(cone)) \subseteq 1..n
<1>1. /\ IsFiniteSet(Literals(n)) /\ \A l \in Literals(n) : Var(l) \in 1..n
  BY LiteralsFinite
<1>2. ConeClauses(cone) \in SUBSET SUBSET Literals(n)
  BY DEF ConeTyped
<1>3. IsFiniteSet(SUBSET Literals(n))
  BY <1>1, FS_SUBSET
<1>4. IsFiniteSet(ConeClauses(cone))
  BY <1>2, <1>3, FS_Subset
<1>5. Vars(ConeClauses(cone)) \subseteq 1..n
  BY <1>1, <1>2 DEF Vars
<1>6. \A c \in ConeClauses(cone) : c \in SUBSET Literals(n) /\ Vars({c}) \subseteq Vars(ConeClauses(cone))
  BY <1>2 DEF Vars
<1>7. QED
  BY <1>4, <1>5, <1>6

\* The sum of a cone of gates of the input is right.
LEMMA OfflineSum ==
    ASSUME NEW n \in Nat, NEW cone, ConeTyped(cone, n), NEW B, Bears(B, cone, n),
           NEW clauses \in SUBSET SUBSET Literals(n), \A c \in clauses : Sat(B, c),
           \A c \in ConeClauses(cone) : Proper(c),
           NEW q, q = ConeParity(TRUE, InputXors(clauses), cone), q.vars # {}
    PROVE  SumIs(B, q)
<1> DEFINE C == ConeClauses(cone)
           W == Vars(C)
           odd == OddVars(W, C)
           even == Cardinality(OddSums(C))
           roots == cone.roots
           p == [vars |-> odd \ (odd \cap Vars({roots})),
                 parity |-> (even + Cardinality((odd \cap Vars({roots})) \cap roots)) % 2]
<1>1. /\ IsFiniteSet(C)
      /\ \A c \in C : c \in SUBSET Literals(n) /\ Vars({c}) \subseteq W
      /\ W \subseteq 1..n
  BY ConeFinite
<1>2. q = NoParity \/ (q = p /\ \A c \in C : c \in InputXors(clauses))
  BY DEF ConeParity, OddVars, OddSums
<1>3. q # NoParity
  <2>1. NoParity.vars = {}
    BY DEF NoParity
  <2>2. QED
    BY <2>1
<1>4. ASSUME NEW c \in C PROVE SumOne(B, c)
  <2>1. c \in InputXors(clauses) /\ Proper(c)
    BY <1>2, <1>3
  <2>2. QED
    BY <2>1, ParityOne
<1>5. Sums(B, W, C)
  <2> HIDE DEF C, W
  <2>1. QED
    BY <1>1, <1>4, GatesSum
<1>6. odd \subseteq 1..n
  BY <1>1 DEF OddVars
<1>7. roots \in SUBSET Literals(n) /\ \A l \in roots : Holds(l, B)
  BY DEF Bears
<1>8. IsFiniteSet(B \cap odd) /\ even \in Nat /\ Cardinality(B \cap odd) % 2 = even % 2
  BY <1>5 DEF Sums
<1>9. SumIs(B, p)
  <2> HIDE DEF odd, even, roots
  <2>1. odd \in SUBSET (1..n)
    BY <1>6
  <2>2. QED
    BY <1>7, <1>8, <2>1, RootsTaken
<1>10. QED
  BY <1>2, <1>3, <1>9

\* So is the sum of any other cone: it is checked on all that satisfies the cone.
LEMMA OnlineSum ==
    ASSUME NEW n \in Nat, NEW cone, ConeTyped(cone, n), NEW B, Bears(B, cone, n), NEW xors,
           NEW q, q = ConeParity(FALSE, xors, cone), EntailsParity(cone, q.vars, q.parity)
    PROVE  SumIs(B, q)
<1> DEFINE C == ConeClauses(cone)
           K == Kernel(cone)
           A == B \cap Vars(K)
           G == {c \in C : c \cap cone.roots = {}}
           odd == {v \in Vars(C) : Cardinality({c \in G : v \in Vars({WithoutRoots(cone, c)})}) % 2 = 1}
<1>1. /\ \A c \in C : c \in SUBSET Literals(n)
      /\ Vars(C) \subseteq 1..n
  BY ConeFinite
<1>2. q.vars \subseteq odd
  BY DEF ConeParity, NoParity
<1>3. ASSUME NEW v \in odd PROVE v \in Vars(K)
  <2> DEFINE X == {c \in G : v \in Vars({WithoutRoots(cone, c)})}
  <2>1. Cardinality(X) % 2 = 1
    OBVIOUS
  <2>2. X # {}
    <3> HIDE DEF X
    <3>1. Cardinality({}) % 2 = 0
      <4>1. Cardinality({}) = 0
        BY SmallSets
      <4>2. QED
        BY <4>1
    <3>2. X = {} => Cardinality(X) % 2 = 0
      BY <3>1
    <3>3. QED
      BY <2>1, <3>2
  <2>3. PICK c \in G : v \in Vars({WithoutRoots(cone, c)})
    BY <2>2
  <2>4. WithoutRoots(cone, c) \in K
    BY <2>3 DEF Kernel
  <2>5. QED
    BY <2>3, <2>4 DEF Vars
<1>4. ASSUME NEW c \in K PROVE Sat(A, c)
  <2>1. PICK d \in C : c = WithoutRoots(cone, d)
    BY DEF Kernel
  <2>2. Sat(B, d) /\ d \in SUBSET Literals(n)
    BY <1>1 DEF Bears
  <2>3. Sat(B, c) /\ c \in SUBSET Literals(n)
    BY <2>1, <2>2, RootsLeaveSat
  <2>4. c \in SUBSET (Int \ {0})
    BY <2>3, LiteralsFinite
  <2>5. \A l \in c : Var(l) \in Vars(K)
    BY DEF Vars
  <2>6. \A l \in c : Var(l) \in A <=> Var(l) \in B
    BY <2>5
  <2> HIDE DEF A, K
  <2>7. QED
    BY <2>3, <2>4, <2>6, SatDepends
<1>5. A \in Satisfying(K)
  BY <1>4 DEF Satisfying, Sat
<1>6. Cardinality(q.vars \cap A) % 2 = q.parity
  BY <1>5 DEF EntailsParity
<1>7. B \cap q.vars = q.vars \cap A
  <2> HIDE DEF K, odd
  <2>1. QED
    BY <1>2, <1>3
<1>8. IsFiniteSet(B \cap q.vars)
  <2>1. B \cap q.vars \in SUBSET (1..n)
    BY <1>1, <1>2
  <2>2. 1 \in Int /\ n \in Int
    OBVIOUS
  <2>3. IsFiniteSet(1..n)
    BY <2>2, FS_Interval
  <2>4. QED
    BY <2>1, <2>3, FS_Subset
<1>9. QED
  BY <1>6, <1>7, <1>8 DEF SumIs

\* A gate that is the sum of its inputs under D has all its clauses true.
LEMMA GateIsSum ==
    ASSUME NEW z \in Nat \ {0}, NEW a \in Nat \ {0}, NEW b \in Nat \ {0}, NEW D,
           z \in D <=> ~(a \in D <=> b \in D), NEW k \in 1..4
    PROVE  Sat(D, Range(Gate(z, a, b)[k]))
<1>1. \A v \in Nat \ {0} : (Holds(v, D) <=> v \in D) /\ (Holds(-v, D) <=> v \notin D)
  <2>1. TAKE v \in Nat \ {0}
  <2>2. v > 0 /\ -v \in Int /\ ~(-v > 0) /\ -(-v) = v
    OBVIOUS
  <2>3. QED
    BY <2>2 DEF Holds
<1>2. (Holds(z, D) <=> z \in D) /\ (Holds(-z, D) <=> z \notin D) /\ (Holds(a, D) <=> a \in D)
        /\ (Holds(-a, D) <=> a \notin D) /\ (Holds(b, D) <=> b \in D) /\ (Holds(-b, D) <=> b \notin D)
  BY <1>1
<1>3. Sat(D, {-z, a, b}) /\ Sat(D, {-z, -a, -b}) /\ Sat(D, {z, -a, b}) /\ Sat(D, {z, a, -b})
  BY <1>2 DEF Sat
<1>4. \A x, y, t : Range(<<x, y, t>>) = {x, y, t}
  BY DEF Range
<1>5. Gate(z, a, b)[1] = <<-z, a, b>> /\ Gate(z, a, b)[2] = <<-z, -a, -b>>
        /\ Gate(z, a, b)[3] = <<z, -a, b>> /\ Gate(z, a, b)[4] = <<z, a, -b>>
  BY DEF Gate
<1>6. k = 1 \/ k = 2 \/ k = 3 \/ k = 4
  OBVIOUS
<1>7. QED
  BY <1>3, <1>4, <1>5, <1>6

\* D gives p to the last two inputs.
Totals(D, a, b, p) == IF p = 1 THEN a \in D <=> b \notin D ELSE a \in D <=> b \in D

\* Then the clauses of the sum are true.
LEMMA SumIsTotal ==
    ASSUME NEW a \in Nat \ {0}, NEW b \in Nat \ {0}, NEW D, NEW p, Totals(D, a, b, p)
    PROVE  \A c \in Range(ChainSum(a, b, p)) : Sat(D, Range(c))
<1>1. \A v \in Nat \ {0} : (Holds(v, D) <=> v \in D) /\ (Holds(-v, D) <=> v \notin D)
  <2>1. TAKE v \in Nat \ {0}
  <2>2. v > 0 /\ -v \in Int /\ ~(-v > 0) /\ -(-v) = v
    OBVIOUS
  <2>3. QED
    BY <2>2 DEF Holds
<1>2. (Holds(a, D) <=> a \in D) /\ (Holds(-a, D) <=> a \notin D) /\ (Holds(b, D) <=> b \in D) /\ (Holds(-b, D) <=> b \notin D)
  BY <1>1
<1>3. \A x, y : Range(<<x, y>>) = {x, y}
  BY DEF Range
<1>4. CASE p = 1
  <2>1. Sat(D, {a, b}) /\ Sat(D, {-a, -b})
    BY <1>2, <1>4 DEF Sat, Totals
  <2>2. ChainSum(a, b, p) = << <<a, b>>, <<-a, -b>> >>
    BY <1>4 DEF ChainSum
  <2>3. Range(ChainSum(a, b, p)) = {<<a, b>>, <<-a, -b>>}
    BY <1>3, <2>2
  <2>4. QED
    BY <1>3, <2>1, <2>3
<1>5. CASE p # 1
  <2>1. Sat(D, {a, -b}) /\ Sat(D, {-a, b})
    BY <1>2, <1>5 DEF Sat, Totals
  <2>2. ChainSum(a, b, p) = << <<a, -b>>, <<-a, b>> >>
    BY <1>5 DEF ChainSum
  <2>3. Range(ChainSum(a, b, p)) = {<<a, -b>>, <<-a, b>>}
    BY <1>3, <2>2
  <2>4. QED
    BY <1>3, <2>1, <2>3
<1>6. QED
  BY <1>4, <1>5

\* Under D each new variable is the sum of the inputs of its gate, and the last one of all is p.
Carries(D, w, n, p) ==
    /\ \A i \in 1..Len(w) - 2 : n + i \in D <=> ~(Prev(w, n + 1, i) \in D <=> w[i + 1] \in D)
    /\ Totals(D, Prev(w, n + 1, Len(w) - 1), w[Len(w)], p)

\* Then all clauses of the chain are true.
LEMMA ChainHolds ==
    ASSUME NEW n \in Nat, NEW w \in Seq(1..n), Len(w) >= 2, NEW p, NEW D, Carries(D, w, n, p)
    PROVE  \A c \in Range(EncodeXorChain(w, p, n + 1)) : Sat(D, Range(c))
<1> DEFINE m == Len(w)
           Pre(i) == Prev(w, n + 1, i)
           s == ChainGates(w, n + 1)
           t == ChainSum(Pre(m - 1), w[m], p)
<1>1. m \in Nat /\ m >= 2 /\ \A i \in 1..m : w[i] \in 1..n /\ w[i] \in Nat \ {0}
  OBVIOUS
<1> HIDE DEF m
<1>2. ASSUME NEW i \in 1..m - 1 PROVE Pre(i) \in Nat \ {0}
  <2>1. w[1] \in Nat \ {0}
    BY <1>1
  <2>2. i # 1 => (n + 1) + i - 2 \in Nat \ {0}
    BY <1>1
  <2>3. QED
    BY <2>1, <2>2 DEF Prev
<1>3. ASSUME NEW i \in 1..m - 2, NEW k \in 1..4
      PROVE  Sat(D, Range(Gate((n + 1) + i - 1, Pre(i), w[i + 1])[k]))
  <2>1. i \in 1..m - 1 /\ i + 1 \in 1..m /\ (n + 1) + i - 1 = n + i /\ n + i \in Nat \ {0}
    BY <1>1
  <2>2. Pre(i) \in Nat \ {0} /\ w[i + 1] \in Nat \ {0}
    BY <1>1, <1>2, <2>1
  <2>3. n + i \in D <=> ~(Pre(i) \in D <=> w[i + 1] \in D)
    BY DEF Carries, m
  <2> HIDE DEF Pre
  <2>4. Sat(D, Range(Gate(n + i, Pre(i), w[i + 1])[k]))
    BY <2>1, <2>2, <2>3, GateIsSum
  <2>5. QED
    BY <2>1, <2>4
<1>4. s = [j \in 1..4 * (m - 2) |->
             Gate((n + 1) + ((j + 3) \div 4) - 1, Pre((j + 3) \div 4), w[((j + 3) \div 4) + 1])[((j - 1) % 4) + 1]]
  BY DEF ChainGates, m
<1>5. ASSUME NEW j \in 1..4 * (m - 2)
      PROVE  (j + 3) \div 4 \in 1..m - 2 /\ ((j - 1) % 4) + 1 \in 1..4
  <2>1. PICK l \in Nat : l = m - 2
    BY <1>1
  <2>2. j \in 1..4 * l
    BY <2>1
  <2>3. (j + 3) \div 4 \in 1..l /\ ((j - 1) % 4) + 1 \in 1..4
    BY <2>2
  <2>4. QED
    BY <2>1, <2>3
<1> HIDE DEF Pre, s
<1>6. ASSUME NEW c \in Range(s) PROVE Sat(D, Range(c))
  <2>1. PICK j \in 1..4 * (m - 2) : c = s[j]
    BY <1>4 DEF Range
  <2>2. PICK i \in 1..m - 2 : i = (j + 3) \div 4
    BY <1>5
  <2>3. PICK k \in 1..4 : k = ((j - 1) % 4) + 1
    BY <1>5
  <2>4. c = Gate((n + 1) + i - 1, Pre(i), w[i + 1])[k]
    BY <1>4, <2>1, <2>2, <2>3
  <2>5. QED
    BY <1>3, <2>4
<1>7. ASSUME NEW c \in Range(t) PROVE Sat(D, Range(c))
  <2>1. m - 1 \in 1..m - 1 /\ m \in 1..m
    BY <1>1
  <2>2. Pre(m - 1) \in Nat \ {0} /\ w[m] \in Nat \ {0}
    BY <1>1, <1>2, <2>1
  <2>3. Totals(D, Pre(m - 1), w[m], p)
    BY DEF Carries, m, Pre
  <2>4. QED
    BY <2>2, <2>3, SumIsTotal
<1>8. EncodeXorChain(w, p, n + 1) = s \o t
  BY ChainParts DEF m, s, Pre
<1>9. Range(s \o t) = Range(s) \cup Range(t)
  <2> DEFINE T == Range(s) \cup Range(t)
  <2>1. s \in Seq(T)
    <3>1. 4 * (m - 2) \in Nat
      BY <1>1
    <3>2. s \in [1..4 * (m - 2) -> Range(s)]
      BY <1>4 DEF Range
    <3>3. s \in [1..4 * (m - 2) -> T]
      BY <3>2
    <3> HIDE DEF T
    <3>4. QED
      BY <3>1, <3>3, IsASeq
  <2>2. t \in Seq(T)
    <3>1. \A x, y : <<x, y>> \in Seq(Range(<<x, y>>))
      BY DEF Range
    <3>2. \E x, y : t = <<x, y>>
      BY DEF ChainSum
    <3>3. t \in Seq(Range(t))
      <4> HIDE DEF t
      <4>1. QED
        BY <3>1, <3>2
    <3> HIDE DEF t
    <3>4. QED
      BY <3>3, SeqMonotonic
  <2> HIDE DEF T, t
  <2>3. QED
    BY <2>1, <2>2, RangeJoined
<1>10. QED
  BY <1>6, <1>7, <1>8, <1>9

\* The sums along a tuple of variables, and the assignment that has them for the new variables.
SumTo(B, w, i) == Cardinality({w[j] : j \in 1..i} \cap B) % 2
WithSums(B, w, n) == B \cup {n + i : i \in {k \in 1..Len(w) - 2 : SumTo(B, w, k + 1) = 1}}

\* Each sum comes from the one before.
LEMMA SumsFollow ==
    ASSUME NEW T, IsFiniteSet(T), NEW w \in Seq(T), \A i, j \in 1..Len(w) : i # j => w[i] # w[j], NEW B
    PROVE  /\ Len(w) >= 1 => (SumTo(B, w, 1) = 1 <=> w[1] \in B)
           /\ \A i \in 1..Len(w) - 1 : SumTo(B, w, i + 1) = 1 <=> ~(SumTo(B, w, i) = 1 <=> w[i + 1] \in B)
<1> DEFINE m == Len(w)
           P(i) == {w[j] : j \in 1..i} \cap B
<1>1. m \in Nat
  OBVIOUS
<1>2. Len(w) >= 1 => (SumTo(B, w, 1) = 1 <=> w[1] \in B)
  <2>1. {w[j] : j \in 1..1} = {w[1]}
    OBVIOUS
  <2>2. CASE w[1] \in B
    <3>1. {w[j] : j \in 1..1} \cap B = {w[1]}
      BY <2>1, <2>2
    <3>2. Cardinality({w[1]}) = 1
      BY FS_Singleton
    <3>3. SumTo(B, w, 1) = 1 % 2
      BY <3>1, <3>2 DEF SumTo
    <3>4. 1 % 2 = 1
      OBVIOUS
    <3>5. QED
      BY <2>2, <3>3, <3>4
  <2>3. CASE w[1] \notin B
    <3>1. {w[j] : j \in 1..1} \cap B = {}
      BY <2>1, <2>3
    <3>2. Cardinality({}) = 0
      BY SmallSets
    <3>3. SumTo(B, w, 1) = 0 % 2
      BY <3>1, <3>2 DEF SumTo
    <3>4. 0 % 2 = 0
      OBVIOUS
    <3>5. QED
      BY <2>3, <3>3, <3>4
  <2>4. QED
    BY <2>2, <2>3
<1>3. ASSUME NEW i \in 1..m - 1
      PROVE  SumTo(B, w, i + 1) = 1 <=> ~(SumTo(B, w, i) = 1 <=> w[i + 1] \in B)
  <2> DEFINE X == {w[j] : j \in 1..i}
             v == w[i + 1]
             x == Cardinality(X \cap B)
  <2>1. i \in Nat /\ i + 1 \in 1..m /\ 1..i + 1 = (1..i) \cup {i + 1} /\ \A j \in 1..i : j \in 1..m /\ j # i + 1
    BY <1>1
  <2>2. {w[j] : j \in 1..i + 1} = X \cup {v}
    <3>1. \A y : (\E j \in 1..i + 1 : y = w[j]) <=> ((\E j \in 1..i : y = w[j]) \/ y = v)
      BY <2>1
    <3>2. QED
      BY <3>1
  <2>3. v \notin X
    BY <2>1
  <2>4. IsFiniteSet(X \cap B)
    <3>1. X \in SUBSET T
      BY <2>1
    <3> HIDE DEF X
    <3>2. X \cap B \in SUBSET T
      BY <3>1
    <3>3. QED
      BY <3>2, FS_Subset
  <2>5. x \in Nat
    BY <2>4, FS_CardinalityType
  <2>6. SumTo(B, w, i) = x % 2
    BY DEF SumTo
  <2>7. SumTo(B, w, i + 1) = Cardinality((X \cup {v}) \cap B) % 2
    BY <2>2 DEF SumTo
  <2> HIDE DEF X, v
  <2>8. CASE v \in B
    <3>1. (X \cup {v}) \cap B = (X \cap B) \cup {v} /\ v \notin X \cap B
      BY <2>3, <2>8
    <3>2. Cardinality((X \cap B) \cup {v}) = x + 1
      BY <2>3, <2>4, FS_AddElement
    <3> HIDE DEF x
    <3>3. (x + 1) % 2 = 1 <=> ~(x % 2 = 1)
      BY <2>5
    <3>4. SumTo(B, w, i + 1) = 1 <=> ~(SumTo(B, w, i) = 1)
      BY <2>6, <2>7, <3>1, <3>2, <3>3
    <3>5. QED
      BY <2>8, <3>4 DEF v
  <2>9. CASE v \notin B
    <3>1. (X \cup {v}) \cap B = X \cap B
      BY <2>9
    <3>2. SumTo(B, w, i + 1) = SumTo(B, w, i)
      BY <2>6, <2>7, <3>1
    <3>3. QED
      BY <2>9, <3>2 DEF v
  <2>10. QED
    BY <2>8, <2>9
<1>4. QED
  BY <1>2, <1>3

\* The sum of m different variables is p; D has the sums up to there.
Summed(w, n, m, B, p) ==
    /\ w \in Seq(1..n) /\ Len(w) = m /\ \A i, j \in 1..Len(w) : i # j => w[i] # w[j]
    /\ SumTo(B, w, Len(w)) = p
HasSums(D, B, w, n, m, p) ==
    /\ D \in SUBSET (1..n + m - 2)
    /\ D \cap (1..n) = B
    /\ Carries(D, w, n, p)

\* This assignment carries the sum to the end.
LEMMA SumsCarry ==
    ASSUME NEW n \in Nat, NEW m \in Nat, m >= 2, NEW B \in SUBSET (1..n), NEW w, NEW p, Summed(w, n, m, B, p)
    PROVE  HasSums(WithSums(B, w, n), B, w, n, m, p)
<1> DEFINE D == WithSums(B, w, n)
           s == [i \in 1..m |-> SumTo(B, w, i)]
           Pre(i) == Prev(w, n + 1, i)
<1>0. w \in Seq(1..n) /\ Len(w) = m /\ \A i, j \in 1..Len(w) : i # j => w[i] # w[j]
  BY DEF Summed
<1>1. m \in Nat /\ m >= 2 /\ \A i \in 1..m : w[i] \in 1..n
  BY <1>0
<1>2. (s[1] = 1 <=> w[1] \in B) /\ \A i \in 1..m - 1 : s[i + 1] = 1 <=> ~(s[i] = 1 <=> w[i + 1] \in B)
  <2>1. IsFiniteSet(1..n)
    <3>1. 1 \in Int /\ n \in Int
      OBVIOUS
    <3>2. QED
      BY <3>1, FS_Interval
  <2>2. /\ Len(w) >= 1 => (SumTo(B, w, 1) = 1 <=> w[1] \in B)
        /\ \A i \in 1..Len(w) - 1 : SumTo(B, w, i + 1) = 1 <=> ~(SumTo(B, w, i) = 1 <=> w[i + 1] \in B)
    BY <1>0, <2>1, SumsFollow
  <2>3. \A i \in 1..m - 1 : i \in 1..m /\ i + 1 \in 1..m
    BY <1>1
  <2>4. 1 \in 1..m /\ Len(w) >= 1
    BY <1>0, <1>1
  <2>5. QED
    BY <1>0, <2>2, <2>3, <2>4
<1>3. s[m] = p
  BY <1>0, <1>1 DEF Summed
<1>4. D = B \cup {n + i : i \in {k \in 1..m - 2 : s[k + 1] = 1}}
  <2>1. \A k \in 1..m - 2 : s[k + 1] = SumTo(B, w, k + 1)
    BY <1>1
  <2>2. {k \in 1..m - 2 : s[k + 1] = 1} = {k \in 1..Len(w) - 2 : SumTo(B, w, k + 1) = 1}
    BY <1>0, <2>1
  <2>3. QED
    BY <2>2 DEF WithSums
<1> HIDE DEF D, s
<1>5. \A i \in 1..m - 2 : n + i \in D <=> s[i + 1] = 1
  <2>1. TAKE i \in 1..m - 2
  <2>2. n + i \notin B
    BY <1>1
  <2>3. \A k \in 1..m - 2 : n + k = n + i => k = i
    BY <1>1
  <2>4. QED
    BY <1>4, <2>2, <2>3
<1>6. \A v \in 1..n : v \in D <=> v \in B
  <2>1. \A v \in 1..n, i \in 1..m - 2 : v # n + i
    BY <1>1
  <2>2. QED
    BY <1>4, <2>1
<1>7. D \cap (1..n) = B
  BY <1>6
<1>8. D \in SUBSET (1..n + m - 2)
  <2>1. \A i \in 1..m - 2 : n + i \in 1..n + m - 2
    BY <1>1
  <2>2. \A v \in 1..n : v \in 1..n + m - 2
    BY <1>1
  <2>3. QED
    BY <1>4, <2>1, <2>2
<1>9. ASSUME NEW i \in 1..m - 1 PROVE Pre(i) \in D <=> s[i] = 1
  <2>1. CASE i = 1
    <3>1. Pre(i) = w[1] /\ w[1] \in 1..n
      BY <1>1, <2>1 DEF Prev
    <3>2. QED
      BY <1>2, <1>6, <2>1, <3>1
  <2>2. CASE i # 1
    <3>1. Pre(i) = (n + 1) + i - 2
      BY <2>2 DEF Prev
    <3>2. (n + 1) + i - 2 = n + (i - 1) /\ i - 1 \in 1..m - 2 /\ (i - 1) + 1 = i
      BY <1>1, <2>2
    <3>3. n + (i - 1) \in D <=> s[(i - 1) + 1] = 1
      BY <1>5, <3>2
    <3>4. QED
      BY <3>1, <3>2, <3>3
  <2>3. QED
    BY <2>1, <2>2
<1> HIDE DEF Pre
<1>10. ASSUME NEW i \in 1..m - 2 PROVE n + i \in D <=> ~(Pre(i) \in D <=> w[i + 1] \in D)
  <2>1. i \in 1..m - 1 /\ i + 1 \in 1..m
    BY <1>1
  <2>2. w[i + 1] \in D <=> w[i + 1] \in B
    BY <1>1, <1>6, <2>1
  <2>3. s[i + 1] = 1 <=> ~(s[i] = 1 <=> w[i + 1] \in B)
    BY <1>2, <2>1
  <2>4. Pre(i) \in D <=> s[i] = 1
    BY <1>9, <2>1
  <2>5. n + i \in D <=> s[i + 1] = 1
    BY <1>5
  <2>6. QED
    BY <2>2, <2>3, <2>4, <2>5
<1>11. Totals(D, Pre(m - 1), w[m], p)
  <2>1. m - 1 \in 1..m - 1 /\ m \in 1..m /\ (m - 1) + 1 = m
    BY <1>1
  <2>2. w[m] \in D <=> w[m] \in B
    BY <1>1, <1>6, <2>1
  <2>3. p = 1 <=> ~(s[m - 1] = 1 <=> w[m] \in B)
    BY <1>2, <1>3, <2>1
  <2>4. Pre(m - 1) \in D <=> s[m - 1] = 1
    BY <1>9, <2>1
  <2>5. QED
    BY <2>2, <2>3, <2>4 DEF Totals
<1>12. Carries(D, w, n, p)
  BY <1>0, <1>10, <1>11 DEF Carries, Pre
<1>13. QED
  BY <1>7, <1>8, <1>12 DEF D, HasSums

\* The names there are keep their meaning when variables are added.
LEMMA GatesKept ==
    ASSUME NEW h, HookTyped(h), NEW B, GatesHold(B, h.gates), NEW D, D \cap (1..h.next - 1) = B
    PROVE  GatesHold(D, h.gates)
<1> DEFINE n == h.next - 1
<1>1. n \in Nat
  BY DEF HookTyped
<1>2. \A l \in Literals(n) : Holds(l, D) <=> Holds(l, B)
  <2>1. D \cap (1..n) = B \cap (1..n)
    OBVIOUS
  <2> HIDE DEF n
  <2>2. QED
    BY <1>1, <2>1, HoldsSame
<1>3. ASSUME NEW p \in DOMAIN h.gates, h.gates[p] \in D PROVE \A l \in p : Holds(l, D)
  <2>1. h.gates[p] \in 1..n /\ p \in h.pairs
    BY DEF HookTyped
  <2>2. h.gates[p] \in B
    BY <1>3, <2>1
  <2>3. \A l \in p : Holds(l, B)
    BY <2>2 DEF GatesHold
  <2>4. PICK u \in Literals(n), v \in Literals(n) : p = {u, v}
    BY <2>1 DEF HookTyped
  <2>5. QED
    BY <1>2, <2>3, <2>4
<1>4. QED
  BY <1>3 DEF GatesHold

\* The sum along the tuple of all variables of q.
LEMMA SumOfAll ==
    ASSUME NEW n \in Nat, NEW q, q.vars \in SUBSET (1..n), NEW B, SumIs(B, q)
    PROVE  Summed(Tuple(q.vars), n, Cardinality(q.vars), B, q.parity)
<1> DEFINE V == q.vars
           w == Tuple(V)
<1>1. V \in SUBSET (Int \ {0}) /\ IsFiniteSet(V)
  <2>1. V \in SUBSET Literals(n)
    BY DEF Literals
  <2> HIDE DEF V
  <2>2. IsFiniteSet(Literals(n)) /\ Literals(n) \in SUBSET (Int \ {0})
    BY LiteralsFinite
  <2>3. QED
    BY <2>1, <2>2, FS_Subset
<1> HIDE DEF V
<1>2. /\ w \in Seq(V) /\ Range(w) = V /\ Len(w) = Cardinality(V)
      /\ \A i, j \in 1..Len(w) : i # j => w[i] # w[j]
  BY <1>1, TupleIsAll
<1>3. w \in Seq(1..n)
  <2>1. V \subseteq 1..n
    BY DEF V
  <2>2. QED
    BY <1>2, <2>1, SeqMonotonic
<1> HIDE DEF w
<1>4. {w[j] : j \in 1..Len(w)} = V
  BY <1>2, <1>3 DEF Range
<1>5. SumTo(B, w, Len(w)) = Cardinality(V \cap B) % 2
  BY <1>4 DEF SumTo
<1>6. V \cap B = B \cap V
  OBVIOUS
<1>7. Cardinality(B \cap V) % 2 = q.parity
  BY DEF SumIs, V
<1>8. SumTo(B, w, Len(w)) = q.parity
  BY <1>5, <1>6, <1>7
<1>9. QED
  BY <1>2, <1>3, <1>8 DEF V, w, Summed

\* What is learned is the first clause and a chain for the m variables of q.
ChainAdded(r, h, uip, q, m) ==
    /\ r.hook = [h EXCEPT !.next = @ + m - 2]
    /\ r.learn = <<Tuple(uip)>> \o EncodeXorChain(Tuple(q.vars), q.parity, h.next)

\* The chain of a sum that is right.
LEMMA ChainExtends ==
    ASSUME NEW h, HookTyped(h), NEW n \in Nat, h.next = n + 1,
           NEW uip \in SUBSET Literals(n), NEW B \in SUBSET (1..n), Sat(B, uip), GatesHold(B, h.gates),
           NEW q, NEW m \in Nat, m >= 2, Summed(Tuple(q.vars), n, m, B, q.parity),
           NEW r, ChainAdded(r, h, uip, q, m)
    PROVE  Extends(r, h, B)
<1> DEFINE w == Tuple(q.vars)
           e == EncodeXorChain(w, q.parity, n + 1)
           D == WithSums(B, w, n)
<1>1. n \in Nat /\ h.next = n + 1 /\ h.next \in Nat
  OBVIOUS
<1>14. Summed(w, n, m, B, q.parity)
  OBVIOUS
<1> HIDE DEF w
<1>2. /\ w \in Seq(1..n) /\ Len(w) = m
      /\ \A i, j \in 1..Len(w) : i # j => w[i] # w[j]
  BY <1>14 DEF Summed
<1>15. HasSums(D, B, w, n, m, q.parity)
  BY <1>14, SumsCarry
<1> HIDE DEF D
<1>3. D \in SUBSET (1..n + m - 2) /\ D \cap (1..n) = B /\ Carries(D, w, n, q.parity)
  BY <1>15 DEF HasSums
<1>4. \A c \in Range(e) : Sat(D, Range(c))
  BY <1>1, <1>2, <1>3, ChainHolds
<1>5. Sat(D, uip)
  <2>1. D \cap (1..n) = B \cap (1..n)
    BY <1>3
  <2>2. \A c \in SUBSET Literals(n) : Sat(D, c) <=> Sat(B, c)
    BY <1>1, <2>1, HoldsSame
  <2>3. QED
    BY <2>2
<1>6. Tuple(uip) \in Clauses(n) /\ Range(Tuple(uip)) = uip
  BY <1>1, TupleTyped
<1>7. Range(r.learn) = {Tuple(uip)} \cup Range(e)
  <2> DEFINE k == n + m - 2
             s == <<Tuple(uip)>>
             T == {Tuple(uip)} \cup Clauses(k)
  <2>1. k \in Nat /\ k = n + Len(w) - 2
    BY <1>1, <1>2
  <2>2. e \in Seq(Clauses(k))
    <3> HIDE DEF k
    <3>1. QED
      BY <1>1, <1>2, <2>1, ChainTyped
  <2> HIDE DEF k
  <2>3. e \in Seq(T)
    <3>1. Clauses(k) \subseteq T
      OBVIOUS
    <3> HIDE DEF T, e
    <3>2. QED
      BY <2>2, <3>1, SeqMonotonic
  <2>4. s \in Seq(T) /\ Range(s) = {Tuple(uip)}
    <3>1. Tuple(uip) \in T
      OBVIOUS
    <3> HIDE DEF T
    <3>2. QED
      BY <3>1 DEF Range
  <2>5. r.learn = s \o e
    BY <1>1 DEF w, ChainAdded
  <2> HIDE DEF s, e, T
  <2>6. Range(s \o e) = Range(s) \cup Range(e)
    BY <2>3, <2>4, RangeJoined
  <2>7. QED
    BY <2>4, <2>5, <2>6
<1> HIDE DEF e
<1>8. \A c \in Range(r.learn) : Sat(D, Range(c))
  BY <1>4, <1>5, <1>6, <1>7
<1>9. r.hook.next = n + m - 1 /\ r.hook.gates = h.gates
  <2>1. \A P, G, N, M : [[pairs |-> P, gates |-> G, next |-> N] EXCEPT !.next = M]
                            = [pairs |-> P, gates |-> G, next |-> M]
    OBVIOUS
  <2>2. h = [pairs |-> h.pairs, gates |-> h.gates, next |-> h.next]
    BY DEF HookTyped
  <2>3. r.hook = [h EXCEPT !.next = h.next + m - 2]
    BY DEF ChainAdded
  <2>4. r.hook = [pairs |-> h.pairs, gates |-> h.gates, next |-> h.next + m - 2]
    BY <2>1, <2>2, <2>3
  <2>5. h.next + m - 2 = n + m - 1
    BY <1>1
  <2>6. QED
    BY <2>4, <2>5
<1>10. D \in SUBSET (1..r.hook.next - 1)
  <2>1. r.hook.next - 1 = n + m - 2
    BY <1>9
  <2>2. QED
    BY <1>3, <2>1
<1>11. D \cap (1..h.next - 1) = B
  <2>1. h.next - 1 = n
    OBVIOUS
  <2>2. QED
    BY <1>3, <2>1
<1>12. GatesHold(D, r.hook.gates)
  BY <1>9, <1>11, GatesKept
<1>13. QED
  BY <1>8, <1>10, <1>11, <1>12 DEF Extends

\* XorLearn.
LEMMA XorExtends ==
    ASSUME NEW offline \in BOOLEAN, NEW h, HookTyped(h), NEW n \in Nat, h.next = n + 1,
           NEW cone, ConeTyped(cone, n), \A c \in ConeClauses(cone) : Proper(c),
           NEW uip \in SUBSET Literals(n), NEW B \in SUBSET (1..n), Bears(B, cone, n), Sat(B, uip), GatesHold(B, h.gates),
           NEW clauses \in SUBSET SUBSET Literals(n), \A c \in clauses : Sat(B, c),
           NEW r \in XorLearn(offline, InputXors(clauses), h, cone, uip)
    PROVE  Extends(r, h, B)
<1> DEFINE xors == InputXors(clauses)
           q == ConeParity(offline, xors, cone)
           m == Cardinality(q.vars)
<1>1. h.next - 1 = n
  OBVIOUS
<1>2. q.vars \in SUBSET (1..n) /\ m \in Nat
  BY <1>1, ParityTyped
<1>3. (r.hook = h /\ r.learn = <<Tuple(uip)>>) \/ XorAdds(r, h, offline, xors, cone, uip)
  BY <1>2, XorResult
<1>4. CASE r.hook = h /\ r.learn = <<Tuple(uip)>>
  BY <1>1, <1>4, OnlyExtends
<1>5. CASE XorAdds(r, h, offline, xors, cone, uip)
  <2>1. /\ m >= 2
        /\ offline \/ EntailsParity(cone, q.vars, q.parity)
        /\ r.learn = <<Tuple(uip)>> \o EncodeXorChain(Tuple(q.vars), q.parity, h.next)
        /\ r.hook = [h EXCEPT !.next = @ + m - 2]
    BY <1>5 DEF XorAdds
  <2>2. SumIs(B, q)
    <3>1. CASE offline
      <4>1. q = ConeParity(TRUE, InputXors(clauses), cone)
        BY <3>1
      <4>2. q.vars # {}
        <5>1. Cardinality({}) = 0 /\ ~(0 >= 2)
          BY SmallSets
        <5>2. q.vars = {} => m = 0
          BY <5>1
        <5> HIDE DEF q, m
        <5>3. QED
          BY <2>1, <5>1, <5>2
      <4> HIDE DEF q
      <4>3. QED
        BY <1>1, <4>1, <4>2, OfflineSum
    <3>2. CASE ~offline
      <4>1. q = ConeParity(FALSE, xors, cone) /\ EntailsParity(cone, q.vars, q.parity)
        BY <2>1, <3>2
      <4> HIDE DEF q, xors
      <4>2. QED
        BY <1>1, <4>1, OnlineSum
    <3>3. QED
      BY <3>1, <3>2
  <2> HIDE DEF q
  <2>3. Summed(Tuple(q.vars), n, m, B, q.parity)
    BY <1>2, <2>2, SumOfAll
  <2>5. ChainAdded(r, h, uip, q, m)
    BY <2>1 DEF ChainAdded
  <2> HIDE DEF m
  <2>4. QED
    BY <1>2, <2>1, <2>3, <2>5, ChainExtends
<1>6. QED
  BY <1>3, <1>4, <1>5

----------------------------------------------------------------------------
\* What the hook of the instance returns excludes no model.

\* Not both a literal and its negation are on the trail.
LEMMA TrailProper ==
    ASSUME NEW n \in Nat, NEW m \in Nat, NEW tr \in Seq(Entries(n, m)), Ordered(tr),
           NEW i \in 1..Len(tr), NEW j \in 1..Len(tr)
    PROVE  tr[i].lit # -tr[j].lit
<1>1. SUFFICES ASSUME tr[i].lit = -tr[j].lit PROVE FALSE
  OBVIOUS
<1>2. /\ tr[j].lit \in Literals(n) /\ tr[j].lit \in Int \ {0}
      /\ Len(tr) \in Nat /\ DOMAIN tr = 1..Len(tr)
  BY EntryTyped
<1>3. Var(tr[i].lit) = Var(tr[j].lit)
  BY <1>1, <1>2, LiteralsFinite
<1>4. i # j
  BY <1>1, <1>2
<1>5. i < j \/ j < i
  BY <1>2, <1>4
<1>6. QED
  BY <1>2, <1>3, <1>5 DEF Ordered

\* A clause that is false is no tautology ...
LEMMA FalseIsProper ==
    ASSUME NEW n \in Nat, NEW m \in Nat, NEW tr \in Seq(Entries(n, m)), Ordered(tr),
           NEW c \in SUBSET Literals(n), Neg(c) \subseteq Lits(tr)
    PROVE  Proper(c)
<1>1. SUFFICES ASSUME NEW l \in c, -l \in c PROVE FALSE
  <2>1. \A x \in c : -(-x) = x
    BY DEF Literals
  <2>2. QED
    BY <2>1 DEF Proper, Neg
<1>2. l \in Int \ {0} /\ -(-l) = l
  BY DEF Literals
<1>3. l \in Lits(tr) /\ -l \in Lits(tr)
  BY <1>1, <1>2 DEF Neg
<1>4. PICK i \in 1..Len(tr) : tr[i].lit = l
  BY <1>3, LitsTell
<1>5. PICK j \in 1..Len(tr) : tr[j].lit = -l
  BY <1>3, LitsTell
<1>6. QED
  BY <1>4, <1>5, TrailProper

\* ... and no more is a reason.
LEMMA ReasonIsProper ==
    ASSUME NEW n \in Nat, NEW tr, NEW clauses \in Seq(Clauses(n)), TrailFits(tr, clauses, n),
           NEW i \in 1..Len(tr), tr[i].why # Decision
    PROVE  Proper(Range(clauses[tr[i].why]))
<1> DEFINE c == Range(clauses[tr[i].why])
<1>1. c \in SUBSET Literals(n) /\ \A l \in c \ {tr[i].lit} : \E j \in 1..i - 1 : tr[j].lit = -l
  <2>1. Supported(tr, clauses, n, i)
    BY ReasonSupports
  <2>2. QED
    BY <2>1 DEF Supported
<1>2. tr \in Seq(Entries(n, Len(clauses))) /\ Ordered(tr) /\ Len(clauses) \in Nat
  BY DEF TrailFits
<1>3. Len(tr) \in Nat /\ DOMAIN tr = 1..Len(tr)
  BY <1>2, EntryTyped
<1> HIDE DEF c
<1>4. SUFFICES ASSUME NEW l \in c, -l \in c PROVE FALSE
  <2>1. \A x \in c : -(-x) = x
    BY <1>1 DEF Literals
  <2>2. QED
    BY <2>1 DEF Proper, Neg, c
<1>5. l \in Int \ {0} /\ -(-l) = l /\ l # -l
  BY <1>1 DEF Literals
<1>6. ASSUME NEW j \in 1..i - 1, tr[j].lit = tr[i].lit PROVE FALSE
  <2>1. j \in 1..Len(tr) /\ j < i
    BY <1>3
  <2>2. QED
    BY <1>2, <1>3, <1>6, <2>1 DEF Ordered
<1>7. CASE l = tr[i].lit
  BY <1>1, <1>4, <1>5, <1>6, <1>7
<1>8. CASE -l = tr[i].lit
  BY <1>1, <1>4, <1>5, <1>6, <1>8
<1>9. CASE l # tr[i].lit /\ -l # tr[i].lit
  <2>1. PICK j \in 1..i - 1 : tr[j].lit = -l
    BY <1>1, <1>9
  <2>2. PICK k \in 1..i - 1 : tr[k].lit = l
    BY <1>1, <1>4, <1>5, <1>9
  <2>3. j \in 1..Len(tr) /\ k \in 1..Len(tr)
    BY <1>3
  <2>4. QED
    BY <1>2, <2>1, <2>2, <2>3, TrailProper
<1>10. QED
  BY <1>7, <1>8, <1>9

\* So the cone of a conflict has no tautologies.
LEMMA ConeProper ==
    ASSUME NEW n, Falsified(n)
    PROVE  \A c \in ConeClauses(Cone) : Proper(c)
<1> DEFINE level == CurLevel(trail)
           conflict == Range(db[confl])
           seeds == AtLevel(Neg(conflict), level)
           current == Sources(seeds, level)
           implied == {t \in current : ReasonOf(trail, t) # Decision}
           reasons == [t \in implied |-> Range(db[ReasonOf(trail, t)])]
<1>1. Cone.conflict = conflict /\ Cone.reasons = reasons
  BY DEF Cone
<1>2. seeds \in SUBSET Lits(trail) /\ Neg(conflict) \subseteq Lits(trail)
  BY DEF Falsified, AtLevel
<1>3. ConeTyped(Cone, n)
  BY ConeIsTyped
<1>4. conflict \in SUBSET Literals(n)
  BY <1>1, <1>3 DEF ConeTyped, ConeClauses
<1> HIDE DEF conflict, seeds, level
<1>5. current \in SUBSET Lits(trail)
  BY <1>2, SourcesOnTrail
<1>6. \A t \in implied : t \in Lits(trail) /\ ReasonOf(trail, t) # Decision
  BY <1>5
<1> HIDE DEF implied, current
<1>7. /\ n \in Nat /\ db \in Seq(Clauses(n)) /\ TrailFits(trail, db, n) /\ Len(db) \in Nat
      /\ trail \in Seq(Entries(n, Len(db))) /\ Ordered(trail)
  BY DEF Falsified, TrailFits
<1>8. \A l \in Lits(trail) : \E i \in 1..Len(trail) : trail[i].lit = l
  BY <1>7, LitsTell
<1>9. \A t \in implied : Proper(Range(db[ReasonOf(trail, t)]))
  <2>1. TAKE t \in implied
  <2>2. PICK i \in 1..Len(trail) : trail[i].lit = t
    BY <1>6, <1>8
  <2>3. ReasonOf(trail, t) = trail[i].why
    BY <1>7, <2>2, EntryTells
  <2>4. trail[i].why # Decision
    BY <1>6, <2>3
  <2>5. QED
    BY <1>7, <2>3, <2>4, ReasonIsProper
<1>10. Range(reasons) = {Range(db[ReasonOf(trail, t)]) : t \in implied}
  BY DEF Range
<1>11. Proper(conflict)
  BY <1>2, <1>4, <1>7, FalseIsProper
<1>12. QED
  BY <1>1, <1>9, <1>10, <1>11 DEF ConeClauses

\* Whatever the hook, what satisfies the clauses and the roots extends to what it returns.
LEMMA HookExtends ==
    ASSUME HookTyped(hook), NEW n \in Nat, hook.next = n + 1, Falsified(n), inst.hook \in Hooks,
           NEW B \in SUBSET (1..n), Agrees(B, db, trail), GatesHold(B, hook.gates),
           Range(inst.cls) \in SUBSET SUBSET Literals(n), \A c \in Range(inst.cls) : Sat(B, c),
           NEW r \in Hooked(Cone, Analyze.clause)
    PROVE  Extends(r, hook, B)
<1> DEFINE uip == Analyze.clause
           cone == Cone
           clauses == Range(inst.cls)
<1>1. uip \in SUBSET Literals(n) /\ ConeTyped(cone, n) /\ Bears(B, cone, n) /\ Sat(B, uip)
      /\ \A c \in ConeClauses(cone) : Proper(c)
  BY AnalyzeFits, ConeIsTyped, ConeBorne, ConeProper
<1>2. HookedBy(r, cone, uip)
  BY HookedKinds
<1>3. hook.next - 1 = n
  OBVIOUS
<1>4. clauses \in SUBSET SUBSET Literals(n) /\ \A c \in clauses : Sat(B, c)
  OBVIOUS
<1> HIDE DEF uip, cone, clauses
<1>5. CASE r.learn = <<Tuple(uip)>> /\ r.hook = hook
  BY <1>1, <1>3, <1>5, OnlyExtends
<1>6. CASE r \in MultiLearn(inst.hook.k, hook, cone, uip)
  BY <1>1, <1>3, <1>6, MultiExtends
<1>7. CASE r \in ExtLearn(inst.hook, hook, cone, uip)
  BY <1>1, <1>3, <1>7, ExtExtends
<1>8. CASE inst.hook.offline \in BOOLEAN /\ r \in XorLearn(inst.hook.offline, InputXors(clauses), hook, cone, uip)
  BY <1>1, <1>4, <1>8, XorExtends
<1>9. QED
  BY <1>2, <1>5, <1>6, <1>7, <1>8 DEF HookedBy, clauses

----------------------------------------------------------------------------
\* What makes the answers right.

\* B is M, with values for the new variables that satisfy all clauses.
ExtendsTo(B, M, n, h, clauses, tr) ==
    /\ B \in SUBSET (1..h.next - 1) /\ B \cap (1..n) = M
    /\ Agrees(B, clauses, tr) /\ GatesHold(B, h.gates)

\* Each model of the formula extends to the new variables.
Conservative == \A M \in Models(inst.n, Range(inst.cls)) : \E B : ExtendsTo(B, M, inst.n, hook, db, trail)

\* The units of the formula are on the trail for good.
RootUnits ==
    Trivial(inst.cls) \/ \A c \in Range(Units(inst.cls)) : \E i \in 1..Len(trail) : c = {trail[i].lit} /\ trail[i].level = 0

\* A formula with an obvious contradiction has its answer at once.
Judged ==
    /\ Trivial(inst.cls) => answer = "unsat"
    /\ answer = "unsat" => Models(inst.n, Range(inst.cls)) = {}
    /\ answer = "sat" => Lits(trail) \cap (1..inst.n) \in Models(inst.n, Range(inst.cls))

AnswerInv == IInv /\ Conservative /\ RootUnits /\ Judged

\* The clauses stay, maybe with their literals in another order, and the trail grows by
\* decisions and what they imply.
Continues ==
    /\ UNCHANGED <<inst, hook>>
    /\ Len(db') = Len(db) /\ \A i \in 1..Len(db) : Range(db'[i]) = Range(db[i])
    /\ Len(trail) \in Nat /\ Len(trail') \in Nat /\ Len(trail) <= Len(trail')
    /\ \A i \in 1..Len(trail) : trail'[i] = trail[i]
    /\ \A i \in Len(trail) + 1..Len(trail') : trail'[i].why # Decision \/ Opens(trail', i)

\* What agreed with the clauses and the trail still does.
LEMMA ContinuesAgree ==
    ASSUME Continues, NEW B, Agrees(B, db, trail)
    PROVE  Agrees(B, db', trail')
<1>1. /\ Len(db') = Len(db) /\ \A i \in 1..Len(db) : Range(db'[i]) = Range(db[i])
      /\ Len(trail) \in Nat /\ Len(trail') \in Nat /\ Len(trail) <= Len(trail')
      /\ \A i \in 1..Len(trail) : trail'[i] = trail[i]
      /\ \A i \in Len(trail) + 1..Len(trail') : trail'[i].why # Decision \/ Opens(trail', i)
  BY DEF Continues
<1>2. \A i \in 1..Len(db') : Sat(B, Range(db'[i]))
  BY <1>1 DEF Agrees
<1>3. ASSUME NEW i \in 1..Len(trail'), trail'[i].why = Decision, ~Opens(trail', i) PROVE Holds(trail'[i].lit, B)
  <2>1. i \in 1..Len(trail)
    <3>1. i \in 1..Len(trail) \/ i \in Len(trail) + 1..Len(trail')
      BY <1>1
    <3>2. QED
      BY <1>1, <1>3, <3>1
  <2>2. trail'[i] = trail[i]
    BY <1>1, <2>1
  <2>3. ~Opens(trail, i)
    <3>1. i = 1 \/ i - 1 \in 1..Len(trail)
      BY <1>1, <2>1
    <3>2. i = 1 \/ trail'[i - 1] = trail[i - 1]
      BY <1>1, <3>1
    <3>3. QED
      BY <1>3, <2>2, <3>2 DEF Opens
  <2>4. QED
    BY <1>3, <2>1, <2>2, <2>3 DEF Agrees
<1>4. QED
  BY <1>2, <1>3 DEF Agrees

\* So no model is lost, and no unit.
LEMMA ContinuesKeep ==
    ASSUME Conservative, RootUnits, Continues
    PROVE  Conservative' /\ RootUnits'
<1>1. UNCHANGED <<inst, hook>> /\ Len(trail) \in Nat /\ Len(trail') \in Nat /\ Len(trail) <= Len(trail')
      /\ \A i \in 1..Len(trail) : trail'[i] = trail[i]
  BY DEF Continues
<1>2. Conservative'
  <2>1. ASSUME NEW M \in Models(inst.n, Range(inst.cls)) PROVE \E B : ExtendsTo(B, M, inst.n, hook, db', trail')
    <3>1. PICK B : ExtendsTo(B, M, inst.n, hook, db, trail)
      BY DEF Conservative
    <3>2. Agrees(B, db', trail')
      BY <3>1, ContinuesAgree DEF ExtendsTo
    <3>3. ExtendsTo(B, M, inst.n, hook, db', trail')
      BY <3>1, <3>2 DEF ExtendsTo
    <3>4. QED
      BY <3>3
  <2>2. QED
    BY <1>1, <2>1 DEF Conservative
<1>3. RootUnits'
  <2>1. ASSUME ~Trivial(inst.cls), NEW c \in Range(Units(inst.cls))
        PROVE  \E i \in 1..Len(trail') : c = {trail'[i].lit} /\ trail'[i].level = 0
    <3>1. PICK i \in 1..Len(trail) : c = {trail[i].lit} /\ trail[i].level = 0
      BY <2>1 DEF RootUnits
    <3>2. i \in 1..Len(trail') /\ trail'[i] = trail[i]
      BY <1>1
    <3>3. QED
      BY <3>1, <3>2
  <2>2. QED
    BY <1>1, <2>1 DEF RootUnits
<1>4. QED
  BY <1>2, <1>3

\* One more entry at the end of a trail.
LEMMA EnqueueShape ==
    ASSUME NEW T, NEW tr \in Seq(T), NEW l, Value(tr, l) = 0, NEW why, NEW level
    PROVE  /\ Len(tr) \in Nat /\ Len(Enqueue(tr, l, why, level)) = Len(tr) + 1
           /\ \A i \in 1..Len(tr) : Enqueue(tr, l, why, level)[i] = tr[i]
           /\ Enqueue(tr, l, why, level)[Len(tr) + 1] = [lit |-> l, why |-> why, level |-> level]
<1> DEFINE e == [lit |-> l, why |-> why, level |-> level]
           X == T \cup {e}
<1>1. Enqueue(tr, l, why, level) = Append(tr, e)
  BY DEF Enqueue
<1> HIDE DEF e
<1>2. tr \in [1..Len(tr) -> X] /\ Len(tr) \in Nat
  <2>1. tr \in [1..Len(tr) -> T] /\ Len(tr) \in Nat
    OBVIOUS
  <2>2. QED
    BY <2>1
<1>3. tr \in Seq(X) /\ e \in X
  BY <1>2, IsASeq
<1> HIDE DEF X
<1>4. Len(Append(tr, e)) = Len(tr) + 1 /\ Append(tr, e)[Len(tr) + 1] = e /\ \A i \in 1..Len(tr) : Append(tr, e)[i] = tr[i]
  BY <1>3
<1>5. QED
  BY <1>1, <1>2, <1>4 DEF e

\* An entry at the end that has a reason or opens a level.
LEMMA EnqueueContinues ==
    ASSUME NEW T, trail \in Seq(T), UNCHANGED <<inst, hook, db>>, NEW l, Value(trail, l) = 0, NEW why, NEW level,
           trail' = Enqueue(trail, l, why, level),
           why # Decision \/ (level > 0 /\ (trail = <<>> \/ trail[Len(trail)].level < level))
    PROVE  Continues
<1> DEFINE N == Len(trail)
<1>1. /\ N \in Nat /\ Len(trail') = N + 1 /\ \A i \in 1..N : trail'[i] = trail[i]
      /\ trail'[N + 1] = [lit |-> l, why |-> why, level |-> level]
  BY EnqueueShape
<1>2. trail = <<>> => N = 0
  OBVIOUS
<1> HIDE DEF N
<1>3. trail'[N + 1].why # Decision \/ Opens(trail', N + 1)
  <2>1. CASE why # Decision
    BY <1>1, <2>1
  <2>2. CASE level > 0 /\ trail = <<>>
    BY <1>1, <1>2, <2>2 DEF Opens
  <2>3. CASE level > 0 /\ trail # <<>> /\ trail[N].level < level
    <3>1. N = 0 \/ (N \in 1..N /\ (N + 1) - 1 = N)
      BY <1>1
    <3>2. N = 0 \/ trail'[(N + 1) - 1].level < trail'[N + 1].level
      BY <1>1, <2>3, <3>1
    <3>3. trail'[N + 1].level > 0
      BY <1>1, <2>3
    <3>4. QED
      BY <3>2, <3>3 DEF Opens
  <2>4. QED
    BY <2>1, <2>2, <2>3 DEF N
<1>4. \A i \in N + 1..Len(trail') : i = N + 1
  BY <1>1
<1>5. N <= Len(trail') /\ Len(trail') \in Nat
  BY <1>1
<1>6. QED
  BY <1>1, <1>3, <1>4, <1>5 DEF Continues, N

\* A decision opens a level.
LEMMA DecideContinues ==
    ASSUME IInv, Decide
    PROVE  Continues
<1> DEFINE n == hook.next - 1
           M == Len(Long(inst.cls))
           level == CurLevel(trail) + 1
<1>1. Parts(n, M) /\ PhaseOK
  BY InvParts DEF IInv
<1>2. PICK v \in Open : trail' = Enqueue(trail, v * phase[v], Decision, level)
  BY DEF Decide
<1>3. UNCHANGED <<inst, db, hook>>
  BY DEF Decide
<1> HIDE DEF n, M
<1>4. /\ n \in Nat /\ inst.n \in Nat /\ inst.n <= n /\ Len(db) \in Nat
      /\ trail \in Seq(Entries(n, Len(db))) /\ Ordered(trail)
  BY <1>1 DEF Parts
<1> DEFINE l == v * phase[v]
<1>5. v \in 1..inst.n /\ Value(trail, v) = 0 /\ phase[v] \in {-1, 1}
  BY <1>1 DEF Open, PhaseOK
<1>6. Value(trail, l) = 0
  <2>1. v \in Int /\ v > 0 /\ v <= n /\ v \in Nat
    BY <1>4, <1>5
  <2>2. v \in Literals(n) /\ -v \in Literals(n)
    BY <1>4, <2>1 DEF Literals
  <2>3. l = v \/ l = -v
    <3>1. CASE phase[v] = 1
      BY <2>1, <3>1
    <3>2. CASE phase[v] = -1
      BY <2>1, <3>2
    <3>3. QED
      BY <1>5, <3>1, <3>2
  <2> HIDE DEF l
  <2>4. Var(l) = Var(v)
    BY <2>1, <2>3 DEF Var
  <2>5. ~\E q \in 1..Len(trail) : Var(trail[q].lit) = Var(v)
    BY <1>4, <1>5, <2>2, ValueTells
  <2>6. l \in Literals(n)
    BY <2>2, <2>3
  <2>7. QED
    BY <1>4, <2>4, <2>5, <2>6, ValueTells
<1>7. CurLevel(trail) \in Nat
  BY <1>4, CurLevelIsTop
<1>8. level > 0 /\ (trail = <<>> \/ trail[Len(trail)].level < level)
  <2>1. CASE trail = <<>>
    BY <1>7, <2>1
  <2>2. CASE trail # <<>>
    <3>1. CurLevel(trail) = trail[Len(trail)].level
      BY <2>2 DEF CurLevel
    <3>2. QED
      BY <1>7, <3>1
  <2>3. QED
    BY <2>1, <2>2
<1>9. trail' = Enqueue(trail, l, Decision, level)
  BY <1>2
<1> HIDE DEF l, level
<1>10. QED
  BY <1>3, <1>4, <1>6, <1>8, <1>9, EnqueueContinues

\* Nothing that matters changes.
LEMMA SameContinues ==
    ASSUME NEW T, trail \in Seq(T), UNCHANGED <<inst, hook, db, trail>>
    PROVE  Continues
<1>1. Len(trail) \in Nat /\ \A i \in Len(trail) + 1..Len(trail) : FALSE
  OBVIOUS
<1>2. QED
  BY <1>1 DEF Continues

\* A visit leaves the clauses their literals, and what it adds to the trail has a reason.
LEMMA VisitContinues ==
    ASSUME IInv, Visit
    PROVE  Continues /\ answer' = answer
<1> DEFINE n == hook.next - 1
           M == Len(Long(inst.cls))
           i == Watched[at]
           a == IF db[i][1] = -Literal THEN 1 ELSE 2
<1>1. Parts(n, M)
  BY InvParts
<1> HIDE DEF n, M
<1>2. /\ Busy /\ UNCHANGED <<inst, hook, answer>>
      /\ Skips(i, a) \/ (\E j : Moves(i, a, j)) \/ Implies(i, a) \/ Fails(i, a)
  BY <1>1, VisitHandles
<1>3. AtHand(n, i, a)
  BY <1>1, <1>2, AtHandFits
<1> HIDE DEF i, a
<1>4. i \in 1..Len(db) /\ a \in 1..2 /\ n \in Nat /\ Len(db) \in Nat /\ db \in Seq(Clauses(n)) /\ trail \in Seq(Entries(n, Len(db)))
  BY <1>1, <1>3 DEF Parts, AtHand
<1>5. CASE Skips(i, a) \/ Fails(i, a)
  <2>1. UNCHANGED <<inst, hook, db, trail>>
    BY <1>2, <1>5 DEF Skips, Fails
  <2>2. QED
    BY <1>2, <1>4, <2>1, SameContinues
<1>6. ASSUME NEW j, Moves(i, a, j) PROVE Continues
  <2> DEFINE c == db[i]
             d == Swap(c, a, j)
  <2>1. j \in 3..Len(c) /\ db' = [db EXCEPT ![i] = d] /\ trail' = trail
    BY <1>6 DEF Moves, MoveWatch, Rest
  <2>2. c \in Clauses(n)
    BY <1>4
  <2>3. Range(d) = Range(c)
    <3> HIDE DEF c
    <3>1. QED
      BY <1>4, <2>1, <2>2, SwapShape DEF d
  <2> HIDE DEF d
  <2>4. DOMAIN db = 1..Len(db)
    BY <1>4
  <2>5. DOMAIN db' = 1..Len(db) /\ \A k \in 1..Len(db) : Range(db'[k]) = Range(db[k])
    BY <1>4, <2>1, <2>3, <2>4
  <2>6. Len(db') = Len(db)
    <3> DEFINE X == Clauses(n) \cup {d}
    <3>1. db' \in [1..Len(db) -> X]
      <4>1. \A k \in 1..Len(db) : db[k] \in X
        BY <1>4
      <4> HIDE DEF X
      <4>2. d \in X
        BY DEF X
      <4>3. db' = [k \in 1..Len(db) |-> IF k = i THEN d ELSE db[k]]
        BY <2>1, <2>4
      <4>4. QED
        BY <4>1, <4>2, <4>3
    <3> HIDE DEF X
    <3>2. QED
      BY <1>4, <3>1, IsASeq
  <2>7. Len(trail) \in Nat /\ \A k \in Len(trail) + 1..Len(trail) : FALSE
    BY <1>4
  <2>8. QED
    BY <1>2, <2>1, <2>5, <2>6, <2>7 DEF Continues
<1>7. CASE Implies(i, a)
  <2> DEFINE l == db[i][3-a]
             level == CurLevel(trail)
  <2>1. Value(trail, l) = 0 /\ trail' = Enqueue(trail, l, i, level) /\ db' = db
    BY <1>7 DEF Implies
  <2>2. i # Decision
    BY <1>4 DEF Decision
  <2> HIDE DEF l, level
  <2>3. QED
    BY <1>2, <1>4, <2>1, <2>2, EnqueueContinues
<1>8. QED
  BY <1>2, <1>5, <1>6, <1>7

\* What is on the trail is true of the assignment read off it.
LEMMA TrailTrue ==
    ASSUME NEW n \in Nat, NEW m \in Nat, NEW tr \in Seq(Entries(n, m)), Ordered(tr),
           NEW k \in Nat, NEW l \in Literals(k), NEW i \in 1..Len(tr), tr[i].lit = l
    PROVE  Holds(l, Lits(tr) \cap (1..k))
<1>1. l \in Int \ {0} /\ Var(l) \in 1..k
  BY LiteralsFinite
<1>2. \A x : x \in Lits(tr) <=> \E j \in 1..Len(tr) : tr[j].lit = x
  BY LitsTell
<1>3. CASE l > 0
  <2>1. l \in 1..k
    BY <1>1, <1>3 DEF Var
  <2>2. l \in Lits(tr)
    BY <1>2
  <2>3. QED
    BY <1>3, <2>1, <2>2 DEF Holds
<1>4. CASE ~(l > 0)
  <2>1. -l \notin Lits(tr)
    <3>1. ASSUME NEW j \in 1..Len(tr), tr[j].lit = -l PROVE FALSE
      <4>1. tr[i].lit = -tr[j].lit
        BY <1>1, <3>1
      <4>2. QED
        BY <4>1, TrailProper
    <3>2. QED
      BY <1>2, <3>1
  <2>2. QED
    BY <1>4, <2>1 DEF Holds
<1>5. QED
  BY <1>3, <1>4

\* Without an empty clause, what satisfies the units and the long clauses satisfies the
\* formula: the others are tautologies.
LEMMA FormulaHolds ==
    ASSUME NEW n \in Nat, NEW cls \in Seq(SUBSET Literals(n)), ~Trivial(cls), NEW A,
           \A c \in Range(Units(cls)) : Sat(A, c), \A c \in Range(Long(cls)) : Sat(A, c)
    PROVE  \A c \in Range(cls) : Sat(A, c)
<1>1. TAKE c \in Range(cls)
<1>2. c \in SUBSET Literals(n)
  BY DEF Range
<1>3. IsFiniteSet(c) /\ Cardinality(c) \in Nat
  <2>1. IsFiniteSet(c)
    BY <1>2, LiteralsFinite, FS_Subset
  <2>2. QED
    BY <2>1, FS_CardinalityType
<1>4. Cardinality(c) # 0
  <2>1. c # {}
    BY DEF Trivial
  <2>2. QED
    BY <1>3, <2>1, FS_EmptySet
<1>5. CASE Cardinality(c) = 1
  <2>1. c \in Range(Units(cls))
    BY <1>5, FormulaSplits
  <2>2. QED
    BY <2>1
<1>6. CASE Cardinality(c) > 1 /\ Proper(c)
  <2>1. c \in Range(Long(cls))
    BY <1>6, FormulaSplits
  <2>2. QED
    BY <2>1
<1>7. CASE ~Proper(c)
  <2>1. PICK l \in c : l \in Neg(c)
    BY <1>7 DEF Proper
  <2>2. PICK k \in c : l = -k
    BY <2>1 DEF Neg
  <2>3. k \in Int \ {0}
    BY <1>2 DEF Literals
  <2>4. Holds(k, A) \/ Holds(l, A)
    BY <2>2, <2>3, HoldsOrNot
  <2>5. QED
    BY <2>4 DEF Sat
<1>8. QED
  BY <1>3, <1>4, <1>5, <1>6, <1>7

\* When no variable of the formula is open, no literal of it is.
LEMMA NothingOpen ==
    ASSUME NEW n \in Nat, inst.n \in Nat, inst.n <= n, NEW m \in Nat, trail \in Seq(Entries(n, m)), Ordered(trail),
           Open = {}, NEW l \in Literals(inst.n)
    PROVE  Value(trail, l) # 0 /\ l \in Literals(n)
<1> DEFINE v == Var(l)
<1>1. l \in Int /\ v \in 1..inst.n
  BY LiteralsFinite
<1>2. v \in Nat /\ v \in 1..n /\ v > 0 /\ v \in Int
  BY <1>1
<1>3. Var(v) = v
  BY <1>2 DEF Var
<1>4. v \in Literals(n) /\ l \in Literals(n)
  BY <1>1, <1>2, <1>3, LiteralsFinite
<1>5. Value(trail, v) # 0
  BY <1>1 DEF Open
<1> HIDE DEF v
<1>6. \E i \in 1..Len(trail) : Var(trail[i].lit) = Var(v)
  BY <1>4, <1>5, ValueTells
<1>7. Var(v) = Var(l)
  BY <1>3 DEF v
<1>8. QED
  BY <1>4, <1>6, <1>7, ValueTells

\* With all variables assigned and no conflict, the trail is a model.
LEMMA SatisfyRight ==
    ASSUME AnswerInv, Satisfy
    PROVE  Lits(trail) \cap (1..inst.n) \in Models(inst.n, Range(inst.cls))
<1> DEFINE n == hook.next - 1
           M == Len(Long(inst.cls))
           A == Lits(trail) \cap (1..inst.n)
<1>1. IInv /\ RootUnits /\ Judged /\ Parts(n, M)
  BY InvParts DEF AnswerInv
<1>2. Open = {} /\ Propagating /\ Drained
  BY DEF Satisfy
<1>3. ~Trivial(inst.cls)
  BY <1>1, <1>2 DEF Judged, Propagating, Running
<1>4. NothingMissed
  BY <1>1, InvNothingMissed
<1>5. \A i \in 1..M : Range(db[i]) = Long(inst.cls)[i]
  BY <1>1 DEF IInv, ClausesOK
<1>6. inst.n \in Nat /\ inst.cls \in Seq(SUBSET Literals(inst.n))
  BY <1>1, InstanceTyped DEF IInv
<1>7. Long(inst.cls) \in Seq(SUBSET Literals(inst.n)) /\ Units(inst.cls) \in Seq(SUBSET Literals(inst.n))
  BY <1>6, FormulaSplits
<1>8. DOMAIN Long(inst.cls) = 1..M
  BY <1>7
<1> HIDE DEF n, M
<1>9. /\ n \in Nat /\ inst.n <= n /\ Len(db) \in Nat
      /\ trail \in Seq(Entries(n, Len(db))) /\ Ordered(trail)
  BY <1>1 DEF Parts
<1>10. ASSUME NEW i \in 1..M PROVE Sat(A, Long(inst.cls)[i])
  <2> DEFINE c == Long(inst.cls)[i]
  <2>1. c \in SUBSET Literals(inst.n) /\ c = Range(db[i])
    <3> DEFINE long == Long(inst.cls)
               T == SUBSET Literals(inst.n)
    <3>1. long \in Seq(T) /\ i \in DOMAIN long /\ Range(db[i]) = c
      BY <1>5, <1>7, <1>8
    <3> HIDE DEF long, T
    <3>2. long[i] \in T
      BY <3>1
    <3>3. QED
      BY <3>1, <3>2 DEF long, T
  <2>2. (\E l \in c : Value(trail, l) > 0) \/ Cardinality({l \in c : Value(trail, l) = 0}) > 1
    BY <1>2, <1>4, <2>1 DEF NothingMissed, M
  <2> HIDE DEF c
  <2>3. {l \in c : Value(trail, l) = 0} = {}
    BY <1>2, <1>6, <1>9, <2>1, NothingOpen
  <2>4. Cardinality({l \in c : Value(trail, l) = 0}) = 0
    BY <2>3, FS_EmptySet
  <2>5. PICK l \in c : Value(trail, l) > 0
    BY <2>2, <2>4
  <2>6. l \in Literals(inst.n) /\ l \in Literals(n)
    BY <1>2, <1>6, <1>9, <2>1, NothingOpen
  <2>7. PICK j \in 1..Len(trail) : trail[j].lit = l
    BY <1>9, <2>5, <2>6, ValueTells
  <2>8. Holds(l, A)
    BY <1>6, <1>9, <2>6, <2>7, TrailTrue
  <2>9. QED
    BY <2>5, <2>8 DEF Sat, c
<1>11. ASSUME NEW c \in Range(Units(inst.cls)) PROVE Sat(A, c)
  <2>1. PICK i \in 1..Len(trail) : c = {trail[i].lit}
    BY <1>1, <1>3 DEF RootUnits
  <2>2. c \in SUBSET Literals(inst.n)
    BY <1>7 DEF Range
  <2>3. trail[i].lit \in Literals(inst.n) /\ trail[i].lit \in c
    BY <2>1, <2>2
  <2>4. Holds(trail[i].lit, A)
    BY <1>6, <1>9, <2>3, TrailTrue
  <2>5. QED
    BY <2>3, <2>4 DEF Sat
<1> HIDE DEF A
<1>12. \A c \in Range(Long(inst.cls)) : Sat(A, c)
  BY <1>8, <1>10 DEF Range
<1>13. \A c \in Range(inst.cls) : Sat(A, c)
  BY <1>3, <1>6, <1>11, <1>12, FormulaHolds
<1>14. Range(inst.cls) \in SUBSET SUBSET Literals(inst.n)
  BY <1>6 DEF Range
<1>15. A \in SUBSET (1..inst.n)
  BY DEF A
<1>16. A \in {X \in SUBSET (1..inst.n) : \A c \in Range(inst.cls) : Sat(X, c)}
  BY <1>13, <1>15
<1>17. A \in Models(inst.n, Range(inst.cls))
  BY <1>6, <1>14, <1>16, ModelsAre
<1>18. QED
  BY <1>17 DEF A

\* A conflict at level 0 leaves no model.
LEMMA RefuteRight ==
    ASSUME AnswerInv, Refute
    PROVE  Models(inst.n, Range(inst.cls)) = {}
<1> DEFINE n == hook.next - 1
           M == Len(Long(inst.cls))
<1>1. IInv /\ Conservative /\ Parts(n, M) /\ ConflictOK
  BY InvParts DEF AnswerInv, IInv
<1>2. confl # NoConflict /\ CurLevel(trail) = 0
  BY DEF Refute, Conflict
<1> HIDE DEF n, M
<1>3. /\ n \in Nat /\ Len(db) \in Nat /\ db \in Seq(Clauses(n)) /\ TrailFits(trail, db, n)
      /\ trail \in Seq(Entries(n, Len(db))) /\ Ordered(trail)
  BY <1>1 DEF Parts
<1>4. confl \in 1..Len(db) /\ Neg(Range(db[confl])) \subseteq Lits(trail)
  <2>1. confl \in 0..Len(db) /\ Neg(Range(db[confl])) \subseteq Lits(trail)
    BY <1>1, <1>2 DEF ConflictOK
  <2>2. QED
    BY <1>2, <1>3, <2>1 DEF NoConflict
<1>5. \A i \in 1..Len(trail) : trail[i].level = 0
  <2>1. \A i \in 1..Len(trail) : trail[i].level <= 0 /\ trail[i].level \in Nat
    BY <1>2, <1>3, CurLevelIsTop, EntryTyped
  <2>2. QED
    BY <2>1
<1>6. ASSUME NEW X \in Models(inst.n, Range(inst.cls)) PROVE FALSE
  <2>1. PICK B : ExtendsTo(B, X, inst.n, hook, db, trail)
    BY <1>1 DEF Conservative
  <2>2. Agrees(B, db, trail)
    BY <2>1 DEF ExtendsTo
  <2>3. PICK l \in Range(db[confl]) : Holds(l, B)
    BY <1>4, <2>2 DEF Agrees, Sat
  <2>4. -l \in Lits(trail)
    BY <1>4, <2>3 DEF Neg
  <2>5. PICK i \in 1..Len(trail) : trail[i].lit = -l
    BY <1>3, <2>4, LitsTell
  <2>6. Holds(-l, B)
    BY <1>3, <1>5, <2>2, <2>5, RootsHold
  <2>7. l \in Int \ {0}
    <3> DEFINE c == db[confl]
    <3>1. c \in Seq(Literals(n))
      BY <1>3, <1>4 DEF Clauses
    <3> HIDE DEF c
    <3>2. Range(c) \subseteq Literals(n)
      BY <3>1 DEF Range
    <3>3. QED
      BY <2>3, <3>2 DEF Literals, c
  <2>8. QED
    BY <2>3, <2>6, <2>7, HoldsOrNot
<1>7. QED
  BY <1>6

\* What satisfied the clauses and satisfies what is learned agrees with the longer
\* database, and with the trail after the jump back.
LEMMA RelearnsAgree ==
    ASSUME NEW n \in Nat, NEW r, NEW level, NEW m, NEW k, Relearns(r, level, n, m, k),
           db \in Seq(Clauses(n)), trail \in Seq(Entries(n, Len(db))),
           NEW B, Agrees(B, db, trail), NEW D, D \cap (1..n) = B \cap (1..n),
           \A c \in Range(r.learn) : Sat(D, Range(c))
    PROVE  Agrees(D, db', trail')
<1> DEFINE learn == r.learn
<1>1. /\ learn \in Seq(Clauses(m)) /\ Len(db) <= Len(db') /\ Len(db') \in Nat
      /\ \A i \in 1..Len(db) : db'[i] = db[i]
      /\ \A i \in Len(db) + 1..Len(db') : db'[i] \in Range(learn)
      /\ k \in 0..Len(trail) /\ Relearned(trail', trail, k, level, learn)
      /\ TrailFits(trail', db', m)
  BY DEF Relearns
<1>2. \A c \in Range(learn) : Sat(D, Range(c))
  OBVIOUS
<1> HIDE DEF learn
<1>3. Len(db) \in Nat /\ Len(trail) \in Nat
  OBVIOUS
<1>4. \A i \in 1..Len(db) : Range(db[i]) \in SUBSET Literals(n)
  <2>1. TAKE i \in 1..Len(db)
  <2> DEFINE c == db[i]
  <2>2. c \in Seq(Literals(n))
    BY DEF Clauses
  <2> HIDE DEF c
  <2>3. Range(c) \in SUBSET Literals(n)
    BY <2>2 DEF Range
  <2>4. QED
    BY <2>3 DEF c
<1>5. /\ \A l \in Literals(n) : Holds(l, D) <=> Holds(l, B)
      /\ \A c \in SUBSET Literals(n) : Sat(D, c) <=> Sat(B, c)
  BY HoldsSame
<1>6. \A i \in 1..Len(db') : Sat(D, Range(db'[i]))
  <2>1. TAKE i \in 1..Len(db')
  <2>2. CASE i \in 1..Len(db)
    <3>1. Sat(B, Range(db[i]))
      BY <2>2 DEF Agrees
    <3>2. QED
      BY <1>1, <1>4, <1>5, <2>2, <3>1
  <2>3. CASE i \notin 1..Len(db)
    <3>1. i \in Len(db) + 1..Len(db')
      BY <1>1, <1>3, <2>3
    <3>2. QED
      BY <1>1, <1>2, <3>1
  <2>4. QED
    BY <2>2, <2>3
<1>7. /\ \A i \in 1..Len(trail') : i <= k => trail'[i] = trail[i]
      /\ \A i \in 1..Len(trail') : i > k /\ trail'[i].why = Decision =>
            \E c \in Range(learn) : Len(c) = 1 /\ c[1] = trail'[i].lit
  BY <1>1 DEF Relearned
<1>8. trail' \in Seq(Entries(m, Len(db'))) /\ Len(trail') \in Nat
  <2>1. trail' \in Seq(Entries(m, Len(db')))
    BY <1>1 DEF TrailFits
  <2>2. QED
    BY <2>1
<1>9. ASSUME NEW i \in 1..Len(trail'), trail'[i].why = Decision, ~Opens(trail', i) PROVE Holds(trail'[i].lit, D)
  <2>1. CASE i <= k
    <3>1. i \in 1..Len(trail) /\ trail'[i] = trail[i]
      BY <1>1, <1>3, <1>7, <1>8, <2>1
    <3>2. i = 1 \/ (i - 1 \in 1..Len(trail') /\ i - 1 <= k)
      BY <1>1, <1>3, <1>8, <2>1
    <3>3. i = 1 \/ trail'[i - 1] = trail[i - 1]
      BY <1>7, <3>2
    <3>4. ~Opens(trail, i)
      BY <1>9, <3>1, <3>3 DEF Opens
    <3>5. Holds(trail[i].lit, B)
      BY <1>9, <3>1, <3>4 DEF Agrees
    <3>6. trail[i].lit \in Literals(n)
      BY <1>3, <3>1, EntryTyped
    <3>7. QED
      BY <1>5, <3>1, <3>5, <3>6
  <2>2. CASE ~(i <= k)
    <3>1. i > k
      BY <1>1, <1>3, <1>8, <2>2
    <3>2. PICK c \in Range(learn) : Len(c) = 1 /\ c[1] = trail'[i].lit
      BY <1>7, <1>9, <3>1
    <3>3. c \in Seq(Literals(m))
      <4>1. c \in Clauses(m)
        BY <1>1 DEF Range
      <4>2. QED
        BY <4>1 DEF Clauses
    <3>4. Range(c) = {c[1]}
      BY <3>2, <3>3 DEF Range
    <3>5. Sat(D, Range(c))
      BY <1>2, <3>2
    <3>6. QED
      BY <3>2, <3>4, <3>5 DEF Sat
  <2>3. QED
    BY <2>1, <2>2
<1>10. QED
  BY <1>6, <1>9 DEF Agrees

\* Learning loses no model, and no unit of the formula.
LEMMA LearnKeeps ==
    ASSUME AnswerInv, Learn
    PROVE  Conservative' /\ RootUnits' /\ inst' = inst /\ answer' = answer
<1> DEFINE n == hook.next - 1
           M == Len(Long(inst.cls))
<1>1. IInv /\ Conservative /\ RootUnits /\ Parts(n, M) /\ HookTyped(hook) /\ inst \in Instances
  BY InvParts DEF AnswerInv, IInv, ClausesOK
<1>2. PICK r : Learns(r, Analyze.level)
  BY LearnLearns
<1>3. confl # NoConflict /\ CurLevel(trail) > 0
  BY LearnLearns
<1>4. hook' = r.hook /\ inst' = inst /\ answer' = answer /\ r \in Hooked(Cone, Analyze.clause)
  BY <1>2 DEF Learns
<1>5. PICK k : Relearns(r, Analyze.level, n, r.hook.next - 1, k)
  BY <1>1, <1>2, <1>3, LearnsFits
<1>6. Falsified(n)
  BY <1>1, <1>3, ConflictFalsified
<1>7. hook.next = n + 1
  BY <1>1 DEF HookTyped
<1> HIDE DEF n, M
<1>8. /\ n \in Nat /\ inst.n \in Nat /\ inst.n <= n /\ db \in Seq(Clauses(n))
      /\ trail \in Seq(Entries(n, Len(db))) /\ Len(trail) \in Nat
  BY <1>1 DEF Parts
<1>9. inst.cls \in Seq(SUBSET Literals(inst.n)) /\ inst.hook \in Hooks
  BY <1>1, InstanceTyped
<1>10. Range(inst.cls) \in SUBSET SUBSET Literals(inst.n)
  BY <1>9 DEF Range
<1>11. Range(inst.cls) \in SUBSET SUBSET Literals(n)
  <2>1. Literals(inst.n) \subseteq Literals(n)
    BY <1>8, ClausesGrow
  <2>2. QED
    BY <1>10, <2>1
<1>12. ASSUME NEW X \in Models(inst.n, Range(inst.cls)) PROVE \E D : ExtendsTo(D, X, inst.n, r.hook, db', trail')
  <2>1. PICK B : ExtendsTo(B, X, inst.n, hook, db, trail)
    BY <1>1 DEF Conservative
  <2>2. B \in SUBSET (1..n) /\ B \cap (1..inst.n) = X /\ Agrees(B, db, trail) /\ GatesHold(B, hook.gates)
    BY <2>1 DEF ExtendsTo, n
  <2>3. X \in SUBSET (1..inst.n) /\ \A c \in Range(inst.cls) : Sat(X, c)
    BY <1>8, <1>10, ModelsAre
  <2>4. \A c \in Range(inst.cls) : Sat(B, c)
    <3>1. B \cap (1..inst.n) = X \cap (1..inst.n)
      BY <2>2, <2>3
    <3>2. \A c \in SUBSET Literals(inst.n) : Sat(B, c) <=> Sat(X, c)
      BY <1>8, <3>1, HoldsSame
    <3>3. QED
      BY <1>10, <2>3, <3>2
  <2>5. Extends(r, hook, B)
    BY <1>1, <1>4, <1>6, <1>7, <1>8, <1>9, <1>11, <2>2, <2>4, HookExtends
  <2>6. PICK D \in SUBSET (1..r.hook.next - 1) :
           /\ D \cap (1..n) = B
           /\ \A c \in Range(r.learn) : Sat(D, Range(c))
           /\ GatesHold(D, r.hook.gates)
    BY <2>5 DEF Extends, n
  <2>7. Agrees(D, db', trail')
    <3>1. D \cap (1..n) = B \cap (1..n)
      BY <2>2, <2>6
    <3>2. QED
      BY <1>5, <1>8, <2>2, <2>6, <3>1, RelearnsAgree
  <2>8. D \cap (1..inst.n) = X
    <3>1. 1..inst.n \subseteq 1..n
      BY <1>8
    <3>2. QED
      BY <2>2, <2>6, <3>1
  <2>9. ExtendsTo(D, X, inst.n, r.hook, db', trail')
    BY <2>6, <2>7, <2>8 DEF ExtendsTo
  <2>10. QED
    BY <2>9
<1>13. Conservative'
  BY <1>4, <1>12 DEF Conservative
<1>14. RootUnits'
  <2>1. Relearned(trail', trail, k, Analyze.level, r.learn) /\ Analyze.level \in Nat /\ TrailFits(trail', db', r.hook.next - 1)
    BY <1>5 DEF Relearns
  <2>2. Len(trail') \in Nat
    <3>1. trail' \in Seq(Entries(r.hook.next - 1, Len(db')))
      BY <2>1 DEF TrailFits
    <3>2. QED
      BY <3>1
  <2>3. ASSUME ~Trivial(inst.cls), NEW c \in Range(Units(inst.cls))
        PROVE  \E i \in 1..Len(trail') : c = {trail'[i].lit} /\ trail'[i].level = 0
    <3>1. PICK i \in 1..Len(trail) : c = {trail[i].lit} /\ trail[i].level = 0
      BY <1>1, <2>3 DEF RootUnits
    <3>2. i <= k /\ k \in 0..Len(trail)
      BY <2>1, <3>1 DEF Relearned
    <3>3. i \in 1..k
      BY <1>8, <3>2
    <3>4. i \in 1..Len(trail')
      BY <1>8, <2>1, <2>2, <3>1, <3>3 DEF Relearned
    <3>5. trail'[i] = trail[i]
      BY <2>1, <3>2, <3>4 DEF Relearned
    <3>6. QED
      BY <3>1, <3>4, <3>5
  <2>4. QED
    BY <1>4, <2>3 DEF RootUnits
<1>15. QED
  BY <1>4, <1>13, <1>14

\* Literals of one variable are the same, or one is the negation of the other.
LEMMA SameVar ==
    ASSUME NEW k \in Int, NEW l \in Int, Var(k) = Var(l)
    PROVE  k = l \/ k = -l
BY DEF Var

\* Of units that do not contradict each other, all get to the empty trail.
LEMMA UnitsArrive ==
    ASSUME NEW n \in Nat, NEW lits \in Seq(Literals(n)),
           \A i, j \in 1..Len(lits) : lits[i] # -lits[j]
    PROVE  \A i \in 1..Len(lits) : \E k \in 1..Len(EnqueueUnits(<<>>, lits, 0)) :
              EnqueueUnits(<<>>, lits, 0)[k].lit = lits[i]
<1> DEFINE open == {i \in DOMAIN lits : /\ Value(<<>>, lits[i]) = 0
                                        /\ \A j \in 1..i - 1 : Var(lits[j]) # Var(lits[i])}
           q == Select(lits, open)
           m == Cardinality(open)
           more == [k \in 1..m |-> [lit |-> q[k], why |-> Decision, level |-> 0]]
<1>1. DOMAIN lits = 1..Len(lits) /\ Len(lits) \in Nat /\ \A i \in 1..Len(lits) : lits[i] \in Int
  <2>1. \A i \in 1..Len(lits) : lits[i] \in Literals(n)
    OBVIOUS
  <2>2. QED
    BY <2>1 DEF Literals
<1>2. EnqueueUnits(<<>>, lits, 0) = <<>> \o more
  BY DEF EnqueueUnits
<1>3. \A l : Value(<<>>, l) = 0
  BY DEF Value, Lits
<1>4. \A i \in 1..Len(lits) : \E j \in open : lits[j] = lits[i]
  <2>1. TAKE i \in 1..Len(lits)
  <2> DEFINE S == {j \in 1..Len(lits) : Var(lits[j]) = Var(lits[i])}
  <2>2. S \in SUBSET Nat /\ S # {}
    BY <1>1
  <2>3. PICK j \in S : \A h \in S : j <= h
    BY <2>2, LeastNat
  <2>4. j \in 1..Len(lits) /\ Var(lits[j]) = Var(lits[i])
    BY <2>3
  <2>5. ASSUME NEW h \in 1..j - 1 PROVE Var(lits[h]) # Var(lits[j])
    <3>1. h \in 1..Len(lits) /\ ~(j <= h)
      BY <1>1, <2>4
    <3>2. h \notin S
      BY <2>3, <3>1
    <3>3. QED
      BY <2>4, <3>1, <3>2
  <2>6. j \in open
    BY <1>1, <1>3, <2>4, <2>5
  <2>7. lits[j] = lits[i] \/ lits[j] = -lits[i]
    BY <1>1, <2>4, SameVar
  <2>8. lits[j] = lits[i]
    BY <2>4, <2>7
  <2>9. QED
    BY <2>6, <2>8
<1>5. open \in SUBSET DOMAIN lits
  OBVIOUS
<1> HIDE DEF open
<1>6. m \in Nat /\ \A j \in open : \E k \in 1..m : q[k] = lits[j]
  BY <1>5, SelectLists
<1>7. \A k \in 1..m : more[k].lit = q[k]
  OBVIOUS
<1>8. more \in Seq({more[k] : k \in 1..m}) /\ Len(more) = m
  <2> DEFINE X == {more[k] : k \in 1..m}
  <2>1. more \in [1..m -> X]
    OBVIOUS
  <2> HIDE DEF X, more
  <2>2. more \in Seq(X) /\ Len(more) = m
    BY <1>6, <2>1, IsASeq
  <2>3. QED
    BY <2>2 DEF X
<1>9. <<>> \o more = more
  <2> DEFINE X == {more[k] : k \in 1..m}
  <2>1. more \in Seq(X)
    BY <1>8
  <2> HIDE DEF X, more
  <2>2. QED
    BY <2>1
<1> HIDE DEF more, q, m
<1>10. QED
  BY <1>2, <1>4, <1>6, <1>7, <1>8, <1>9

\* At the start every model carries itself, and the units are on the trail.
LEMMA StartAnswer ==
    ASSUME Init
    PROVE  AnswerInv
<1> DEFINE n == inst.n
           cls == inst.cls
           units == Units(cls)
           lits == [i \in DOMAIN units |-> Tuple(units[i])[1]]
<1>1. inst \in Instances /\ n \in Nat /\ cls \in Seq(SUBSET Literals(n))
  BY InstanceTyped DEF Init
<1>2. hook = [pairs |-> {}, gates |-> <<>>, next |-> n + 1] /\ answer = IF Trivial(cls) THEN "unsat" ELSE Running
  BY DEF Init
<1>3. db = Tuples(Long(cls)) /\ trail = EnqueueUnits(<<>>, lits, 0)
  BY DEF Init, Tuples
<1>4. lits = Firsts(units)
  BY DEF Firsts
<1>5. IInv
  BY StartInv
<1>6. /\ Long(cls) \in Seq(SUBSET Literals(n)) /\ units \in Seq(SUBSET Literals(n))
      /\ Range(Long(cls)) \subseteq Range(cls) /\ Range(units) \subseteq Range(cls)
  BY <1>1, FormulaSplits
<1> HIDE DEF n, cls, lits, units
<1>7. /\ db \in Seq(Clauses(n)) /\ Len(db) = Len(Long(cls))
      /\ \A i \in 1..Len(db) : Range(db[i]) = Long(cls)[i]
      /\ lits \in Seq(Literals(n)) /\ Len(lits) = Len(units) /\ \A i \in 1..Len(lits) : units[i] = {lits[i]}
  <2>1. Starts(db, lits, n, cls)
    BY <1>1, <1>3, <1>4, StartFits DEF units
  <2>2. QED
    BY <2>1 DEF Starts, units
<1>8. hook.next = n + 1 /\ hook.next - 1 = n /\ \A B : GatesHold(B, hook.gates)
  <2>1. hook.next = n + 1 /\ hook.gates = <<>>
    BY <1>2
  <2>2. DOMAIN hook.gates = {}
    BY <2>1
  <2>3. hook.next - 1 = n
    BY <1>1, <2>1
  <2>4. QED
    BY <2>1, <2>2, <2>3 DEF GatesHold
<1>9. /\ \A c \in Range(units) : \E i \in 1..Len(lits) : c = {lits[i]}
      /\ \A i \in 1..Len(lits) : {lits[i]} \in Range(units)
  <2>1. DOMAIN units = 1..Len(lits)
    BY <1>6, <1>7
  <2>2. QED
    BY <1>7, <2>1 DEF Range
<1>10. \A i \in 1..Len(db) : Range(db[i]) \in Range(cls)
  <2>1. DOMAIN Long(cls) = 1..Len(db)
    BY <1>6, <1>7
  <2>2. \A i \in 1..Len(db) : Long(cls)[i] \in Range(Long(cls))
    BY <2>1 DEF Range
  <2>3. QED
    BY <1>6, <1>7, <2>2
<1>11. /\ Len(trail) \in Nat
       /\ \A i \in 1..Len(trail) : trail[i].level = 0 /\ trail[i].lit \in Range(lits)
  <2>1. TrailFits(<<>>, db, n) /\ CurLevel(<<>>) = 0 /\ Len(<<>>) = 0
    <3>1. <<>> \in Seq(Entries(n, Len(db))) /\ DOMAIN <<>> = {} /\ Len(<<>>) = 0
      OBVIOUS
    <3>2. QED
      BY <3>1 DEF TrailFits, Ordered, Reasoned, CurLevel
  <2>2. 0 \in Nat /\ 0 >= CurLevel(<<>>) /\ Len(db) \in Nat
    BY <1>7, <2>1
  <2>3. /\ TrailFits(EnqueueUnits(<<>>, lits, 0), db, n) /\ Grown(EnqueueUnits(<<>>, lits, 0), <<>>, 0)
        /\ \A i \in Len(<<>>) + 1..Len(EnqueueUnits(<<>>, lits, 0)) : EnqueueUnits(<<>>, lits, 0)[i].lit \in Range(lits)
    BY <1>1, <1>7, <2>1, <2>2, UnitsFit
  <2>4. TrailFits(trail, db, n) /\ Grown(trail, <<>>, 0) /\ \A i \in 0 + 1..Len(trail) : trail[i].lit \in Range(lits)
    BY <1>3, <2>1, <2>3
  <2>5. \A i \in 0 + 1..Len(trail) : trail[i].level = 0
    BY <2>1, <2>4 DEF Grown
  <2>6. Len(trail) \in Nat
    <3>1. trail \in Seq(Entries(n, Len(db)))
      BY <2>4 DEF TrailFits
    <3>2. QED
      BY <3>1
  <2>7. QED
    BY <2>4, <2>5, <2>6
<1>12. Range(cls) \in SUBSET SUBSET Literals(n)
  BY <1>1 DEF Range
<1>13. Models(n, Range(cls)) = {A \in SUBSET (1..n) : \A c \in Range(cls) : Sat(A, c)}
  BY <1>1, <1>12, ModelsAre
<1>14. Conservative
  <2>1. ASSUME NEW X \in Models(n, Range(cls)) PROVE ExtendsTo(X, X, n, hook, db, trail)
    <3>1. X \in SUBSET (1..n) /\ \A c \in Range(cls) : Sat(X, c)
      BY <1>13
    <3>2. \A i \in 1..Len(db) : Sat(X, Range(db[i]))
      BY <1>10, <3>1
    <3>3. \A i \in 1..Len(trail) : Holds(trail[i].lit, X)
      <4>1. TAKE i \in 1..Len(trail)
      <4>2. PICK j \in 1..Len(lits) : trail[i].lit = lits[j]
        <5>1. DOMAIN lits = 1..Len(lits)
          BY <1>7
        <5>2. QED
          BY <1>11, <5>1 DEF Range
      <4>3. Sat(X, {lits[j]})
        BY <1>6, <1>9, <3>1
      <4>4. QED
        BY <4>2, <4>3 DEF Sat
    <3>4. Agrees(X, db, trail)
      BY <3>2, <3>3 DEF Agrees
    <3>5. X \cap (1..n) = X /\ X \in SUBSET (1..hook.next - 1)
      BY <1>8, <3>1
    <3>6. QED
      BY <1>8, <3>4, <3>5 DEF ExtendsTo
  <2>2. QED
    BY <2>1 DEF Conservative, n, cls
<1>15. RootUnits
  <2>1. ASSUME ~Trivial(cls), NEW c \in Range(units)
        PROVE  \E i \in 1..Len(trail) : c = {trail[i].lit} /\ trail[i].level = 0
    <3>1. \A i, j \in 1..Len(lits) : lits[i] # -lits[j]
      <4>1. ASSUME NEW i \in 1..Len(lits), NEW j \in 1..Len(lits), lits[i] = -lits[j] PROVE FALSE
        <5>1. {lits[i]} = Neg({lits[j]})
          BY <4>1 DEF Neg
        <5>2. Trivial(cls)
          BY <1>9, <5>1 DEF Trivial, units
        <5>3. QED
          BY <2>1, <5>2
      <4>2. QED
        BY <4>1
    <3>2. PICK i \in 1..Len(lits) : c = {lits[i]}
      BY <1>9
    <3>3. PICK k \in 1..Len(trail) : trail[k].lit = lits[i]
      BY <1>1, <1>3, <1>7, <3>1, UnitsArrive
    <3>4. QED
      BY <1>11, <3>2, <3>3
  <2>2. QED
    BY <2>1 DEF RootUnits, cls, units
<1>16. ASSUME Trivial(cls), NEW X \in Models(n, Range(cls)) PROVE FALSE
  <2>1. \A c \in Range(cls) : Sat(X, c)
    BY <1>13
  <2>2. CASE {} \in Range(cls)
    BY <2>1, <2>2 DEF Sat
  <2>3. ASSUME NEW c \in Range(units), NEW d \in Range(units), c = Neg(d) PROVE FALSE
    <3>1. PICK i \in 1..Len(lits) : d = {lits[i]}
      BY <1>9
    <3>2. c = {-lits[i]}
      BY <2>3, <3>1 DEF Neg
    <3>3. Sat(X, c) /\ Sat(X, d)
      BY <1>6, <2>1
    <3>4. Holds(lits[i], X) /\ Holds(-lits[i], X)
      BY <3>1, <3>2, <3>3 DEF Sat
    <3>5. lits[i] \in Int \ {0}
      <4>1. lits[i] \in Literals(n)
        BY <1>7
      <4>2. QED
        BY <4>1 DEF Literals
    <3>6. QED
      BY <3>4, <3>5, HoldsOrNot
  <2>4. QED
    BY <1>16, <2>2, <2>3 DEF Trivial, units
<1>17. Judged
  <2>1. answer # "sat" /\ (Trivial(cls) <=> answer = "unsat")
    BY <1>2 DEF Running
  <2>2. QED
    BY <1>16, <2>1 DEF Judged, n, cls
<1>18. QED
  BY <1>5, <1>14, <1>15, <1>17 DEF AnswerInv

\* A step other than Learn keeps the clauses and lets the trail grow; the answer
\* changes when the search ends.
LEMMA OthersContinue ==
    ASSUME AnswerInv, [Next]_vars, ~Learn
    PROVE  /\ Continues
           /\ \/ answer' = answer /\ (answer = Running \/ UNCHANGED <<inst, trail>>)
              \/ answer = Running /\ answer' \in {"none", "assertion"}
              \/ answer = Running /\ answer' = "unsat" /\ Models(inst.n, Range(inst.cls)) = {}
              \/ /\ answer = Running /\ answer' = "sat" /\ trail' = trail
                 /\ Lits(trail) \cap (1..inst.n) \in Models(inst.n, Range(inst.cls))
<1>1. IInv
  BY DEF AnswerInv
<1>2. trail \in Seq(Entries(hook.next - 1, Len(db)))
  BY <1>1, InvParts DEF Parts
<1>3. CASE NextLiteral
  <2>1. UNCHANGED <<inst, hook, db, trail, answer>>
    BY <1>3 DEF NextLiteral
  <2>2. QED
    BY <1>2, <2>1, SameContinues
<1>4. CASE Visit
  <2>1. answer = Running
    BY <1>4 DEF Visit, Propagating
  <2>2. QED
    BY <1>1, <1>4, <2>1, VisitContinues
<1>5. CASE Decide
  <2>1. answer = Running /\ answer' = answer
    BY <1>5 DEF Decide, Propagating
  <2>2. QED
    BY <1>1, <1>5, <2>1, DecideContinues
<1>6. CASE GiveUp
  <2>1. UNCHANGED <<inst, hook, db, trail>> /\ answer = Running /\ answer' \in {"none", "assertion"}
    BY <1>6 DEF GiveUp, Conflict
  <2>2. QED
    BY <1>2, <2>1, SameContinues
<1>7. CASE Abort
  <2>1. UNCHANGED <<inst, hook, db, trail>> /\ answer = Running /\ answer' \in {"none", "assertion"}
    BY <1>7 DEF Abort, Analyzed, Conflict
  <2>2. QED
    BY <1>2, <2>1, SameContinues
<1>8. CASE Refute
  <2>1. UNCHANGED <<inst, hook, db, trail>> /\ answer = Running /\ answer' = "unsat"
    BY <1>8 DEF Refute, Conflict
  <2>2. Models(inst.n, Range(inst.cls)) = {}
    BY <1>8, RefuteRight
  <2>3. QED
    BY <1>2, <2>1, <2>2, SameContinues
<1>9. CASE Satisfy
  <2>1. UNCHANGED <<inst, hook, db, trail>> /\ answer = Running /\ answer' = "sat"
    BY <1>9 DEF Satisfy, Propagating
  <2>2. Lits(trail) \cap (1..inst.n) \in Models(inst.n, Range(inst.cls))
    BY <1>9, SatisfyRight
  <2>3. QED
    BY <1>2, <2>1, <2>2, SameContinues
<1>10. CASE Answered \/ UNCHANGED vars
  <2>1. UNCHANGED <<inst, hook, db, trail, answer>>
    BY <1>10 DEF Answered, vars
  <2>2. QED
    BY <1>2, <2>1, SameContinues
<1>11. QED
  BY <1>3, <1>4, <1>5, <1>6, <1>7, <1>8, <1>9, <1>10 DEF Next

\* The invariant holds at every step.
LEMMA StepAnswer ==
    ASSUME AnswerInv, [Next]_vars
    PROVE  AnswerInv'
<1>1. IInv /\ Conservative /\ RootUnits /\ Judged
  BY DEF AnswerInv
<1>2. IInv'
  BY <1>1, StepInv
<1>3. CASE Learn
  <2>1. Conservative' /\ RootUnits' /\ inst' = inst /\ answer' = answer
    BY <1>3, LearnKeeps
  <2>2. answer = Running
    BY <1>3 DEF Learn, Analyzed, Conflict
  <2>3. Judged'
    BY <1>1, <2>1, <2>2 DEF Judged, Running
  <2>4. QED
    BY <1>2, <2>1, <2>3 DEF AnswerInv
<1>4. CASE ~Learn
  <2>1. /\ Continues
        /\ \/ answer' = answer /\ (answer = Running \/ UNCHANGED <<inst, trail>>)
           \/ answer = Running /\ answer' \in {"none", "assertion"}
           \/ answer = Running /\ answer' = "unsat" /\ Models(inst.n, Range(inst.cls)) = {}
           \/ /\ answer = Running /\ answer' = "sat" /\ trail' = trail
              /\ Lits(trail) \cap (1..inst.n) \in Models(inst.n, Range(inst.cls))
    BY <1>4, OthersContinue
  <2>2. Conservative' /\ RootUnits'
    BY <1>1, <2>1, ContinuesKeep
  <2>3. inst' = inst
    BY <2>1 DEF Continues
  <2>4. Judged'
    <3>1. CASE answer' = answer /\ answer = Running
      BY <1>1, <2>3, <3>1 DEF Judged, Running
    <3>2. CASE answer' = answer /\ UNCHANGED <<inst, trail>>
      BY <1>1, <3>2 DEF Judged
    <3>3. CASE answer = Running /\ answer' \in {"none", "assertion"}
      BY <1>1, <2>3, <3>3 DEF Judged, Running
    <3>4. CASE answer = Running /\ answer' = "unsat" /\ Models(inst.n, Range(inst.cls)) = {}
      BY <2>3, <3>4 DEF Judged
    <3>5. CASE /\ answer = Running /\ answer' = "sat" /\ trail' = trail
               /\ Lits(trail) \cap (1..inst.n) \in Models(inst.n, Range(inst.cls))
      BY <1>1, <2>3, <3>5 DEF Judged, Running
    <3>6. QED
      BY <2>1, <3>1, <3>2, <3>3, <3>4, <3>5
  <2>5. QED
    BY <1>2, <2>2, <2>4 DEF AnswerInv
<1>5. QED
  BY <1>3, <1>4

\* The clauses are over the variables there are.
LEMMA LearnedTyped ==
    ASSUME NEW n, NEW M, Parts(n, M)
    PROVE  Learned \in SUBSET SUBSET Literals(n)
<1>1. n \in Nat /\ db \in Seq(Clauses(n)) /\ Len(db) \in Nat /\ trail \in Seq(Entries(n, Len(db)))
  BY DEF Parts
<1>2. \A c \in Range(db) : Range(c) \in SUBSET Literals(n)
  <2>1. \A c \in Range(db) : c \in Seq(Literals(n))
    BY <1>1 DEF Range, Clauses
  <2>2. QED
    BY <2>1 DEF Range
<1>3. \A r \in Range(trail) : r.lit \in Literals(n)
  <2>1. DOMAIN trail = 1..Len(trail) /\ \A i \in 1..Len(trail) : trail[i].lit \in Literals(n)
    BY <1>1, EntryTyped
  <2>2. QED
    BY <2>1 DEF Range
<1>4. QED
  BY <1>2, <1>3 DEF Learned

\* The models of what was learned, without the new variables, are the models of the formula.
LEMMA LearnedModels ==
    ASSUME AnswerInv, ~Trivial(inst.cls)
    PROVE  Models(inst.n, Range(inst.cls)) = {X \intersect 1..inst.n : X \in Models(hook.next - 1, Learned)}
<1> DEFINE n == hook.next - 1
           M == Len(Long(inst.cls))
           cls == inst.cls
           k == inst.n
<1>1. IInv /\ Conservative /\ RootUnits /\ Parts(n, M) /\ inst \in Instances
  BY InvParts DEF AnswerInv, IInv
<1>2. \A i \in 1..M : Range(db[i]) = Long(cls)[i]
  BY <1>1 DEF IInv, ClausesOK
<1>3. /\ n \in Nat /\ k \in Nat /\ k <= n /\ M \in Nat /\ M <= Len(db)
      /\ db \in Seq(Clauses(n)) /\ Len(db) \in Nat /\ DOMAIN db = 1..Len(db)
      /\ TrailFits(trail, db, n) /\ DOMAIN trail = 1..Len(trail)
  BY <1>1 DEF Parts
<1>4. Learned \in SUBSET SUBSET Literals(n)
  BY <1>1, LearnedTyped
<1>5. cls \in Seq(SUBSET Literals(k)) /\ ~Trivial(cls)
  BY <1>1, InstanceTyped
<1>6. /\ Long(cls) \in Seq(SUBSET Literals(k)) /\ Range(Long(cls)) \subseteq Range(cls) /\ Range(Units(cls)) \subseteq Range(cls)
  BY <1>3, <1>5, FormulaSplits
<1>7. DOMAIN Long(cls) = 1..M
  BY <1>6
<1>8. Range(cls) \in SUBSET SUBSET Literals(k)
  BY <1>5 DEF Range
<1> HIDE DEF n, M, cls, k
<1>9. Models(n, Learned) = {A \in SUBSET (1..n) : \A c \in Learned : Sat(A, c)}
  BY <1>3, <1>4, ModelsAre
<1>10. Models(k, Range(cls)) = {A \in SUBSET (1..k) : \A c \in Range(cls) : Sat(A, c)}
  BY <1>3, <1>8, ModelsAre
<1>11. ASSUME NEW X \in Models(k, Range(cls)) PROVE \E B \in Models(n, Learned) : X = B \cap (1..k)
  <2>1. PICK B : ExtendsTo(B, X, k, hook, db, trail)
    BY <1>1 DEF Conservative, k, cls
  <2>2. B \in SUBSET (1..n) /\ B \cap (1..k) = X /\ Agrees(B, db, trail)
    BY <2>1 DEF ExtendsTo, n
  <2>3. \A i \in 1..Len(trail) : trail[i].level = 0 => Holds(trail[i].lit, B)
    BY <1>3, <2>2, RootsHold
  <2>4. \A c \in Range(db) : Sat(B, Range(c))
    BY <1>3, <2>2 DEF Agrees, Range
  <2>5. \A r \in Range(trail) : r.level = 0 => Sat(B, {r.lit})
    <3>1. \A r \in Range(trail) : r.level = 0 => Holds(r.lit, B)
      BY <1>3, <2>3 DEF Range
    <3>2. QED
      BY <3>1 DEF Sat
  <2>6. \A c \in Learned : Sat(B, c)
    BY <2>4, <2>5 DEF Learned
  <2>7. B \in Models(n, Learned)
    BY <1>9, <2>2, <2>6
  <2>8. QED
    BY <2>2, <2>7
<1>12. ASSUME NEW B \in Models(n, Learned) PROVE B \cap (1..k) \in Models(k, Range(cls))
  <2> DEFINE A == B \cap (1..k)
  <2>1. \A c \in Learned : Sat(B, c)
    BY <1>9
  <2>2. \A c \in SUBSET Literals(k) : Sat(A, c) <=> Sat(B, c)
    <3>1. A \cap (1..k) = B \cap (1..k)
      OBVIOUS
    <3> HIDE DEF A
    <3>2. QED
      BY <1>3, <3>1, HoldsSame
  <2>3. A \in SUBSET (1..k)
    OBVIOUS
  <2> HIDE DEF A
  <2>4. \A c \in Range(Units(cls)) : Sat(A, c)
    <3>1. TAKE c \in Range(Units(cls))
    <3>2. PICK i \in 1..Len(trail) : c = {trail[i].lit} /\ trail[i].level = 0
      BY <1>1, <1>5 DEF RootUnits, cls
    <3>3. trail[i] \in Range(trail)
      BY <1>3 DEF Range
    <3>4. c \in Learned
      BY <3>2, <3>3 DEF Learned
    <3>5. c \in SUBSET Literals(k)
      BY <1>6, <1>8
    <3>6. QED
      BY <2>1, <2>2, <3>4, <3>5
  <2>5. \A c \in Range(Long(cls)) : Sat(A, c)
    <3>1. TAKE c \in Range(Long(cls))
    <3>2. PICK i \in 1..M : c = Long(cls)[i]
      BY <1>7 DEF Range
    <3>3. i \in 1..Len(db) /\ c = Range(db[i])
      BY <1>2, <1>3, <3>2
    <3>4. db[i] \in Range(db)
      BY <1>3, <3>3 DEF Range
    <3>5. c \in Learned
      BY <3>3, <3>4 DEF Learned
    <3>6. c \in SUBSET Literals(k)
      BY <1>6, <1>8
    <3>7. QED
      BY <2>1, <2>2, <3>5, <3>6
  <2>6. \A c \in Range(cls) : Sat(A, c)
    BY <1>3, <1>5, <2>4, <2>5, FormulaHolds
  <2>7. QED
    BY <1>10, <2>3, <2>6 DEF A
<1>13. Models(k, Range(cls)) = {X \intersect 1..k : X \in Models(n, Learned)}
  BY <1>11, <1>12
<1>14. QED
  BY <1>13 DEF k, cls, n

\* So the answers are right.
LEMMA InvAnswersRight ==
    ASSUME AnswerInv
    PROVE  AnswersRight
<1>1. Judged
  BY DEF AnswerInv
<1>2. Trivial(inst.cls)
         \/ Models(inst.n, Range(inst.cls)) = {X \intersect 1..inst.n : X \in Models(hook.next - 1, Learned)}
  BY LearnedModels
<1>3. QED
  BY <1>1, <1>2 DEF AnswersRight, Judged

\* A satisfiable answer comes with a model, an unsatisfiable one is given for no formula
\* that has a model, and what was learned on the way excludes no model: whatever the hook
\* returns, cuts of the cone, names for pairs of literals or the chain of a parity.
THEOREM AnswersAreRight == Spec => []AnswersRight
<1>1. Init => AnswerInv
  BY StartAnswer
<1>2. AnswerInv /\ [Next]_vars => AnswerInv'
  BY StepAnswer
<1>3. AnswerInv => AnswersRight
  BY InvAnswersRight
<1>4. QED
  BY <1>1, <1>2, <1>3, PTL DEF Spec

----------------------------------------------------------------------------
\* The levels of the trail.

\* What has a reason above level 0 follows from a literal of its own level, at least.
Tight(tr, clauses) ==
    \A i \in 1..Len(tr) : tr[i].why # Decision /\ tr[i].level > 0 =>
       \E l \in Range(clauses[tr[i].why]) \ {tr[i].lit} :
          \E j \in 1..i - 1 : tr[j].lit = -l /\ tr[j].level = tr[i].level

\* The entry of a literal that is false.
LEMMA FalseAt ==
    ASSUME NEW n, Falsified(n), NEW l \in Literals(n), -l \in Lits(trail)
    PROVE  /\ l \in Int \ {0} /\ -(-l) = l /\ Var(-l) = Var(l)
           /\ \E i \in 1..Len(trail) : /\ trail[i].lit = -l
                                       /\ LevelOf(trail, l) = trail[i].level /\ LevelOf(trail, -l) = trail[i].level
                                       /\ ReasonOf(trail, -l) = trail[i].why
<1>1. n \in Nat /\ Len(db) \in Nat /\ trail \in Seq(Entries(n, Len(db))) /\ Ordered(trail)
  BY DEF Falsified, TrailFits
<1>2. l \in Int \ {0} /\ Var(-l) = Var(l)
  BY <1>1, LiteralsFinite
<1>3. PICK i \in 1..Len(trail) : trail[i].lit = -l
  BY <1>1, LitsTell
<1>4. /\ LevelOf(trail, l) = trail[i].level /\ LevelOf(trail, -l) = trail[i].level
      /\ ReasonOf(trail, -l) = trail[i].why
  BY <1>1, <1>2, <1>3, EntryTells
<1>5. -(-l) = l
  BY <1>2
<1>6. QED
  BY <1>2, <1>3, <1>4, <1>5

\* The literals of the clauses that are resolved to get a cut.
Parents(R) == Range(db[confl]) \cup UNION {Others(t) : t \in R}

\* c is what is left of them: each one is in c, or resolved on, or false at level 0.
Covers(R, c) ==
    /\ R \subseteq DOMAIN Cone.reasons
    /\ \A l \in Parents(R) : l \in c \/ -l \in R \/ l \in Neg(Cone.roots)

\* Every cut is of that form.
LEMMA CutCovered ==
    ASSUME NEW n, Falsified(n), NEW c \in Cuts(Cone)
    PROVE  \E R : Covers(R, c)
<1> DEFINE P == {d \in SUBSET Literals(n) : \E R : Covers(R, d)}
<1>1. ConeTyped(Cone, n) /\ ConeLevels /\ n \in Nat
  BY ConeIsTyped, ConeHasLevels DEF Falsified
<1>2. Cone.conflict = Range(db[confl]) /\ \A t \in DOMAIN Cone.reasons : Cone.reasons[t] \ {t} = Others(t)
  BY <1>1 DEF ConeLevels
<1>3. Cone.conflict \subseteq Literals(n) /\ \A t \in DOMAIN Cone.reasons : Others(t) \subseteq Literals(n)
  <2>1. \A t \in DOMAIN Cone.reasons : Cone.reasons[t] \in ConeClauses(Cone)
    BY DEF ConeClauses, Range
  <2>2. Cone.conflict \in ConeClauses(Cone)
    BY DEF ConeClauses
  <2>3. QED
    BY <1>1, <1>2, <2>1, <2>2 DEF ConeTyped
<1>4. WithoutRoots(Cone, Cone.conflict) \in P
  <2> DEFINE d == WithoutRoots(Cone, Cone.conflict)
  <2>1. d \subseteq Literals(n) /\ d = Cone.conflict \ Neg(Cone.roots)
    BY <1>3 DEF WithoutRoots
  <2> HIDE DEF d
  <2>2. Covers({}, d)
    BY <1>2, <2>1 DEF Covers, Parents
  <2>3. d \in P
    BY <2>1, <2>2
  <2>4. QED
    BY <2>3 DEF d
<1>5. ASSUME NEW d \in SUBSET Literals(n), NEW t \in DOMAIN Cone.reasons, d \in P, -t \in d
      PROVE  Resolvent(Cone, d, t) \in P
  <2>1. PICK R : Covers(R, d)
    BY <1>5
  <2> DEFINE e == Resolvent(Cone, d, t)
             S == R \cup {t}
  <2>2. e = (d \ {-t}) \cup (Others(t) \ Neg(Cone.roots))
    BY <1>2 DEF Resolvent, WithoutRoots
  <2> HIDE DEF e
  <2>3. e \in SUBSET Literals(n)
    BY <1>3, <2>2
  <2>4. t \in Lits(trail) /\ t \in Int
    <3>1. t \in Lits(trail)
      BY <1>1 DEF ConeLevels, AtLevel
    <3>2. Lits(trail) \in SUBSET Literals(n)
      BY <1>1, LitsTell DEF Falsified, TrailFits
    <3>3. QED
      BY <1>1, <3>1, <3>2, LiteralsFinite
  <2>5. -(-t) = t
    BY <2>4
  <2>6. Parents(S) = Parents(R) \cup Others(t)
    BY DEF Parents
  <2>7. ASSUME NEW l \in Parents(S) PROVE l \in e \/ -l \in S \/ l \in Neg(Cone.roots)
    <3>1. CASE l \in Others(t)
      BY <2>2, <3>1
    <3>2. CASE l \in Parents(R)
      <4>1. l \in d \/ -l \in R \/ l \in Neg(Cone.roots)
        BY <2>1, <3>2 DEF Covers
      <4>2. CASE l = -t
        BY <2>5, <4>2
      <4>3. CASE l # -t
        BY <2>2, <4>1, <4>3
      <4>4. QED
        BY <4>2, <4>3
    <3>3. QED
      BY <2>6, <3>1, <3>2
  <2>8. S \subseteq DOMAIN Cone.reasons
    BY <2>1 DEF Covers
  <2> HIDE DEF S
  <2>9. Covers(S, e)
    BY <2>7, <2>8 DEF Covers
  <2>10. QED
    BY <2>3, <2>9 DEF e
<1> HIDE DEF P
<1>6. Cuts(Cone) \subseteq P
  BY <1>1, <1>4, <1>5, CutsFrom
<1>7. QED
  BY <1>6 DEF P

\* The state in which the walk back ends.
WalkEnd == WalkBack(CurLevel(trail))[Len(trail)]

\* It is in every set that has the state at the start and that no step leaves.
LEMMA WalkEnds ==
    ASSUME NEW n, Falsified(n), NEW W,
           Meet([open |-> {}, learned |-> {}], Range(db[confl]), CurLevel(trail)) \in W,
           \A k \in 1..Len(trail) : \A s \in W :
              Walked(n, k - 1, s) => ResolveOn(s, trail[Len(trail) - k + 1].lit, CurLevel(trail)) \in W
    PROVE  WalkEnd \in W /\ Walked(n, Len(trail), WalkEnd)
<1> DEFINE N == Len(trail)
           f == WalkBack(CurLevel(trail))
           T == {k \in 0..N : f[k] \in W}
<1>1. WalksBack(f, n)
  BY WalkSteps
<1>2. N \in Nat /\ WalkEnd = f[N]
  BY DEF Falsified, TrailFits, WalkEnd
<1> HIDE DEF f
<1>3. 0 \in T
  BY <1>1, <1>2 DEF WalksBack
<1>4. ASSUME NEW k \in 0..N - 1, k \in T PROVE k + 1 \in T
  <2>1. k + 1 \in 1..N /\ k + 1 \in 0..N /\ (k + 1) - 1 = k /\ k \in 0..N
    BY <1>2
  <2>2. f[k + 1] = ResolveOn(f[k], trail[N - (k + 1) + 1].lit, CurLevel(trail)) /\ Walked(n, k, f[k])
    BY <1>1, <2>1 DEF WalksBack
  <2>3. f[k] \in W
    BY <1>4
  <2>4. f[k + 1] \in W
    BY <2>1, <2>2, <2>3
  <2>5. QED
    BY <2>1, <2>4
<1>5. 0..N \subseteq T
  <2> HIDE DEF T
  <2>1. QED
    BY <1>2, <1>3, <1>4, UpTo
<1>6. N \in 0..N
  BY <1>2
<1>7. QED
  BY <1>1, <1>2, <1>5, <1>6 DEF WalksBack

\* A step of the walk back that changes anything resolves on an open literal.
LEMMA ResolveCases ==
    ASSUME NEW n, Falsified(n), NEW k, NEW s, Walked(n, k, s), NEW t
    PROVE  \/ ResolveOn(s, t, CurLevel(trail)) = s
           \/ /\ t \in s.open /\ Cardinality(s.open) > 1
              /\ ResolveOn(s, t, CurLevel(trail)).open = (s.open \ {t}) \cup AtLevel(Neg(Others(t)), CurLevel(trail))
              /\ ResolveOn(s, t, CurLevel(trail)).learned
                    = s.learned \cup {l \in Others(t) : LevelOf(trail, l) \in 1..CurLevel(trail) - 1}
<1>1. s \in [open : SUBSET Literals(n), learned : SUBSET Lower(n)] /\ n \in Nat
  BY DEF Walked, Walks, Falsified
<1>2. SUFFICES ASSUME t \in s.open, Cardinality(s.open) # 1
               PROVE  /\ Cardinality(s.open) > 1
                      /\ ResolveOn(s, t, CurLevel(trail)).open = (s.open \ {t}) \cup AtLevel(Neg(Others(t)), CurLevel(trail))
                      /\ ResolveOn(s, t, CurLevel(trail)).learned
                            = s.learned \cup {l \in Others(t) : LevelOf(trail, l) \in 1..CurLevel(trail) - 1}
  BY DEF ResolveOn
<1>3. IsFiniteSet(s.open) /\ Cardinality(s.open) \in Nat
  <2>1. IsFiniteSet(s.open)
    BY <1>1, LiteralsFinite, FS_Subset
  <2>2. QED
    BY <2>1, FS_CardinalityType
<1>4. Cardinality(s.open) > 1
  <2>1. Cardinality(s.open) # 0
    BY <1>2, <1>3, FS_EmptySet
  <2>2. QED
    BY <1>2, <1>3, <2>1
<1> DEFINE cut == [s EXCEPT !.open = @ \ {t}]
<1>5. cut.open = s.open \ {t} /\ cut.learned = s.learned
  BY <1>1
<1>6. ResolveOn(s, t, CurLevel(trail)) = Meet(cut, Others(t), CurLevel(trail))
  BY <1>2 DEF ResolveOn
<1> HIDE DEF cut
<1>7. QED
  BY <1>4, <1>5, <1>6 DEF Meet

\* What is learned is false.
LEMMA LearnedFalse ==
    ASSUME NEW n, Falsified(n)
    PROVE  Neg(WalkEnd.learned) \subseteq Lits(trail) /\ Walked(n, Len(trail), WalkEnd)
<1> DEFINE W == {s \in Walks(n) : Neg(s.learned) \subseteq Lits(trail)}
           b == Meet([open |-> {}, learned |-> {}], Range(db[confl]), CurLevel(trail))
<1>1. WalksBack(WalkBack(CurLevel(trail)), n) /\ 0 \in 0..Len(trail)
  BY WalkSteps DEF Falsified, TrailFits
<1>2. b \in Walks(n)
  BY <1>1 DEF WalksBack, Walked
<1>3. b.learned = {l \in Range(db[confl]) : LevelOf(trail, l) \in 1..CurLevel(trail) - 1}
  BY DEF Meet
<1> HIDE DEF b
<1>4. b \in W
  BY <1>2, <1>3 DEF Falsified, Neg
<1>5. ASSUME NEW k \in 1..Len(trail), NEW s \in W, Walked(n, k - 1, s)
      PROVE  ResolveOn(s, trail[Len(trail) - k + 1].lit, CurLevel(trail)) \in W
  <2> DEFINE t == trail[Len(trail) - k + 1].lit
             new == ResolveOn(s, t, CurLevel(trail))
  <2>1. new \in Walks(n)
    BY <1>5, ResolveFits DEF Walked
  <2>2. \/ new = s
        \/ t \in s.open /\ new.learned = s.learned \cup {l \in Others(t) : LevelOf(trail, l) \in 1..CurLevel(trail) - 1}
    BY <1>5, ResolveCases
  <2> HIDE DEF new, t
  <2>3. CASE new = s
    BY <1>5, <2>3 DEF new, t
  <2>4. CASE t \in s.open /\ new.learned = s.learned \cup {l \in Others(t) : LevelOf(trail, l) \in 1..CurLevel(trail) - 1}
    <3>1. t \in Lits(trail)
      BY <1>5, <2>4 DEF Walked
    <3>2. Neg(Others(t)) \subseteq Lits(trail)
      BY <3>1, OthersOnTrail
    <3>3. Neg(new.learned) \subseteq Lits(trail)
      BY <2>4, <3>2 DEF Neg
    <3>4. new \in W
      BY <2>1, <3>3
    <3>5. QED
      BY <3>4 DEF new, t
  <2>5. QED
    BY <2>2, <2>3, <2>4
<1> HIDE DEF W
<1>6. WalkEnd \in W /\ Walked(n, Len(trail), WalkEnd)
  BY <1>4, <1>5, WalkEnds DEF b
<1>7. QED
  BY <1>6 DEF W

\* Unless the search goes back to level 0, a literal of the level to go back to is learned.
LEMMA LevelLearned ==
    ASSUME NEW n, Falsified(n), Analyze.level > 0
    PROVE  /\ Analyze.clause = WalkEnd.learned \cup Neg(WalkEnd.open)
           /\ \E l \in WalkEnd.learned : l \in Literals(n) /\ -l \in Lits(trail) /\ LevelOf(trail, l) = Analyze.level
<1> DEFINE level == CurLevel(trail)
           S == {0} \cup {LevelOf(trail, l) : l \in WalkEnd.learned}
<1>1. Analyze.clause = WalkEnd.learned \cup Neg(WalkEnd.open) /\ Analyze.level = Max(S)
  BY DEF Analyze, WalkEnd
<1>2. /\ Neg(WalkEnd.learned) \subseteq Lits(trail)
      /\ WalkEnd.learned \in SUBSET Lower(n)
  BY LearnedFalse DEF Walked, Walks
<1>3. level \in Nat
  BY CurLevelIsTop DEF Falsified, TrailFits
<1>4. \A l \in WalkEnd.learned : LevelOf(trail, l) \in 1..level - 1
  BY <1>2 DEF Lower
<1>5. S \in SUBSET (0..level) /\ S # {}
  BY <1>3, <1>4
<1> HIDE DEF S
<1>6. Max(S) \in S
  BY <1>3, <1>5, MaxIsGreatest
<1>7. PICK l \in WalkEnd.learned : LevelOf(trail, l) = Analyze.level
  <2>1. Analyze.level \in S
    BY <1>1, <1>6
  <2>2. Analyze.level # 0
    OBVIOUS
  <2>3. QED
    BY <2>1, <2>2 DEF S
<1>8. l \in Literals(n) /\ -l \in Lits(trail)
  BY <1>2, <1>7 DEF Lower, Neg
<1>9. QED
  BY <1>1, <1>7, <1>8

\* A literal that is false above level 0 is not false because of a root.
LEMMA NotByRoot ==
    ASSUME NEW n, Falsified(n), NEW l, l \in Int, LevelOf(trail, -l) # 0
    PROVE  l \notin Neg(Cone.roots)
<1>1. SUFFICES ASSUME NEW x \in Cone.roots, l = -x PROVE FALSE
  BY DEF Neg
<1>2. x \in Lits(trail) /\ LevelOf(trail, x) = 0
  BY ConeHasLevels DEF ConeLevels, AtLevel
<1>3. x \in Int
  <2>1. x \in Literals(n) /\ n \in Nat
    BY <1>2, LitsTell DEF Falsified, TrailFits
  <2>2. QED
    BY <2>1, LiteralsFinite
<1>4. x = -l
  BY <1>1, <1>3
<1>5. QED
  BY <1>2, <1>4

\* Before whatever is resolved on, a literal of the current level is false that stays.
LEMMA FirstResolved ==
    ASSUME NEW n, Falsified(n), Tight(trail, db), NEW c, NEW R, Covers(R, c),
           NEW i \in 1..Len(trail), trail[i].lit \in R
    PROVE  \E x \in c : /\ LevelOf(trail, x) = CurLevel(trail)
                        /\ \E j \in 1..i - 1 : trail[j].lit = -x
<1> DEFINE T == {p \in 1..Len(trail) : trail[p].lit \in R}
<1>1. /\ n \in Nat /\ Len(db) \in Nat /\ db \in Seq(Clauses(n)) /\ TrailFits(trail, db, n)
      /\ trail \in Seq(Entries(n, Len(db))) /\ Ordered(trail) /\ Len(trail) \in Nat /\ CurLevel(trail) > 0
  BY DEF Falsified, TrailFits
<1>2. PICK p \in T : \A q \in T : p <= q
  <2>1. T \in SUBSET Nat /\ i \in T
    BY <1>1
  <2> HIDE DEF T
  <2>2. QED
    BY <2>1, LeastNat
<1> DEFINE o == trail[p].lit
<1>3. p \in 1..Len(trail) /\ o \in R /\ p <= i /\ \A q \in 1..p - 1 : trail[q].lit \notin R
  <2>1. p \in 1..Len(trail) /\ o \in R /\ p <= i
    BY <1>2
  <2>2. \A q \in 1..p - 1 : q \in 1..Len(trail) /\ ~(p <= q)
    BY <1>1, <2>1
  <2>3. QED
    BY <1>2, <2>1, <2>2
<1> HIDE DEF T
<1>4. o \in DOMAIN Cone.reasons /\ LevelOf(trail, o) = CurLevel(trail) /\ ReasonOf(trail, o) # Decision
  BY <1>3, ConeHasLevels DEF Covers, ConeLevels, AtLevel
<1>5. LevelOf(trail, o) = trail[p].level /\ ReasonOf(trail, o) = trail[p].why
  BY <1>1, <1>3, EntryTells
<1>6. PICK l \in Range(db[trail[p].why]) \ {o} : \E j \in 1..p - 1 : trail[j].lit = -l /\ trail[j].level = trail[p].level
  BY <1>1, <1>3, <1>4, <1>5 DEF Tight
<1>7. PICK j \in 1..p - 1 : trail[j].lit = -l /\ trail[j].level = CurLevel(trail)
  BY <1>4, <1>5, <1>6
<1>8. j \in 1..Len(trail) /\ j \in 1..i - 1
  BY <1>1, <1>3, <1>7
<1>9. l \in Others(o)
  BY <1>4, <1>5, <1>6 DEF Others
<1>10. l \in c \/ -l \in R \/ l \in Neg(Cone.roots)
  BY <1>3, <1>9 DEF Covers, Parents
<1>11. -l \notin R
  BY <1>3, <1>7
<1>12. LevelOf(trail, -l) = CurLevel(trail) /\ LevelOf(trail, l) = CurLevel(trail) /\ l \in Int /\ CurLevel(trail) # 0
  <2>1. o \in Lits(trail)
    BY <1>1, <1>3, LitsTell
  <2>2. l \in Literals(n)
    BY <1>9, <2>1, OthersOnTrail
  <2>3. l \in Int \ {0} /\ Var(-l) = Var(l)
    BY <1>1, <2>2, LiteralsFinite
  <2>4. QED
    BY <1>1, <1>7, <1>8, <2>3, EntryTells
<1>13. l \notin Neg(Cone.roots)
  BY <1>1, <1>12, NotByRoot
<1>14. QED
  BY <1>7, <1>8, <1>10, <1>11, <1>12, <1>13

\* What the walk back has so far is in the cut c, or resolved on for it.
Kept(s, R, c) == s.learned \subseteq c /\ \A t \in s.open : t \in R \/ -t \in c

\* So is what it adds of a clause that it meets.
LEMMA MetKept ==
    ASSUME NEW n, Falsified(n), NEW c, NEW R, Covers(R, c), NEW lits \in SUBSET Parents(R)
    PROVE  /\ {l \in lits : LevelOf(trail, l) \in 1..CurLevel(trail) - 1} \subseteq c
           /\ \A t \in AtLevel(Neg(lits), CurLevel(trail)) : t \in R \/ -t \in c
<1> DEFINE level == CurLevel(trail)
<1>1. n \in Nat /\ db \in Seq(Clauses(n)) /\ confl \in 1..Len(db) /\ level \in Nat /\ level > 0
  BY CurLevelIsTop DEF Falsified, TrailFits
<1>2. ConeLevels /\ R \subseteq DOMAIN Cone.reasons
  BY ConeHasLevels DEF Covers
<1>3. \A t \in R : t \in Lits(trail) /\ LevelOf(trail, t) = level
  BY <1>2 DEF ConeLevels, AtLevel
<1>4. ASSUME NEW l \in lits PROVE l \in Literals(n) /\ -l \in Lits(trail)
  <2>1. CASE l \in Range(db[confl])
    <3> DEFINE d == db[confl]
    <3>1. d \in Seq(Literals(n))
      BY <1>1 DEF Clauses
    <3> HIDE DEF d
    <3>2. Range(d) \subseteq Literals(n)
      BY <3>1 DEF Range
    <3>3. QED
      BY <2>1, <3>2 DEF d, Falsified, Neg
  <2>2. ASSUME NEW t \in R, l \in Others(t) PROVE l \in Literals(n) /\ -l \in Lits(trail)
    <3>1. Others(t) \subseteq Literals(n) /\ Neg(Others(t)) \subseteq Lits(trail)
      BY <1>3, OthersOnTrail
    <3>2. QED
      BY <2>2, <3>1 DEF Neg
  <2>3. QED
    BY <2>1, <2>2 DEF Parents
<1>5. ASSUME NEW l \in lits, LevelOf(trail, l) # 0 PROVE (l \in c \/ -l \in R) /\ LevelOf(trail, -l) = LevelOf(trail, l) /\ -(-l) = l
  <2>1. l \in Literals(n) /\ -l \in Lits(trail)
    BY <1>4
  <2>2. LevelOf(trail, -l) = LevelOf(trail, l) /\ -(-l) = l
    BY <2>1, FalseAt
  <2>3. l \notin Neg(Cone.roots)
    BY <1>5, <2>1, <2>2, FalseAt, NotByRoot
  <2>4. l \in c \/ -l \in R \/ l \in Neg(Cone.roots)
    BY DEF Covers
  <2>5. QED
    BY <2>2, <2>3, <2>4
<1>6. ASSUME NEW l \in lits, LevelOf(trail, l) \in 1..level - 1 PROVE l \in c
  <2>1. LevelOf(trail, l) # 0 /\ LevelOf(trail, l) # level
    BY <1>1, <1>6
  <2>2. QED
    BY <1>3, <1>5, <2>1
<1>7. ASSUME NEW t \in AtLevel(Neg(lits), level) PROVE t \in R \/ -t \in c
  <2>1. PICK l \in lits : t = -l
    BY DEF AtLevel, Neg
  <2>2. LevelOf(trail, t) = level
    BY DEF AtLevel
  <2>3. LevelOf(trail, l) = level
    <3>1. LevelOf(trail, -l) = LevelOf(trail, l)
      BY <1>4, FalseAt
    <3>2. QED
      BY <2>1, <2>2, <3>1
  <2>4. QED
    BY <1>1, <1>5, <2>1, <2>3
<1>8. QED
  BY <1>6, <1>7

\* A cut with one literal of the current level, at most, keeps all that _analyze_1uip learns.
LEMMA CutKeepsLearned ==
    ASSUME NEW n, Falsified(n), Tight(trail, db), NEW c \in Cuts(Cone),
           \A x, y \in c : LevelOf(trail, x) = CurLevel(trail) /\ LevelOf(trail, y) = CurLevel(trail) => x = y
    PROVE  WalkEnd.learned \subseteq c
<1> DEFINE N == Len(trail)
           b == Meet([open |-> {}, learned |-> {}], Range(db[confl]), CurLevel(trail))
<1>1. PICK R : Covers(R, c)
  BY CutCovered
<1> DEFINE W == {s \in Walks(n) : Kept(s, R, c)}
<1>2. WalksBack(WalkBack(CurLevel(trail)), n) /\ 0 \in 0..N /\ N \in Nat
  BY WalkSteps DEF Falsified, TrailFits
<1>3. b \in Walks(n)
  BY <1>2 DEF WalksBack, Walked
<1>4. /\ b.learned = {l \in Range(db[confl]) : LevelOf(trail, l) \in 1..CurLevel(trail) - 1}
      /\ b.open = AtLevel(Neg(Range(db[confl])), CurLevel(trail))
  BY DEF Meet
<1> HIDE DEF b, N
<1>5. b \in W
  <2>1. Range(db[confl]) \in SUBSET Parents(R)
    BY DEF Parents
  <2>2. Kept(b, R, c)
    BY <1>1, <1>4, <2>1, MetKept DEF Kept
  <2>3. QED
    BY <1>3, <2>2
<1>6. ASSUME NEW k \in 1..N, NEW s \in W, Walked(n, k - 1, s)
      PROVE  ResolveOn(s, trail[N - k + 1].lit, CurLevel(trail)) \in W
  <2> DEFINE p == N - k + 1
             t == trail[p].lit
             new == ResolveOn(s, t, CurLevel(trail))
             open == AtLevel(Neg(Others(t)), CurLevel(trail))
             below == {l \in Others(t) : LevelOf(trail, l) \in 1..CurLevel(trail) - 1}
  <2>1. new \in Walks(n)
    BY <1>6, ResolveFits DEF Walked, N
  <2>2. \/ new = s
        \/ /\ t \in s.open /\ Cardinality(s.open) > 1
           /\ new.open = (s.open \ {t}) \cup open /\ new.learned = s.learned \cup below
    BY <1>6, ResolveCases
  <2>3. p \in 1..N /\ N - (k - 1) = p
    BY <1>2
  <2> HIDE DEF new, p
  <2>4. CASE new = s
    BY <1>6, <2>4 DEF new, p
  <2>5. CASE /\ t \in s.open /\ Cardinality(s.open) > 1
             /\ new.open = (s.open \ {t}) \cup open /\ new.learned = s.learned \cup below
    <3>1. Kept(s, R, c)
      BY <1>6
    <3>2. t \in R
      <4>1. SUFFICES ASSUME t \notin R PROVE FALSE
        OBVIOUS
      <4>2. -t \in c
        BY <2>5, <3>1, <4>1 DEF Kept
      <4>3. \E u \in s.open : u # t
        <5>1. Cardinality({t}) = 1
          BY FS_Singleton
        <5>2. Cardinality(s.open) # Cardinality({t})
          BY <2>5, <5>1
        <5>3. s.open # {t}
          BY <5>2
        <5>4. QED
          BY <2>5, <5>3
      <4>4. PICK u \in s.open : u # t
        BY <4>3
      <4>5. PICK i \in 1..p : trail[i].lit = u
        BY <1>6, <2>3, <2>5 DEF Walked, N
      <4>6. i \in 1..N /\ i # p /\ i < p
        BY <1>2, <2>3, <4>4, <4>5
      <4>7. /\ n \in Nat /\ Len(db) \in Nat /\ trail \in Seq(Entries(n, Len(db))) /\ Ordered(trail)
            /\ DOMAIN trail = 1..N /\ \A q \in 1..N : trail[q].lit \in Int \ {0}
        <5>1. n \in Nat /\ Len(db) \in Nat /\ trail \in Seq(Entries(n, Len(db))) /\ Ordered(trail)
          BY DEF Falsified, TrailFits
        <5>2. QED
          BY <5>1, EntryTyped DEF N
      <4>8. /\ LevelOf(trail, t) = CurLevel(trail) /\ LevelOf(trail, u) = CurLevel(trail)
            /\ t \in Int \ {0} /\ u \in Int \ {0}
        BY <1>6, <2>3, <2>5, <4>4, <4>5, <4>6, <4>7 DEF Walked
      <4>9. LevelOf(trail, -t) = CurLevel(trail) /\ LevelOf(trail, -u) = CurLevel(trail)
        <5>1. Var(-t) = Var(t) /\ Var(-u) = Var(u)
          BY <4>8 DEF Var
        <5>2. QED
          BY <4>8, <5>1 DEF LevelOf
      <4>10. -u \notin c
        BY <4>2, <4>4, <4>8, <4>9
      <4>11. u \in R
        BY <3>1, <4>4, <4>10 DEF Kept
      <4>12. PICK x \in c : LevelOf(trail, x) = CurLevel(trail) /\ \E j \in 1..i - 1 : trail[j].lit = -x
        BY <1>1, <4>5, <4>6, <4>11, FirstResolved DEF N
      <4>13. x = -t
        BY <4>2, <4>9, <4>12
      <4>14. PICK j \in 1..i - 1 : trail[j].lit = -x
        BY <4>12
      <4>15. trail[j].lit = t /\ j \in 1..N /\ j < p
        BY <1>2, <2>3, <4>6, <4>8, <4>13, <4>14
      <4>16. QED
        BY <2>3, <4>7, <4>15 DEF Ordered
    <3>3. Others(t) \in SUBSET Parents(R)
      BY <3>2 DEF Parents
    <3>4. below \subseteq c /\ \A v \in open : v \in R \/ -v \in c
      BY <1>1, <3>3, MetKept
    <3> HIDE DEF below, open, t
    <3>5. Kept(new, R, c)
      BY <2>5, <3>1, <3>4 DEF Kept
    <3>6. new \in W
      BY <2>1, <3>5
    <3>7. QED
      BY <3>6 DEF new, p, t
  <2>6. QED
    BY <2>2, <2>4, <2>5
<1> HIDE DEF W
<1>7. WalkEnd \in W
  BY <1>5, <1>6, WalkEnds DEF b, N
<1>8. QED
  BY <1>7 DEF W, Kept

\* A literal of d is false at that level.
HasLevel(d, level) == \E l \in d : \E p \in 1..Len(trail) : trail[p].lit = -l /\ trail[p].level = level

\* All that MultiLearn returns, and every unit that any hook does, has a literal of the
\* level to go back to, if it has one of the current level at most.
LEMMA LearnedHasLevel ==
    ASSUME NEW n, Falsified(n), n = hook.next - 1, HookTyped(hook), inst.hook \in Hooks, Analyze.level > 0,
           NEW r \in Hooked(Cone, Analyze.clause), NEW d \in Range(r.learn),
           IF inst.hook.kind = "multi" THEN Tight(trail, db) ELSE Len(d) = 1,
           \A x, y \in Range(d) : LevelOf(trail, x) = CurLevel(trail) /\ LevelOf(trail, y) = CurLevel(trail) => x = y
    PROVE  HasLevel(Range(d), Analyze.level)
<1> DEFINE uip == Analyze.clause
           cone == Cone
           level == Analyze.level
<1>1. uip \in SUBSET Literals(n) /\ ConeTyped(cone, n) /\ HookedBy(r, cone, uip) /\ n \in Nat
  BY AnalyzeFits, ConeIsTyped, HookedKinds DEF Falsified
<1>2. ASSUME NEW c, WalkEnd.learned \subseteq c PROVE HasLevel(c, level)
  <2>1. PICK l \in WalkEnd.learned : l \in Literals(n) /\ -l \in Lits(trail) /\ LevelOf(trail, l) = level
    BY LevelLearned
  <2>2. PICK p \in 1..Len(trail) : trail[p].lit = -l /\ LevelOf(trail, l) = trail[p].level
    BY <2>1, FalseAt
  <2>3. QED
    BY <1>2, <2>1, <2>2 DEF HasLevel
<1>3. HasLevel(uip, level)
  <2>1. WalkEnd.learned \subseteq uip
    BY LevelLearned
  <2> HIDE DEF uip, level
  <2>2. QED
    BY <1>2, <2>1
<1>4. ASSUME NEW c \in Cuts(cone), d = Tuple(c), Tight(trail, db) PROVE HasLevel(Range(d), level)
  <2>1. c \in SUBSET Literals(n)
    BY <1>1, CutsTyped
  <2>2. Range(d) = c
    BY <1>1, <1>4, <2>1, TupleTyped
  <2>3. WalkEnd.learned \subseteq c
    BY <1>4, <2>2, CutKeepsLearned
  <2> HIDE DEF level
  <2>4. QED
    BY <1>2, <2>2, <2>3
<1>5. CASE d = Tuple(uip)
  <2> HIDE DEF uip, level
  <2>1. Range(d) = uip
    BY <1>1, <1>5, TupleTyped
  <2>2. QED
    BY <1>3, <2>1 DEF level
<1> HIDE DEF uip, cone, level
<1>6. CASE inst.hook.kind = "none" /\ r.learn = <<Tuple(uip)>>
  <2>1. d = Tuple(uip)
    BY <1>6 DEF Range
  <2>2. QED
    BY <1>5, <2>1
<1>7. CASE inst.hook.kind = "multi" /\ r \in MultiLearn(inst.hook.k, hook, cone, uip)
  <2>1. IsFiniteSet(Cuts(cone))
    BY <1>1, CutsTyped
  <2> DEFINE T == {Tuple(c) : c \in Cuts(cone) \cup {uip}}
  <2>2. r.learn \in Seq(T)
    BY <1>7, <2>1, MultiResult
  <2>3. d \in T
    <3> HIDE DEF T
    <3>1. QED
      BY <2>2 DEF Range
  <2>4. PICK c \in Cuts(cone) \cup {uip} : d = Tuple(c)
    BY <2>3
  <2>5. QED
    BY <1>4, <1>5, <1>7, <2>4 DEF level
<1>8. CASE inst.hook.kind # "multi" /\ UnitFirst(r, uip)
  <2>1. Len(d) = 1
    BY <1>8
  <2>2. d = Tuple(uip) \/ Len(d) > 1
    BY <1>8 DEF UnitFirst
  <2>3. QED
    BY <1>5, <2>1, <2>2
<1>9. CASE inst.hook.kind = "ext" /\ r \in ExtLearn(inst.hook, hook, cone, uip)
  <2>1. UnitFirst(r, uip)
    BY <1>1, <1>9, ExtTaught
  <2>2. QED
    BY <1>8, <1>9, <2>1
<1>10. CASE /\ inst.hook.kind = "xor" /\ inst.hook.offline \in BOOLEAN
            /\ r \in XorLearn(inst.hook.offline, InputXors(Range(inst.cls)), hook, cone, uip)
  <2>1. UnitFirst(r, uip)
    BY <1>1, <1>10, XorTaught
  <2>2. QED
    BY <1>8, <1>10, <2>1
<1>11. QED
  BY <1>1, <1>6, <1>7, <1>9, <1>10 DEF HookedBy

\* What has no reason above level 0 is the first of its level, which is the next one.
Stepwise(tr) ==
    \A i \in 1..Len(tr) : tr[i].why = Decision /\ tr[i].level > 0 => i = 1 \/ tr[i-1].level = tr[i].level - 1

\* What the search keeps of the levels, whatever it learns.
LevelsOK == Stepwise(trail) /\ (inst.hook.kind = "multi" => Tight(trail, db))

\* The trail after a conflict, with the part that is kept.
Jumped(n, m, k, level, learn) ==
    /\ n \in Nat /\ m \in Nat /\ Len(db) \in Nat /\ Len(db') \in Nat /\ level \in Nat /\ level < CurLevel(trail)
    /\ k \in 0..Len(trail) /\ Relearned(trail', trail, k, level, learn)
    /\ trail \in Seq(Entries(n, Len(db))) /\ Ordered(trail)
    /\ trail' \in Seq(Entries(m, Len(db'))) /\ Ordered(trail')

\* Nothing that is new above level 0 was false at the level of the jump.
LEMMA NewWasOpen ==
    ASSUME NEW n, NEW m, NEW k, NEW level, NEW learn, Jumped(n, m, k, level, learn), level > 0,
           NEW i \in 1..Len(trail'), i > k, NEW p \in 1..Len(trail), trail[p].level = level
    PROVE  trail[p].lit # -trail'[i].lit
<1>1. /\ p <= k /\ k \in Nat /\ Len(trail) \in Nat /\ Len(trail') \in Nat
  BY DEF Jumped, Relearned
<1>2. p \in 1..k
  BY <1>1
<1>3. trail'[i].level = level
  BY DEF Jumped, Relearned
<1>4. p <= Len(trail')
  <2>1. p <= Len(trail') \/ \A j \in 1..Len(trail') : trail'[j].level = 0
    BY <1>2 DEF Jumped, Relearned
  <2>2. QED
    BY <1>3, <2>1
<1>5. p \in 1..Len(trail') /\ trail'[p] = trail[p]
  <2>1. p \in 1..Len(trail')
    BY <1>1, <1>4
  <2>2. QED
    BY <1>1, <2>1 DEF Jumped, Relearned
<1>6. trail'[p].lit # -trail'[i].lit
  BY <1>5, TrailProper DEF Jumped
<1>7. QED
  BY <1>5, <1>6

\* What is false before a new entry, at a lower level, was false before the jump.
LEMMA LowerWasFalse ==
    ASSUME NEW n, NEW m, NEW k, NEW level, NEW learn, Jumped(n, m, k, level, learn),
           NEW x \in Literals(m), NEW j \in 1..Len(trail'), trail'[j].lit = -x, trail'[j].level # level
    PROVE  LevelOf(trail, x) < level
<1>1. j <= k /\ j \in 1..Len(trail) /\ trail[j] = trail'[j] /\ trail[j].level <= level
  <2>1. k \in Nat /\ Len(trail) \in Nat /\ k <= Len(trail) /\ Len(trail') \in Nat
    BY DEF Jumped
  <2>2. j <= k
    BY <2>1 DEF Jumped, Relearned
  <2>3. j \in 1..Len(trail)
    BY <2>1, <2>2
  <2>4. QED
    BY <2>2, <2>3 DEF Jumped, Relearned
<1>2. Var(x) = Var(trail[j].lit)
  <2>1. Var(-x) = Var(x)
    BY LiteralsFinite DEF Jumped
  <2>2. QED
    BY <1>1, <2>1
<1>3. LevelOf(trail, x) = trail[j].level
  BY <1>1, <1>2, EntryTells DEF Jumped
<1>4. trail[j].level \in Nat /\ level \in Nat
  BY <1>1, EntryTyped DEF Jumped
<1>5. QED
  BY <1>1, <1>3, <1>4

\* A conflict that is learned from keeps the levels.
LEMMA LearnLevels ==
    ASSUME IInv, LevelsOK, Learn
    PROVE  LevelsOK'
<1> DEFINE n == hook.next - 1
           M == Len(Long(inst.cls))
<1>1. confl # NoConflict /\ CurLevel(trail) > 0
  BY LearnLearns
<1>2. PICK r : Learns(r, Analyze.level)
  BY LearnLearns
<1> DEFINE level == Analyze.level
           m == r.hook.next - 1
<1>3. PICK k : Relearns(r, level, n, m, k)
  BY <1>1, <1>2, LearnsFits
<1>4. Parts(n, M) /\ Falsified(n) /\ HookTyped(hook) /\ inst.hook \in Hooks
  BY <1>1, InvParts, ConflictFalsified, InstanceTyped DEF IInv, ClausesOK
<1>5. inst' = inst /\ r \in Hooked(Cone, Analyze.clause)
  BY <1>2 DEF Learns
<1>6. ASSUME level > 0, NEW d \in Range(r.learn), IF inst.hook.kind = "multi" THEN Tight(trail, db) ELSE Len(d) = 1,
             \A x, y \in Range(d) : LevelOf(trail, x) = CurLevel(trail) /\ LevelOf(trail, y) = CurLevel(trail) => x = y
      PROVE  HasLevel(Range(d), level)
  BY <1>4, <1>5, <1>6, LearnedHasLevel
<1> DEFINE learn == r.learn
<1>7. /\ Jumped(n, m, k, level, learn) /\ NewReasons(trail', k, Len(db))
      /\ learn \in Seq(Clauses(m)) /\ db' \in Seq(Clauses(m)) /\ Len(db) <= Len(db')
      /\ \A i \in 1..Len(db) : db'[i] = db[i]
      /\ \A i \in Len(db) + 1..Len(db') : db'[i] \in Range(learn)
      /\ TrailFits(trail', db', m)
  BY <1>3, <1>4 DEF Relearns, Jumped, Parts, TrailFits
<1> HIDE DEF n, m, M, level, learn
<1>8. /\ n \in Nat /\ m \in Nat /\ level \in Nat /\ level < CurLevel(trail) /\ CurLevel(trail) \in Nat
      /\ k \in Nat /\ k <= Len(trail) /\ Len(trail) \in Nat /\ Len(trail') \in Nat /\ Len(db) \in Nat /\ Len(db') \in Nat
      /\ trail \in Seq(Entries(n, Len(db))) /\ trail' \in Seq(Entries(m, Len(db')))
      /\ \A i \in 1..Len(trail) : trail[i].level <= level <=> i <= k
      /\ \A i \in 1..Len(trail') : i <= k => trail'[i] = trail[i]
      /\ \A i \in 1..Len(trail') : i > k => trail'[i].level = level
  <2>1. CurLevel(trail) \in Nat
    BY <1>7, CurLevelIsTop DEF Jumped
  <2>2. QED
    BY <1>7, <2>1 DEF Jumped, Relearned
<1>9. \A c \in Range(learn) : c \in Clauses(m) /\ Range(c) \in SUBSET Literals(m)
  <2>1. \A c \in Range(learn) : c \in Clauses(m)
    BY <1>7 DEF Range
  <2>2. \A c \in Range(learn) : c \in Seq(Literals(m))
    BY <2>1 DEF Clauses
  <2>3. QED
    BY <2>1, <2>2 DEF Range
<1>10. ASSUME NEW i \in 1..Len(trail'), trail'[i].why = Decision, trail'[i].level > 0
       PROVE  i = 1 \/ trail'[i-1].level = trail'[i].level - 1
  <2>1. CASE i <= k
    <3>1. i \in 1..Len(trail) /\ trail'[i] = trail[i]
      BY <1>8, <2>1
    <3>2. i = 1 \/ (i - 1 \in 1..Len(trail') /\ i - 1 <= k)
      BY <1>8, <2>1
    <3>3. i = 1 \/ trail'[i-1] = trail[i-1]
      BY <1>8, <3>2
    <3>4. QED
      BY <1>10, <3>1, <3>3 DEF LevelsOK, Stepwise
  <2>2. CASE i > k
    <3>1. PICK c \in Range(learn) : Len(c) = 1 /\ c[1] = trail'[i].lit
      BY <1>7, <1>10, <2>2 DEF Jumped, Relearned
    <3>2. trail'[i].level = level
      BY <1>8, <2>2
    <3>3. Range(c) = {c[1]}
      <4>1. c \in Seq(Literals(m))
        BY <1>9 DEF Clauses
      <4>2. DOMAIN c = {1}
        BY <3>1, <4>1
      <4>3. QED
        BY <4>2 DEF Range
    <3>4. HasLevel(Range(c), level)
      BY <1>6, <1>10, <3>1, <3>2, <3>3 DEF LevelsOK, learn
    <3>5. PICK p \in 1..Len(trail) : trail[p].lit = -c[1] /\ trail[p].level = level
      BY <3>3, <3>4 DEF HasLevel
    <3>6. trail[p].lit # -trail'[i].lit
      BY <1>7, <1>10, <2>2, <3>2, <3>5, NewWasOpen
    <3>7. QED
      BY <3>1, <3>5, <3>6
  <2>3. QED
    BY <1>8, <2>1, <2>2
<1>11. ASSUME inst.hook.kind = "multi", NEW i \in 1..Len(trail'), trail'[i].why # Decision, trail'[i].level > 0
       PROVE  \E l \in Range(db'[trail'[i].why]) \ {trail'[i].lit} :
                 \E j \in 1..i - 1 : trail'[j].lit = -l /\ trail'[j].level = trail'[i].level
  <2>0. Tight(trail, db)
    BY <1>11 DEF LevelsOK
  <2>1. CASE i <= k
    <3>1. i \in 1..Len(trail) /\ trail'[i] = trail[i]
      BY <1>8, <2>1
    <3>2. trail[i].why \in 1..Len(db)
      <4>1. trail[i].why \in 0..Len(db)
        BY <1>8, <3>1, EntryTyped
      <4>2. trail[i].why # 0
        BY <1>11, <3>1 DEF Decision
      <4>3. QED
        BY <1>8, <4>1, <4>2
    <3>3. db'[trail'[i].why] = db[trail[i].why]
      BY <1>7, <3>1, <3>2
    <3>4. PICK l \in Range(db[trail[i].why]) \ {trail[i].lit} :
             \E j \in 1..i - 1 : trail[j].lit = -l /\ trail[j].level = trail[i].level
      BY <1>11, <2>0, <3>1 DEF Tight
    <3>5. PICK j \in 1..i - 1 : trail[j].lit = -l /\ trail[j].level = trail[i].level
      BY <3>4
    <3>6. j \in 1..Len(trail') /\ j <= k
      BY <1>8, <2>1, <3>1
    <3>7. trail'[j] = trail[j]
      BY <1>8, <3>6
    <3>8. QED
      BY <3>1, <3>3, <3>4, <3>5, <3>7
  <2>2. CASE i > k
    <3> DEFINE c == db'[trail'[i].why]
               o == trail'[i].lit
    <3>1. trail'[i].why \in 1..Len(db') /\ trail'[i].why > Len(db)
      <4>1. trail'[i].why \in 1..Len(db')
        BY <1>8, <1>11, EntryTyped DEF Decision
      <4>2. QED
        BY <1>7, <1>11, <2>2, <4>1 DEF NewReasons
    <3>2. c \in Range(learn)
      BY <1>7, <1>8, <3>1
    <3>3. /\ o \in Range(c) /\ Range(c) \in SUBSET Literals(m)
          /\ \A l \in Range(c) \ {o} : \E j \in 1..i - 1 : trail'[j].lit = -l
      <4>1. Reasoned(trail', db') /\ i \in DOMAIN trail'
        BY <1>7, <1>8 DEF TrailFits
      <4>2. QED
        BY <1>9, <1>11, <3>2, <4>1 DEF Reasoned
    <3>4. trail'[i].level = level
      BY <1>8, <2>2
    <3> HIDE DEF c, o
    <3>5. SUFFICES ASSUME \A l \in Range(c) \ {o} : ~\E j \in 1..i - 1 : trail'[j].lit = -l /\ trail'[j].level = level
                   PROVE  FALSE
      BY <3>4 DEF c, o
    <3>6. ASSUME NEW x \in Range(c), x # o PROVE LevelOf(trail, x) < level
      <4>1. PICK j \in 1..i - 1 : trail'[j].lit = -x
        BY <3>3, <3>6
      <4>2. trail'[j].level # level
        BY <3>5, <3>6, <4>1
      <4>3. j \in 1..Len(trail') /\ x \in Literals(m)
        BY <1>8, <3>3
      <4>4. QED
        BY <1>7, <4>1, <4>2, <4>3, LowerWasFalse
    <3>7. \A x \in Range(c) : LevelOf(trail, x) = CurLevel(trail) => x = o
      <4>1. \A x \in Range(c) : x # o => LevelOf(trail, x) < level
        BY <3>6
      <4>2. QED
        BY <1>8, <4>1
    <3>8. HasLevel(Range(c), level)
      BY <1>6, <1>11, <2>0, <3>2, <3>4, <3>7 DEF learn
    <3>9. PICK y \in Range(c) : \E p \in 1..Len(trail) : trail[p].lit = -y /\ trail[p].level = level
      BY <3>8 DEF HasLevel
    <3>10. PICK p \in 1..Len(trail) : trail[p].lit = -y /\ trail[p].level = level
      BY <3>9
    <3>11. y # o
      <4>1. trail[p].lit # -trail'[i].lit
        BY <1>7, <1>11, <2>2, <3>4, <3>10, NewWasOpen
      <4>2. QED
        BY <3>10, <4>1 DEF o
    <3>12. LevelOf(trail, y) = level
      <4>1. Var(-y) = Var(y)
        BY <1>8, <3>3, LiteralsFinite
      <4>2. QED
        BY <1>7, <3>10, <4>1, EntryTells DEF Jumped
    <3>13. LevelOf(trail, y) < level
      BY <3>6, <3>11
    <3>14. QED
      BY <1>8, <3>12, <3>13
  <2>3. QED
    BY <1>8, <2>1, <2>2
<1>12. Stepwise(trail')
  BY <1>10 DEF Stepwise
<1>13. inst.hook.kind = "multi" => Tight(trail', db')
  BY <1>11 DEF Tight
<1>14. QED
  BY <1>5, <1>12, <1>13 DEF LevelsOK

\* An entry that joins the trail: its level is the next one, or it follows from its own.
Levelled(tr, clauses, i) ==
    /\ tr[i].why = Decision => i = 1 \/ tr[i-1].level = tr[i].level - 1
    /\ tr[i].why # Decision => \E l \in Range(clauses[tr[i].why]) \ {tr[i].lit} :
                                  \E j \in 1..i - 1 : tr[j].lit = -l /\ tr[j].level = tr[i].level

\* The levels are kept when what joins the trail is like that.
LEMMA ContinuesLevels ==
    ASSUME LevelsOK, Continues, NEW n \in Nat, Len(db) \in Nat, trail \in Seq(Entries(n, Len(db))),
           \A i \in Len(trail) + 1..Len(trail') : Levelled(trail', db', i)
    PROVE  LevelsOK'
<1> DEFINE N == Len(trail)
<1>1. /\ inst' = inst /\ N \in Nat /\ Len(trail') \in Nat /\ N <= Len(trail')
      /\ \A i \in 1..N : trail'[i] = trail[i]
      /\ \A i \in 1..Len(db) : Range(db'[i]) = Range(db[i])
  BY DEF Continues
<1>2. \A i \in 1..Len(trail') : i \in 1..N \/ i \in N + 1..Len(trail')
  BY <1>1
<1>3. ASSUME NEW i \in 1..N PROVE i - 1 \in 1..N \/ i = 1
  BY <1>1
<1>4. \A i \in 1..N : trail[i].why \in 0..Len(db)
  BY EntryTyped
<1> HIDE DEF N
<1>5. Stepwise(trail')
  <2>1. SUFFICES ASSUME NEW i \in 1..Len(trail'), trail'[i].why = Decision, trail'[i].level > 0
                 PROVE  i = 1 \/ trail'[i-1].level = trail'[i].level - 1
    BY DEF Stepwise
  <2>2. CASE i \in N + 1..Len(trail')
    BY <2>1, <2>2 DEF Levelled, N
  <2>3. CASE i \in 1..N
    <3>1. i = 1 \/ trail[i-1].level = trail[i].level - 1
      BY <1>1, <2>1, <2>3 DEF LevelsOK, Stepwise, N
    <3>2. i = 1 \/ trail'[i-1] = trail[i-1]
      BY <1>1, <1>3, <2>3
    <3>3. QED
      BY <1>1, <2>3, <3>1, <3>2
  <2>4. QED
    BY <1>2, <2>2, <2>3
<1>6. ASSUME inst.hook.kind = "multi" PROVE Tight(trail', db')
  <2>1. SUFFICES ASSUME NEW i \in 1..Len(trail'), trail'[i].why # Decision, trail'[i].level > 0
                 PROVE  \E l \in Range(db'[trail'[i].why]) \ {trail'[i].lit} :
                           \E j \in 1..i - 1 : trail'[j].lit = -l /\ trail'[j].level = trail'[i].level
    BY DEF Tight
  <2>2. CASE i \in N + 1..Len(trail')
    BY <2>1, <2>2 DEF Levelled, N
  <2>3. CASE i \in 1..N
    <3>1. trail'[i] = trail[i] /\ trail[i].why \in 1..Len(db)
      <4>1. trail'[i] = trail[i] /\ trail[i].why \in 0..Len(db)
        BY <1>1, <1>4, <2>3
      <4>2. QED
        BY <2>1, <4>1 DEF Decision
    <3>2. Range(db'[trail'[i].why]) = Range(db[trail[i].why])
      BY <1>1, <3>1
    <3>3. PICK l \in Range(db[trail[i].why]) \ {trail[i].lit} :
             \E j \in 1..i - 1 : trail[j].lit = -l /\ trail[j].level = trail[i].level
      BY <1>6, <2>1, <2>3, <3>1 DEF LevelsOK, Tight, N
    <3>4. PICK j \in 1..i - 1 : trail[j].lit = -l /\ trail[j].level = trail[i].level
      BY <3>3
    <3>5. j \in 1..N
      BY <1>1, <2>3
    <3>6. trail'[j] = trail[j]
      BY <1>1, <3>5
    <3>7. QED
      BY <3>1, <3>2, <3>3, <3>4, <3>6
  <2>4. QED
    BY <1>2, <2>2, <2>3
<1>7. QED
  BY <1>1, <1>5, <1>6 DEF LevelsOK

\* Nothing joins the trail.
LEMMA StillLevels ==
    ASSUME IInv, LevelsOK, Continues, trail' = trail
    PROVE  LevelsOK'
<1>1. /\ hook.next - 1 \in Nat /\ Len(db) \in Nat /\ trail \in Seq(Entries(hook.next - 1, Len(db)))
      /\ Len(trail) \in Nat
  BY InvParts DEF Parts
<1>2. \A i \in Len(trail) + 1..Len(trail') : Levelled(trail', db', i)
  BY <1>1
<1>3. QED
  BY <1>1, <1>2, ContinuesLevels

\* A visit implies a literal of the level of the one at hand.
LEMMA VisitLevels ==
    ASSUME IInv, LevelsOK, Visit
    PROVE  LevelsOK'
<1> DEFINE n == hook.next - 1
           M == Len(Long(inst.cls))
           i == Watched[at]
           a == IF db[i][1] = -Literal THEN 1 ELSE 2
           N == Len(trail)
<1>1. Parts(n, M) /\ Continues
  BY InvParts, VisitContinues
<1> HIDE DEF n, M
<1>2. Busy /\ (Skips(i, a) \/ (\E j : Moves(i, a, j)) \/ Implies(i, a) \/ Fails(i, a))
  BY <1>1, VisitHandles
<1>3. AtHand(n, i, a)
  BY <1>1, <1>2, AtHandFits
<1> HIDE DEF i, a
<1>4. CASE Skips(i, a) \/ (\E j : Moves(i, a, j)) \/ Fails(i, a)
  <2>1. trail' = trail
    BY <1>4 DEF Skips, Moves, Fails
  <2>2. QED
    BY <1>1, <2>1, StillLevels
<1>5. CASE Implies(i, a)
  <2> DEFINE l == db[i][3-a]
             x == db[i][a]
             level == CurLevel(trail)
  <2>1. /\ n \in Nat /\ Len(db) \in Nat /\ trail \in Seq(Entries(n, Len(db))) /\ N \in Nat
        /\ QueueFits(trail, Watched, at, qhead)
    BY <1>1 DEF Parts
  <2>2. /\ Value(trail, l) = 0 /\ trail' = Enqueue(trail, l, i, level) /\ db' = db
    BY <1>5 DEF Implies
  <2>3. x \in Range(db[i]) /\ x # l
    <3>1. /\ db[i] \in Clauses(n) /\ 3 - a \in 1..Len(db[i]) /\ a \in 1..Len(db[i]) /\ 3 - a # a
      BY <1>1, <1>3, HandTyped
    <3> DEFINE c == db[i]
    <3>2. c \in Seq(Literals(n)) /\ \A p, q \in 1..Len(c) : p # q => c[p] # c[q]
      BY <3>1 DEF Clauses
    <3> HIDE DEF c
    <3>3. DOMAIN c = 1..Len(c)
      BY <3>2
    <3>4. QED
      BY <3>1, <3>2, <3>3 DEF Range, c
  <2>4. qhead \in 1..N /\ trail[qhead].lit = -x /\ trail[qhead].level = level /\ i \in 1..Len(db)
    <3>1. qhead \in 1..N /\ at \in 1..Len(Watched) /\ x = -Literal /\ Literal \in Int /\ i \in 1..Len(db)
      BY <1>3 DEF AtHand
    <3>2. trail[qhead].level = level
      BY <2>1, <3>1 DEF QueueFits
    <3>3. -x = Literal
      BY <3>1
    <3>4. QED
      BY <3>1, <3>2, <3>3 DEF Literal
  <2> HIDE DEF l, x, level
  <2>5. /\ Len(trail') = N + 1 /\ \A p \in 1..N : trail'[p] = trail[p]
        /\ trail'[N + 1] = [lit |-> l, why |-> i, level |-> level]
    BY <2>1, <2>2, EnqueueShape
  <2>6. Levelled(trail', db', N + 1)
    <3>1. trail'[N + 1].why = i /\ trail'[N + 1].lit = l /\ trail'[N + 1].level = level
      BY <2>5
    <3>2. trail'[qhead].lit = -x /\ trail'[qhead].level = level /\ qhead \in 1..(N + 1) - 1
      BY <2>1, <2>4, <2>5
    <3>3. i # Decision
      BY <2>1, <2>4 DEF Decision
    <3>4. QED
      BY <2>2, <2>3, <3>1, <3>2, <3>3 DEF Levelled
  <2>7. \A p \in N + 1..Len(trail') : p = N + 1
    BY <2>1, <2>5
  <2>8. QED
    BY <1>1, <2>1, <2>6, <2>7, ContinuesLevels
<1>6. QED
  BY <1>2, <1>4, <1>5

\* A decision is of the next level.
LEMMA DecideLevels ==
    ASSUME IInv, LevelsOK, Decide
    PROVE  LevelsOK'
<1> DEFINE n == hook.next - 1
           N == Len(trail)
           level == CurLevel(trail) + 1
<1>1. Continues
  BY DecideContinues
<1>2. n \in Nat /\ Len(db) \in Nat /\ trail \in Seq(Entries(n, Len(db))) /\ Ordered(trail) /\ N \in Nat
  BY InvParts DEF Parts
<1> HIDE DEF n
<1>3. PICK l : trail' = Enqueue(trail, l, Decision, level)
  BY DEF Decide
<1>4. CASE Value(trail, l) # 0
  <2>1. trail' = trail
    BY <1>3, <1>4 DEF Enqueue
  <2>2. QED
    BY <1>1, <2>1, StillLevels
<1>5. CASE Value(trail, l) = 0
  <2>1. CurLevel(trail) \in Nat
    BY <1>2, CurLevelIsTop
  <2>2. /\ Len(trail') = N + 1 /\ \A p \in 1..N : trail'[p] = trail[p]
        /\ trail'[N + 1] = [lit |-> l, why |-> Decision, level |-> level]
    <3> HIDE DEF level
    <3>1. QED
      BY <1>2, <1>3, <1>5, EnqueueShape
  <2>3. N + 1 = 1 \/ trail'[(N + 1) - 1].level = trail'[N + 1].level - 1
    <3>1. CASE N = 0
      BY <3>1
    <3>2. CASE N # 0
      <4>1. N \in 1..N /\ (N + 1) - 1 = N /\ trail # <<>>
        BY <1>2, <3>2
      <4>2. trail'[N] = trail[N] /\ CurLevel(trail) = trail[N].level
        BY <2>2, <4>1 DEF CurLevel
      <4>3. trail'[N + 1].level = CurLevel(trail) + 1
        BY <2>2
      <4>4. QED
        BY <2>1, <4>1, <4>2, <4>3
    <3>3. QED
      BY <3>1, <3>2
  <2>4. Levelled(trail', db', N + 1)
    BY <2>2, <2>3 DEF Levelled
  <2>5. \A p \in N + 1..Len(trail') : p = N + 1
    BY <1>2, <2>2
  <2>6. QED
    BY <1>1, <1>2, <2>4, <2>5, ContinuesLevels
<1>6. QED
  BY <1>4, <1>5

\* The levels are kept by every step.
LEMMA StepLevels ==
    ASSUME IInv, LevelsOK, [Next]_vars
    PROVE  LevelsOK'
<1>1. CASE Learn
  BY <1>1, LearnLevels
<1>2. CASE Visit
  BY <1>2, VisitLevels
<1>3. CASE Decide
  BY <1>3, DecideLevels
<1>4. CASE NextLiteral \/ GiveUp \/ Refute \/ Abort \/ Satisfy \/ Answered \/ UNCHANGED vars
  <2>1. UNCHANGED <<inst, hook, db, trail>>
    BY <1>4 DEF NextLiteral, GiveUp, Refute, Abort, Satisfy, Answered, vars
  <2>2. trail \in Seq(Entries(hook.next - 1, Len(db)))
    BY InvParts DEF Parts
  <2>3. Continues
    BY <2>1, <2>2, SameContinues
  <2>4. QED
    BY <2>1, <2>3, StillLevels
<1>5. QED
  BY <1>1, <1>2, <1>3, <1>4 DEF Next

\* The trail is justified when its reasons are and its levels are in steps.
LEMMA InvTrailJustified ==
    ASSUME IInv, LevelsOK
    PROVE  TrailJustified
<1> DEFINE n == hook.next - 1
           N == Len(trail)
<1>1. /\ n \in Nat /\ Len(db) \in Nat /\ trail \in Seq(Entries(n, Len(db))) /\ Reasoned(trail, db)
      /\ N \in Nat /\ DOMAIN trail = 1..N
  BY InvParts DEF Parts, TrailFits
<1> HIDE DEF n
<1>2. SUFFICES ASSUME NEW i \in 1..N
               PROVE  IF trail[i].why # Decision
                      THEN /\ trail[i].lit \in Range(db[trail[i].why])
                           /\ Neg(Range(db[trail[i].why]) \ {trail[i].lit}) \subseteq Lits(SubSeq(trail, 1, i - 1))
                      ELSE trail[i].level = 0 \/ (i = 1 \/ trail[i-1].level = trail[i].level - 1)
  BY <1>1 DEF TrailJustified
<1>3. CASE trail[i].why = Decision
  <2>1. trail[i].level \in Nat
    BY <1>1, EntryTyped
  <2>2. trail[i].level = 0 \/ trail[i].level > 0
    BY <2>1
  <2>3. QED
    BY <1>3, <2>2 DEF LevelsOK, Stepwise
<1>4. CASE trail[i].why # Decision
  <2>1. /\ trail[i].lit \in Range(db[trail[i].why])
        /\ \A l \in Range(db[trail[i].why]) \ {trail[i].lit} : \E j \in 1..i - 1 : trail[j].lit = -l
    BY <1>1, <1>4 DEF Reasoned
  <2>2. i - 1 \in 0..N
    BY <1>1
  <2> DEFINE before == SubSeq(trail, 1, i - 1)
  <2>3. DOMAIN before = 1..i - 1 /\ \A j \in 1..i - 1 : before[j] = trail[j]
    BY <1>1, <2>2
  <2> HIDE DEF before
  <2>4. \A j \in 1..i - 1 : trail[j].lit \in Lits(before)
    BY <2>3 DEF Lits
  <2>5. Neg(Range(db[trail[i].why]) \ {trail[i].lit}) \subseteq Lits(before)
    BY <2>1, <2>4 DEF Neg
  <2>6. QED
    BY <1>4, <2>1, <2>5 DEF before
<1>5. QED
  BY <1>3, <1>4

\* Every literal on the trail is a decision, the first of its level, or the last literal
\* of its reason to be decided, whatever is learned and jumped back over: a unit that
\* a hook adds never gets to the trail above level 0, where it would pass for a decision.
THEOREM TrailIsJustified == Spec => []TrailJustified
<1>1. Init => IInv /\ LevelsOK
  <2>1. SUFFICES ASSUME Init PROVE IInv /\ LevelsOK
    OBVIOUS
  <2>2. IInv /\ \A i \in 1..Len(trail) : trail[i].level = 0
    BY <2>1, StartInv
  <2>3. QED
    BY <2>2 DEF LevelsOK, Stepwise, Tight
<1>2. (IInv /\ LevelsOK) /\ [Next]_vars => (IInv /\ LevelsOK)'
  BY StepInv, StepLevels
<1>3. IInv /\ LevelsOK => TrailJustified
  BY InvTrailJustified
<1>4. QED
  BY <1>1, <1>2, <1>3, PTL DEF Spec
=============================================================================
