----------------------------- MODULE FrpProofs ------------------------------
(***************************************************************************)
(* Theorems about the fork resolution prover and the checker of its proofs,*)
(* for every formula and every SearchConfig.  First the prover alone: its  *)
(* types, that no premise is missing from the proof, and that it answers   *)
(* UNSAT to false formulas only.  Then the two together: every proof that  *)
(* is saved is accepted.  The two programs compute dependencies,           *)
(* reductions and fork clauses separately, and the checker with a formula  *)
(* that knows fewer fork variables.                                        *)
(***************************************************************************)
EXTENDS FrpPipeline, DqbfProofs, OrderLemmas, SequenceTheorems

-----------------------------------------------------------------------------
(* Clauses over the variables of a formula, and the order they are taken in. *)

\* The least literal that two clauses do not share.
LEMMA FirstDifference ==
    ASSUME NEW c \in SUBSET Int, NEW d \in SUBSET Int,
           IsFiniteSet(c), IsFiniteSet(d), c # d
    PROVE  /\ Min(SymDiff(c, d)) \in SymDiff(c, d)
           /\ \A l \in SymDiff(c, d) : Min(SymDiff(c, d)) <= l
           /\ SymDiff(c, d) = SymDiff(d, c)
<1>1. SymDiff(c, d) \in SUBSET Int /\ SymDiff(c, d) # {} /\ SymDiff(c, d) \in SUBSET (c \cup d)
  BY DEF SymDiff
<1>2. IsFiniteSet(SymDiff(c, d))
  BY <1>1, FS_Union, FS_Subset
<1>3. SymDiff(c, d) = SymDiff(d, c)
  BY DEF SymDiff
<1>4. QED
  BY <1>1, <1>2, <1>3, MinIsLeast

\* sorted(clauses, key=...) has a well-defined result: the key orders any set of
\* clauses totally and strictly.
BeforeIn(S) == [p \in S \X S |-> Before(p[1], p[2])]

\* The order in which the code sorts clauses is a strict total order of finite clauses.
LEMMA BeforeIsOrder ==
    ASSUME NEW S \in SUBSET SUBSET Int, \A c \in S : IsFiniteSet(c)
    PROVE  StrictOrder(BeforeIn(S), S)
<1>1. \A c, d \in S : BeforeIn(S)[<<c, d>>] = Before(c, d)
  BY DEF BeforeIn
<1>2. \A c \in S : Cardinality(c) \in Nat
  BY FS_CardinalityType
<1>3. ASSUME NEW c \in S, NEW d \in S, c # d
      PROVE  (Before(c, d) \/ Before(d, c)) /\ ~ (Before(c, d) /\ Before(d, c))
  <2>1. Min(SymDiff(c, d)) = Min(SymDiff(d, c)) /\ Min(SymDiff(c, d)) \in SymDiff(c, d)
    BY <1>3, FirstDifference
  <2>2. (Min(SymDiff(c, d)) \in c) <=> ~ (Min(SymDiff(d, c)) \in d)
    BY <2>1 DEF SymDiff
  <2>3. Cardinality(c) \in Nat /\ Cardinality(d) \in Nat
    BY <1>2
  <2>4. CASE Cardinality(c) = Cardinality(d)
    BY <2>2, <2>3, <2>4 DEF Before
  <2>5. CASE Cardinality(c) # Cardinality(d)
    BY <2>3, <2>5 DEF Before
  <2>6. QED
    BY <2>4, <2>5
<1>4. ASSUME NEW c \in S, NEW d \in S, NEW e \in S, c # d, d # e, c # e,
             Before(c, d), Before(d, e)
      PROVE  Before(c, e)
  <2>1. Cardinality(c) \in Nat /\ Cardinality(d) \in Nat /\ Cardinality(e) \in Nat
    BY <1>2
  <2>2. CASE Cardinality(c) < Cardinality(d) \/ Cardinality(d) < Cardinality(e)
    <3>1. Cardinality(c) < Cardinality(e)
      BY <1>4, <2>1, <2>2 DEF Before
    <3>2. QED
      BY <3>1 DEF Before
  <2>3. CASE ~ (Cardinality(c) < Cardinality(d) \/ Cardinality(d) < Cardinality(e))
    <3> DEFINE m == Min(SymDiff(c, d))
               n == Min(SymDiff(d, e))
               k == Min(SymDiff(c, e))
    <3>1. /\ Cardinality(c) = Cardinality(d) /\ Cardinality(d) = Cardinality(e)
          /\ m \in c /\ n \in d
      BY <1>4, <2>3 DEF Before
    <3>2. m \in SymDiff(c, d) /\ \A l \in SymDiff(c, d) : m <= l
      BY <1>4, FirstDifference
    <3>3. n \in SymDiff(d, e) /\ \A l \in SymDiff(d, e) : n <= l
      BY <1>4, FirstDifference
    <3>4. k \in SymDiff(c, e) /\ \A l \in SymDiff(c, e) : k <= l
      BY <1>4, FirstDifference
    <3>5. m \in Int /\ n \in Int /\ k \in Int
      BY <3>2, <3>3, <3>4 DEF SymDiff
    <3> HIDE DEF m, n, k
    <3>6. m \notin d /\ n \notin e /\ m # n
      BY <3>1, <3>2, <3>3 DEF SymDiff
    <3>7. k \in SymDiff(c, d) \/ k \in SymDiff(d, e)
      BY <3>4 DEF SymDiff
    <3>8. CASE m < n
      <4>1. m \notin e
        BY <3>3, <3>5, <3>6, <3>8 DEF SymDiff
      <4>2. m \in SymDiff(c, e)
        BY <4>1, <3>1 DEF SymDiff
      <4>3. k <= m
        BY <4>2, <3>4
      <4>4. m <= k
        BY <3>2, <3>3, <3>5, <3>7, <3>8
      <4>5. k = m
        BY <4>3, <4>4, <3>5
      <4>6. QED
        BY <4>5, <3>1 DEF Before, k
    <3>9. CASE n < m
      <4>1. n \in c
        BY <3>1, <3>2, <3>5, <3>6, <3>9 DEF SymDiff
      <4>2. n \in SymDiff(c, e)
        BY <4>1, <3>6 DEF SymDiff
      <4>3. k <= n
        BY <4>2, <3>4
      <4>4. n <= k
        BY <3>2, <3>3, <3>5, <3>7, <3>9
      <4>5. k = n
        BY <4>3, <4>4, <3>5
      <4>6. QED
        BY <4>5, <4>1, <3>1 DEF Before, k
    <3>10. QED
      BY <3>5, <3>6, <3>8, <3>9
  <2>4. QED
    BY <2>2, <2>3
<1>5. QED
  BY <1>1, <1>3, <1>4 DEF StrictOrder

-----------------------------------------------------------------------------
(* What the rules do to clauses.                                            *)

\* The universal reduct is a part of the clause, and every literal that goes may go.
LEMMA ReductFacts ==
    ASSUME NEW h, NEW c \in SUBSET Int
    PROVE  /\ UniversalReduce(h, c) \in SUBSET c
           /\ \A l \in c \ UniversalReduce(h, c) :
                 /\ IsUniversal(h, Var(l))
                 /\ Var(l) \notin ExDeps(h, UniversalReduce(h, c))
                 /\ -l \notin c
           /\ c \in ClausesOver(h) => UniversalReduce(h, c) \in ClausesOver(h)
<1>1. UniversalReduce(h, c) \in SUBSET c
  BY DEF UniversalReduce
<1>2. ASSUME NEW v \in ExDeps(h, UniversalReduce(h, c))
      PROVE  v \in ExDeps(h, c)
  BY <1>1 DEF ExDeps
<1>3. ASSUME NEW l \in c \ UniversalReduce(h, c)
      PROVE  IsUniversal(h, Var(l)) /\ Var(l) \notin ExDeps(h, c) /\ -l \notin c
  BY DEF UniversalReduce
<1>4. QED
  BY <1>1, <1>2, <1>3 DEF ClausesOver

\* The universal reduct of a true clause is true.
LEMMA ReductTrue ==
    ASSUME NEW h, PrefixOK(h), NEW sk, NEW c \in SUBSET Int,
           \A a \in Rows(h) : EvalClause(h, sk, a, c)
    PROVE  \A a \in Rows(h) : EvalClause(h, sk, a, UniversalReduce(h, c))
<1> DEFINE r == UniversalReduce(h, c)
<1>1. /\ r \in SUBSET c
      /\ \A l \in c \ r : IsUniversal(h, Var(l)) /\ Var(l) \notin ExDeps(h, r) /\ -l \notin c
  BY ReductFacts
<1> HIDE DEF r
<1>2. \A a \in Rows(h) : EvalClause(h, sk, a, r)
  BY <1>1, UReductionTrue
<1>3. QED
  BY <1>2 DEF r

\* A resolvent mentions no variable that its premises do not.
LEMMA ResolventOver ==
    ASSUME NEW h, NEW c \in ClausesOver(h), NEW d \in ClausesOver(h), NEW p
    PROVE  Resolvent(c, d, p) \in ClausesOver(h)
BY DEF Resolvent, ClausesOver

\* The reduct of a resolvent of true clauses is true.
LEMMA ReducedResolventTrue ==
    ASSUME NEW h, PrefixOK(h), NEW sk, NEW c \in SUBSET Int, NEW d \in SUBSET Int,
           NEW p \in Int, PivotsOn(c, d, p),
           AllTrue(h, sk, {c, d})
    PROVE  AllTrue(h, sk, {UniversalReduce(h, Resolvent(c, d, p))})
<1>1. \A a \in Rows(h) : EvalClause(h, sk, a, c) /\ EvalClause(h, sk, a, d)
  BY DEF AllTrue
<1>2. \A a \in Rows(h) : EvalClause(h, sk, a, Resolvent(c, d, p))
  BY <1>1, ResolventTrue
<1>3. Resolvent(c, d, p) \in SUBSET Int
  BY DEF Resolvent
<1>4. QED
  BY <1>2, <1>3, ReductTrue DEF AllTrue

-----------------------------------------------------------------------------
(* The list of admitted steps.                                              *)

ProofSteps == [
    clause   : SUBSET Int,
    rule     : {"axiom", "res", "ured", "fex", "sfex"},
    premises : Seq(Int),
    pivot    : Int \cup {None},
    part     : (SUBSET Int) \cup {None},
    c3       : SUBSET Int,
    fresh    : Int \cup {None}]

\* idx[c]: the position of an admitted clause, from zero.
LEMMA IdxFacts ==
    ASSUME NEW p \in Seq(ProofSteps), NEW c, HasIdx(p, c)
    PROVE  /\ Idx(p, c) \in Int
           /\ 0 <= Idx(p, c) /\ Idx(p, c) < Len(p)
           /\ p[Idx(p, c) + 1].clause = c
<1> DEFINE i == CHOOSE k \in DOMAIN p : p[k].clause = c
<1>1. i \in DOMAIN p /\ p[i].clause = c
  BY DEF HasIdx
<1>2. DOMAIN p = 1..Len(p) /\ Len(p) \in Nat
  BY LenProperties
<1>3. Idx(p, c) = i - 1
  BY DEF Idx
<1> HIDE DEF i
<1>4. i \in Int /\ 1 <= i /\ i <= Len(p)
  BY <1>1, <1>2
<1>5. Idx(p, c) + 1 = i
  BY <1>3, <1>4
<1>6. QED
  BY <1>1, <1>2, <1>3, <1>4, <1>5

\* Steps put behind the others take no clause away.
LEMMA HasIdxConcat ==
    ASSUME NEW p \in Seq(ProofSteps), NEW q \in Seq(ProofSteps), NEW c
    PROVE  HasIdx(p \o q, c) <=> HasIdx(p, c) \/ HasIdx(q, c)
<1>1. /\ p \o q \in Seq(ProofSteps)
      /\ Len(p \o q) = Len(p) + Len(q)
      /\ \A i \in 1..Len(p) + Len(q) :
            (p \o q)[i] = IF i <= Len(p) THEN p[i] ELSE q[i - Len(p)]
  BY ConcatProperties
<1>2. /\ DOMAIN p = 1..Len(p) /\ Len(p) \in Nat
      /\ DOMAIN q = 1..Len(q) /\ Len(q) \in Nat
      /\ DOMAIN (p \o q) = 1..Len(p) + Len(q)
  BY <1>1, LenProperties
<1>3. ASSUME HasIdx(p, c) PROVE HasIdx(p \o q, c)
  <2>1. PICK i \in DOMAIN p : p[i].clause = c
    BY <1>3 DEF HasIdx
  <2>2. i \in DOMAIN (p \o q) /\ (p \o q)[i] = p[i]
    BY <1>1, <1>2
  <2>3. QED
    BY <2>1, <2>2 DEF HasIdx
<1>4. ASSUME HasIdx(q, c) PROVE HasIdx(p \o q, c)
  <2>1. PICK i \in DOMAIN q : q[i].clause = c
    BY <1>4 DEF HasIdx
  <2>2. /\ i + Len(p) \in DOMAIN (p \o q) /\ ~ (i + Len(p) <= Len(p))
        /\ (i + Len(p)) - Len(p) = i
    BY <1>2
  <2>3. (p \o q)[i + Len(p)] = q[i]
    BY <1>1, <1>2, <2>2
  <2>4. QED
    BY <2>1, <2>2, <2>3 DEF HasIdx
<1>5. ASSUME HasIdx(p \o q, c) PROVE HasIdx(p, c) \/ HasIdx(q, c)
  <2>1. PICK i \in DOMAIN (p \o q) : (p \o q)[i].clause = c
    BY <1>5 DEF HasIdx
  <2>2. CASE i <= Len(p)
    <3>1. i \in DOMAIN p /\ (p \o q)[i] = p[i]
      BY <1>1, <1>2, <2>2
    <3>2. QED
      BY <2>1, <3>1 DEF HasIdx
  <2>3. CASE ~ (i <= Len(p))
    <3>1. i - Len(p) \in DOMAIN q /\ (p \o q)[i] = q[i - Len(p)]
      BY <1>1, <1>2, <2>3
    <3>2. QED
      BY <2>1, <3>1 DEF HasIdx
  <2>4. QED
    BY <2>2, <2>3
<1>6. QED
  BY <1>3, <1>4, <1>5

\* admit.
LEMMA AdmitFacts ==
    ASSUME NEW p \in Seq(ProofSteps), NEW s \in ProofSteps
    PROVE  /\ Admit(p, s) \in Seq(ProofSteps)
           /\ HasIdx(Admit(p, s), s.clause)
           /\ \A c : HasIdx(p, c) => HasIdx(Admit(p, s), c)
<1>1. CASE HasIdx(p, s.clause)
  BY <1>1 DEF Admit
<1>2. CASE ~ HasIdx(p, s.clause)
  <2>1. Admit(p, s) = p \o <<s>> /\ <<s>> \in Seq(ProofSteps)
    BY <1>2, AppendIsConcat DEF Admit
  <2>2. p \o <<s>> \in Seq(ProofSteps)
    BY <2>1, ConcatProperties
  <2>3. HasIdx(<<s>>, s.clause)
    BY DEF HasIdx
  <2>4. QED
    BY <2>1, <2>2, <2>3, HasIdxConcat
<1>3. QED
  BY <1>1, <1>2

\* The steps that solve makes have the fields they should.
LEMMA StepTypes ==
    ASSUME NEW r \in SUBSET Int, NEW q \in Seq(Int), NEW rule \in {"axiom", "res", "ured"},
           NEW x \in Int \cup {None}
    PROVE  /\ ProofStep(r, rule, q, x, None, {}, None) \in ProofSteps
           /\ ProofStep(r, rule, q, x, None, {}, None).clause = r
BY DEF ProofStep, ProofSteps

\* Admitting a reduct.
LEMMA AdmitReductFacts ==
    ASSUME NEW h, NEW p \in Seq(ProofSteps), NEW c \in SUBSET Int, HasIdx(p, c)
    PROVE  /\ AdmitReduct(h, p, c) \in Seq(ProofSteps)
           /\ HasIdx(AdmitReduct(h, p, c), UniversalReduce(h, c))
           /\ \A d : HasIdx(p, d) => HasIdx(AdmitReduct(h, p, c), d)
<1> DEFINE r == UniversalReduce(h, c)
           s == ProofStep(r, "ured", <<Idx(p, c)>>, None, None, {}, None)
<1>1. r \in SUBSET Int
  BY ReductFacts
<1>2. Idx(p, c) \in Int
  BY IdxFacts
<1>3. s \in ProofSteps /\ s.clause = r
  <2>1. <<Idx(p, c)>> \in Seq(Int)
    BY <1>2
  <2>2. QED
    BY <1>1, <2>1, StepTypes
<1>4. AdmitReduct(h, p, c) = IF r = c THEN p ELSE Admit(p, s)
  BY DEF AdmitReduct
<1> HIDE DEF r, s
<1>5. QED
  BY <1>3, <1>4, AdmitFacts DEF r

-----------------------------------------------------------------------------
(* The resolvents of one clause.                                            *)

\* What holds of the prefix, the clauses and the proof between two steps.
Ready ==
    /\ Counted(g) /\ PrefixOK(g)
    /\ db \subseteq ClausesOver(g)
    /\ proof \in Seq(ProofSteps)
    /\ \A d \in db : HasIdx(proof, d)

\* Every new clause is the product of c and a partner, over declared variables.
LEMMA NewClauseFacts ==
    ASSUME Ready, NEW c \in db, NEW r \in NewClauses(c)
    PROVE  /\ r \in ClausesOver(g)
           /\ \E x \in Resolutions(c) : r = Product(c, x)
<1>1. PICK x \in Resolutions(c) : r = Product(c, x)
  BY DEF NewClauses
<1>2. x[1] \in db /\ c \in ClausesOver(g)
  BY DEF Resolutions, Ready
<1>3. Resolvent(c, x[1], x[2]) \in ClausesOver(g)
  BY <1>2, ResolventOver DEF Ready
<1>4. Product(c, x) \in ClausesOver(g)
  BY <1>3, ReductFacts DEF Product, ClausesOver
<1>5. QED
  BY <1>1, <1>4

\* The step that admits a new clause.
LEMMA ResolutionFacts ==
    ASSUME Ready, NEW c \in db, NEW r \in NewClauses(c)
    PROVE  /\ Resolution(c, r) \in ProofSteps
           /\ Resolution(c, r).clause = r
<1> DEFINE x == CHOOSE y \in Resolutions(c) : Product(c, y) = r
<1>1. x \in Resolutions(c) /\ Product(c, x) = r
  BY NewClauseFacts
<1>2. Resolution(c, r) = ProofStep(r, "res", <<Idx(proof, c), Idx(proof, x[1])>>, x[2], None, {}, None)
  BY DEF Resolution
<1> HIDE DEF x
<1>3. c \in SUBSET Int /\ x[1] \in db /\ x[2] \in Int
  <2>1. c \in SUBSET Int
    BY DEF Ready, ClausesOver
  <2>2. x[2] \in {Var(l) : l \in c}
    BY <1>1 DEF Resolutions
  <2>3. QED
    BY <1>1, <2>1, <2>2, VarFacts DEF Resolutions
<1>4. Idx(proof, c) \in Int /\ Idx(proof, x[1]) \in Int
  BY <1>3, IdxFacts DEF Ready
<1>5. <<Idx(proof, c), Idx(proof, x[1])>> \in Seq(Int)
  BY <1>4
<1>6. r \in SUBSET Int
  BY NewClauseFacts DEF ClausesOver
<1> DEFINE prem == <<Idx(proof, c), Idx(proof, x[1])>>
           pivot == x[2]
<1>7. prem \in Seq(Int) /\ pivot \in Int \cup {None} /\ Resolution(c, r) = ProofStep(r, "res", prem, pivot, None, {}, None)
  BY <1>2, <1>3, <1>5
<1> HIDE DEF prem, pivot
<1> DEFINE s == ProofStep(r, "res", prem, pivot, None, {}, None)
<1>8. s \in ProofSteps /\ s.clause = r
  BY <1>6, <1>7, StepTypes
<1>9. QED
  BY <1>7, <1>8

\* Admitting new clauses lengthens the proof by resolution steps, until each of the
\* clauses has been admitted.
LEMMA AdmitResolventsFacts ==
    ASSUME Ready, NEW c \in db, NEW clauses \in SUBSET NewClauses(c)
    PROVE  \E q \in Seq(ProofSteps) :
              /\ AdmitResolvents(c, clauses) = proof \o q
              /\ \A i \in DOMAIN q : \E r \in clauses : q[i] = Resolution(c, r)
              /\ \A r \in clauses : HasIdx(proof \o q, r)
<1> DEFINE unseen == {r \in clauses : ~ HasIdx(proof, r)}
           N == Cardinality(unseen)
           R == BeforeIn(unseen)
           order == [i \in 1..N |->
                       CHOOSE r \in unseen : Cardinality({d \in unseen \ {r} : Before(d, r)}) = i - 1]
           q == [i \in DOMAIN order |-> Resolution(c, order[i])]
<1>1. AdmitResolvents(c, clauses) = proof \o q
  BY DEF AdmitResolvents
<1>2. unseen \in SUBSET ClausesOver(g)
  BY NewClauseFacts
<1>3. IsFiniteSet(unseen) /\ N \in Nat /\ \A r \in unseen : r \in SUBSET Int /\ IsFiniteSet(r)
  BY <1>2, FiniteClauses, FS_Subset, FS_CardinalityType DEF Ready, ClausesOver
<1> HIDE DEF unseen
<1>4. StrictOrder(R, unseen)
  BY <1>3, BeforeIsOrder
<1>5. \A r \in unseen : PlaceIn(R, unseen, r) = Cardinality({d \in unseen \ {r} : Before(d, r)})
  <2>1. TAKE r \in unseen
  <2>2. {d \in unseen \ {r} : R[<<d, r>>]} = {d \in unseen \ {r} : Before(d, r)}
    BY DEF BeforeIn
  <2>3. QED
    BY <2>2 DEF PlaceIn
<1>6. ASSUME NEW i \in 1..N
      PROVE  order[i] \in unseen /\ PlaceIn(R, unseen, order[i]) = i - 1
  <2>1. i - 1 \in 0..N - 1
    BY <1>3
  <2>2. \E r \in unseen : Cardinality({d \in unseen \ {r} : Before(d, r)}) = i - 1
    BY <2>1, <1>3, <1>4, <1>5, RankOnto
  <2>3. /\ order[i] \in unseen
        /\ Cardinality({d \in unseen \ {order[i]} : Before(d, order[i])}) = i - 1
    BY <2>2
  <2>4. QED
    BY <2>3, <1>5
<1>7. DOMAIN order = 1..N
  OBVIOUS
<1> HIDE DEF order
<1>8. \A i \in 1..N : q[i] \in ProofSteps /\ q[i].clause = order[i] /\ order[i] \in clauses
                        /\ q[i] = Resolution(c, order[i])
  BY <1>6, <1>7, ResolutionFacts DEF unseen
<1>9. q \in Seq(ProofSteps) /\ DOMAIN q = 1..N
  <2>1. DOMAIN q = 1..N /\ q \in [1..N -> ProofSteps]
    BY <1>7, <1>8
  <2>2. QED
    BY <2>1, <1>3
<1> HIDE DEF q
<1>10. ASSUME NEW r \in clauses
       PROVE  HasIdx(proof \o q, r)
  <2>1. CASE HasIdx(proof, r)
    BY <2>1, <1>9, HasIdxConcat DEF Ready
  <2>2. CASE ~ HasIdx(proof, r)
    <3>1. r \in unseen
      BY <2>2 DEF unseen
    <3>2. PlaceIn(R, unseen, r) \in 0..N - 1
      BY <3>1, <1>3, <1>4, RankNames
    <3> DEFINE i == PlaceIn(R, unseen, r) + 1
    <3>3. i \in 1..N /\ i - 1 = PlaceIn(R, unseen, r)
      BY <3>2, <1>3
    <3> HIDE DEF i
    <3>4. order[i] \in unseen /\ PlaceIn(R, unseen, order[i]) = PlaceIn(R, unseen, r)
      BY <3>3, <1>6
    <3>5. order[i] = r
      BY <3>1, <3>4, <1>3, <1>4, RankNames
    <3>6. HasIdx(q, r)
      BY <3>3, <3>5, <1>8, <1>9 DEF HasIdx
    <3>7. QED
      BY <3>6, <1>9, HasIdxConcat DEF Ready
  <2>3. QED
    BY <2>1, <2>2
<1>11. \A i \in DOMAIN q : \E r \in clauses : q[i] = Resolution(c, r)
  BY <1>8, <1>9
<1>12. QED
  BY <1>1, <1>9, <1>10, <1>11

-----------------------------------------------------------------------------
(* One fork.                                                                *)

\* The step that a fork writes for one of its halves.
LEMMA ForkStepTypes ==
    ASSUME Ready, NEW c \in db, NEW part \in SUBSET Int, NEW c3 \in SUBSET Int,
           NEW half \in SUBSET Int, Fresh(g) \in Int
    PROVE  /\ ForkStep(c, part, c3, half) \in ProofSteps
           /\ ForkStep(c, part, c3, half).clause = half
<1> DEFINE prem == <<Idx(proof, c)>>
           rule == IF c3 = {} THEN "fex" ELSE "sfex"
           x == Fresh(g)
<1>1. prem \in Seq(Int)
  <2>1. Idx(proof, c) \in Int
    BY IdxFacts DEF Ready
  <2>2. QED
    BY <2>1
<1>2. rule \in {"fex", "sfex"} /\ x \in Int
  OBVIOUS
<1>3. ForkStep(c, part, c3, half) = ProofStep(half, rule, prem, None, part, c3, x)
  BY DEF ForkStep
<1> HIDE DEF prem, rule, x
<1>4. /\ ProofStep(half, rule, prem, None, part, c3, x) \in ProofSteps
      /\ ProofStep(half, rule, prem, None, part, c3, x).clause = half
  BY <1>1, <1>2 DEF ProofStep, ProofSteps
<1>5. QED
  BY <1>3, <1>4

\* The formula after a fork.
LEMMA ForkFormulaFacts ==
    ASSUME NEW h, IsFormula(h), Counted(h),
           NEW c \in ClausesOver(h), NEW part \in SUBSET c, NEW c3
    PROVE  OneMore(h, ForkFormula(h, c, part, c3))
<1> DEFINE D == CommonDeps(h, c, part) \ {Var(l) : l \in c3}
<1>1. D \in SUBSET h.universals
  BY ClauseDepUniversal DEF CommonDeps
<1>2. ForkFormula(h, c, part, c3) = AddExistential(h, h.n_vars + 1, D)
  BY DEF ForkFormula, Fresh
<1> HIDE DEF D
<1>3. QED
  BY <1>1, <1>2, AddFresh

\* What the prover chooses for a fork: a part of the clause, and no universal or one.
LEMMA ForkChoiceFacts ==
    ASSUME IsFormula(g), Counted(g), NEW c \in ClausesOver(g), NEW a,
           NEW part, part = ForkPart(c, a), NEW c3, c3 = ForkC3(c, part)
    PROVE  /\ part \in SUBSET c
           /\ c3 \in SUBSET g.universals
           /\ \A l \in c3 : l \in Int /\ Var(l) = l
           /\ Droppable(g, c3, {Var(l) : l \in c3})
<1>1. part \in SUBSET c
  BY DEF ForkPart
<1> DEFINE inter == CommonDeps(g, c, part)
<1>2. inter \in SUBSET g.universals
  BY <1>1, ClauseDepUniversal DEF CommonDeps
<1>3. g.universals \in SUBSET Int /\ IsFiniteSet(g.universals) /\ \A u \in g.universals : u > 0
  <2>1. IsFiniteSet(1..g.n_vars)
    BY FS_Interval DEF Counted
  <2>2. g.universals \in SUBSET (1..g.n_vars)
    BY DEF Counted
  <2>3. QED
    BY <2>1, <2>2, FS_Subset DEF Counted
<1>4. c3 = {} \/ (inter # {} /\ c3 = {Min(inter)})
  BY DEF ForkC3
<1> HIDE DEF inter
<1>5. inter # {} => Min(inter) \in inter
  BY <1>2, <1>3, FS_Subset, MinIsLeast
<1>6. c3 \in SUBSET g.universals
  BY <1>2, <1>4, <1>5
<1>7. \A l \in c3 : l \in Int /\ Var(l) = l
  BY <1>3, <1>6 DEF Var
<1>8. Droppable(g, c3, {Var(l) : l \in c3})
  BY <1>6, <1>7 DEF Droppable, IsUniversal
<1>9. QED
  BY <1>1, <1>6, <1>7, <1>8

\* Both halves are clauses of the formula after the fork.
LEMMA HalvesOver ==
    ASSUME NEW h, IsFormula(h), Counted(h),
           NEW c \in ClausesOver(h), NEW part \in SUBSET c, NEW c3 \in SUBSET h.universals,
           \A l \in c3 : l \in Int /\ Var(l) = l
    PROVE  /\ LeftHalf(h, part, c3) \in ClausesOver(ForkFormula(h, c, part, c3))
           /\ RightHalf(h, c, part, c3) \in ClausesOver(ForkFormula(h, c, part, c3))
<1> DEFINE x == Fresh(h)
           e == ForkFormula(h, c, part, c3)
<1>0. OneMore(h, e)
  BY ForkFormulaFacts
<1> HIDE DEF e
<1>1. /\ e.universals = h.universals
      /\ DOMAIN e.dependencies = DOMAIN h.dependencies \cup {x}
      /\ ClausesOver(h) \subseteq ClausesOver(e)
      /\ x \in Nat \ {0}
  BY <1>0 DEF OneMore, Fresh
<1> HIDE DEF x
<1>2. x \in Int /\ -x \in Int /\ Var(x) = x /\ Var(-x) = x /\ IsDeclared(e, x)
  BY <1>1 DEF Var, IsDeclared, IsExistential
<1>3. \A l \in c3 : l \in Int /\ IsDeclared(e, Var(l))
  BY <1>1 DEF IsDeclared, IsUniversal
<1>4. \A l \in c : l \in Int /\ IsDeclared(e, Var(l))
  BY <1>1 DEF ClausesOver
<1>5. LeftHalf(h, part, c3) = c3 \cup part \cup {x}
  BY DEF LeftHalf, x
<1>6. RightHalf(h, c, part, c3) = c3 \cup (c \ part) \cup {-x}
  BY DEF RightHalf, x
<1>7. LeftHalf(h, part, c3) \in ClausesOver(e)
  BY <1>2, <1>3, <1>4, <1>5 DEF ClausesOver
<1>8. RightHalf(h, c, part, c3) \in ClausesOver(e)
  BY <1>2, <1>3, <1>4, <1>6 DEF ClausesOver
<1>9. QED
  BY <1>7, <1>8 DEF e

-----------------------------------------------------------------------------
(* The inductive invariant.                                                 *)

\* g is the formula of the problem with nforks more existentials.
PrefixInv ==
    /\ problem \in Problems
    /\ IsFormula(g) /\ Counted(g)
    /\ g.universals = f.universals /\ g.clauses = f.clauses
    /\ nforks = Cardinality(DOMAIN g.dependencies) - Cardinality(DOMAIN f.dependencies)

\* Whatever is on the stack is in db, and whatever is in db has been admitted.
ClauseInv ==
    /\ unread \subseteq f.clauses
    /\ db \subseteq ClausesOver(g)
    /\ todo \in Seq(SUBSET db)
    /\ proof \in Seq(ProofSteps)
    /\ \A d \in db : HasIdx(proof, d)

ControlInv ==
    /\ expired \in BOOLEAN
    /\ pc \in {"loading", "saturating", "choosing", "returned"}
    /\ result \in IF pc = "returned" THEN {"SAT", "UNSAT", "UNKNOWN"} ELSE {None}
    /\ result = "UNSAT" => {} \in db

\* db follows from the formula, if tables for the fork variables may be chosen.
Follows == IsTrue(f) => \E sk \in SkolemTuples(g) : AllTrue(g, sk, f.clauses \cup db)

ForkresInv == PrefixInv /\ ClauseInv /\ ControlInv /\ Follows

\* What the formulas that solve is called with are.
LEMMA ProblemFacts ==
    ASSUME problem \in Problems
    PROVE  IsFormula(f) /\ Counted(f)
BY ProblemsAssumption DEF f, Counted, IsFormula, PrefixOK

\* The invariant gives what the lemmas on the proof ask for.
LEMMA InvMakesReady ==
    ASSUME PrefixInv, ClauseInv
    PROVE  Ready
BY DEF PrefixInv, ClauseInv, Ready, IsFormula

\* The stack without a clause.
LEMMA PoppedFacts ==
    ASSUME NEW D, todo \in Seq(SUBSET D), todo # << >>, NEW c
    PROVE  Popped(c) \in Seq(SUBSET D)
<1>1. Len(todo) \in Nat \ {0} /\ DOMAIN todo = 1..Len(todo)
  BY EmptySeq, LenProperties
<1>2. Last(todo) \in SUBSET D
  BY <1>1, ElementOfSeq DEF Last
<1>3. Front(todo) \in Seq(SUBSET D)
  <2>1. \A i \in 1..Len(todo) - 1 : todo[i] \in SUBSET D
    BY <1>1, ElementOfSeq
  <2>2. 1 \in Int /\ Len(todo) - 1 \in Int
    BY <1>1
  <2>3. QED
    BY <2>1, <2>2, SubSeqProperties DEF Front
<1>4. Last(todo) \ {c} \in SUBSET D
  BY <1>2
<1>5. Append(Front(todo), Last(todo) \ {c}) \in Seq(SUBSET D)
  BY <1>3, <1>4, AppendProperties
<1>6. QED
  BY <1>3, <1>5 DEF Popped

\* A clause on the stack is in db.
LEMMA OnStack ==
    ASSUME ClauseInv, NEW c \in UNION Range(todo)
    PROVE  c \in db
<1>1. PICK i \in DOMAIN todo : c \in todo[i]
  BY DEF Range
<1>2. DOMAIN todo = 1..Len(todo)
  BY LenProperties DEF ClauseInv
<1>3. todo[i] \in SUBSET db
  BY <1>2, ElementOfSeq DEF ClauseInv
<1>4. QED
  BY <1>1, <1>3

\* What resolution adds follows from what there was.
LEMMA NewClausesTrue ==
    ASSUME Ready, NEW c \in db, NEW sk, NEW S, AllTrue(g, sk, S \cup db)
    PROVE  AllTrue(g, sk, S \cup db \cup NewClauses(c))
<1> SUFFICES ASSUME NEW a \in Rows(g), NEW r \in NewClauses(c)
             PROVE  EvalClause(g, sk, a, r)
  BY DEF AllTrue
<1>1. PICK x \in Resolutions(c) : r = Product(c, x)
  BY NewClauseFacts
<1>2. x[1] \in db /\ x[2] \in {Var(l) : l \in c} /\ PivotsOn(c, x[1], x[2])
  BY <1>1 DEF Resolutions, Resolves
<1>3. c \in SUBSET Int /\ x[1] \in SUBSET Int
  BY <1>2 DEF Ready, ClausesOver
<1>4. x[2] \in Int
  BY <1>2, <1>3, VarFacts
<1>5. AllTrue(g, sk, {c, x[1]})
  BY <1>2 DEF AllTrue
<1> DEFINE d == x[1]
           p == x[2]
<1>6. r = UniversalReduce(g, Resolvent(c, d, p))
  BY <1>1 DEF Product
<1>7. d \in SUBSET Int /\ p \in Int /\ PivotsOn(c, d, p) /\ AllTrue(g, sk, {c, d}) /\ PrefixOK(g)
  BY <1>2, <1>3, <1>4, <1>5 DEF Ready
<1> HIDE DEF d, p
<1>8. AllTrue(g, sk, {UniversalReduce(g, Resolvent(c, d, p))})
  BY <1>3, <1>7, ReducedResolventTrue
<1>9. QED
  BY <1>6, <1>8 DEF AllTrue

-----------------------------------------------------------------------------
(* Every step keeps the invariant.                                          *)

LEMMA InitInv ==
    Init => ForkresInv
<1> SUFFICES ASSUME Init PROVE ForkresInv
  OBVIOUS
<1> USE DEF Init
<1>1. problem \in Problems /\ g = f /\ IsFormula(f) /\ Counted(f)
  BY ProblemFacts
<1>3. PrefixInv
  <2>1. Cardinality(DOMAIN f.dependencies) \in Nat
    BY <1>1, FinitePrefix
  <2>2. QED
    BY <1>1, <2>1 DEF PrefixInv
<1>4. ClauseInv
  BY DEF ClauseInv
<1>5. ControlInv
  BY NoneAssumption DEF ControlInv
<1>6. Follows
  BY <1>1 DEF Follows, IsTrue, IsModel, AllTrue
<1>7. QED
  BY <1>3, <1>4, <1>5, <1>6 DEF ForkresInv

\* Nothing of PrefixInv changes but by a fork.
LEMMA PrefixKept ==
    ASSUME PrefixInv, UNCHANGED <<problem, g, nforks>>
    PROVE  PrefixInv' /\ f' = f
BY DEF PrefixInv, f

\* A clause of the formula and its reduct: the reduct is true where the clause is.
LEMMA LoadClauseInv ==
    ASSUME ForkresInv, NEW c \in unread, LoadClause(c)
    PROVE  ForkresInv'
<1>1. PrefixInv /\ ClauseInv /\ ControlInv /\ Follows /\ Ready
  BY InvMakesReady DEF ForkresInv
<1>2. PrefixInv' /\ f' = f /\ g' = g
  BY <1>1, PrefixKept DEF LoadClause
<1>3. ControlInv'
  BY <1>1, NoneAssumption DEF ControlInv, LoadClause
<1>4. c \in f.clauses /\ c \in ClausesOver(g) /\ c \in SUBSET Int
  BY <1>1, FormulaClauses DEF PrefixInv, ClauseInv, ClausesOver
<1>5. unread' \subseteq f'.clauses
  BY <1>1, <1>2 DEF ClauseInv, LoadClause
<1>6. CASE IsTautology(c)
  <2>1. UNCHANGED <<db, proof, todo>>
    BY <1>6 DEF LoadClause
  <2>2. ClauseInv' /\ Follows'
    BY <1>1, <1>2, <1>5, <2>1 DEF ClauseInv, Follows
  <2>3. QED
    BY <1>2, <1>3, <2>2 DEF ForkresInv
<1>7. CASE ~ IsTautology(c)
  <2> DEFINE r == UniversalReduce(g, c)
  <2>1. /\ db' = db \cup {r} /\ todo' = todo
        /\ proof' = AdmitReduct(g, Admit(proof, Axiom(c)), c)
    BY <1>7 DEF LoadClause
  <2>2. r \in ClausesOver(g)
    BY <1>4, ReductFacts
  <2>3. Axiom(c) \in ProofSteps /\ Axiom(c).clause = c
    <3>1. << >> \in Seq(Int)
      OBVIOUS
    <3>2. QED
      BY <3>1, <1>4, StepTypes DEF Axiom
  <2>4. /\ Admit(proof, Axiom(c)) \in Seq(ProofSteps)
        /\ HasIdx(Admit(proof, Axiom(c)), c)
        /\ \A d \in db : HasIdx(Admit(proof, Axiom(c)), d)
    BY <1>1, <2>3, AdmitFacts DEF ClauseInv
  <2>5. /\ proof' \in Seq(ProofSteps)
        /\ HasIdx(proof', r)
        /\ \A d \in db : HasIdx(proof', d)
    BY <1>4, <2>1, <2>4, AdmitReductFacts
  <2>6. ClauseInv'
    <3>1. db' \subseteq ClausesOver(g')
      BY <1>1, <1>2, <2>1, <2>2 DEF ClauseInv
    <3>2. todo' \in Seq(SUBSET db')
      BY <1>1, <2>1, SeqMonotonic DEF ClauseInv
    <3>3. \A d \in db' : HasIdx(proof', d)
      BY <2>1, <2>5
    <3>4. QED
      BY <1>5, <2>5, <3>1, <3>2, <3>3 DEF ClauseInv
  <2>7. Follows'
    <3>1. SUFFICES ASSUME IsTrue(f), NEW sk \in SkolemTuples(g), AllTrue(g, sk, f.clauses \cup db)
                   PROVE  AllTrue(g, sk, f.clauses \cup (db \cup {r}))
      BY <1>1, <1>2, <2>1 DEF Follows
    <3>2. \A a \in Rows(g) : EvalClause(g, sk, a, c)
      BY <1>4, <3>1 DEF AllTrue
    <3>3. PrefixOK(g)
      BY <1>1 DEF Ready
    <3>4. \A a \in Rows(g) : EvalClause(g, sk, a, r)
      BY <1>4, <3>2, <3>3, ReductTrue
    <3> HIDE DEF r
    <3>5. QED
      BY <3>1, <3>4 DEF AllTrue
  <2>8. QED
    BY <1>2, <1>3, <2>6, <2>7 DEF ForkresInv
<1>8. QED
  BY <1>6, <1>7

\* After the loop over the formula: the database goes on the stack, or has the empty clause.
LEMMA LoadedInv ==
    ASSUME ForkresInv, Loaded
    PROVE  ForkresInv'
<1>1. PrefixInv /\ ClauseInv /\ ControlInv /\ Follows
  BY DEF ForkresInv
<1>2. PrefixInv' /\ f' = f /\ g' = g
  BY <1>1, PrefixKept DEF Loaded
<1>3. ControlInv'
  BY <1>1, NoneAssumption DEF ControlInv, Loaded
<1>4. UNCHANGED <<unread, db, proof>>
  BY DEF Loaded
<1>5. todo' \in Seq(SUBSET db)
  <2>1. << >> \in Seq(SUBSET db) /\ <<db>> \in Seq(SUBSET db)
    OBVIOUS
  <2>2. QED
    BY <1>1, <2>1 DEF Loaded, ClauseInv
<1>6. ClauseInv' /\ Follows'
  BY <1>1, <1>2, <1>4, <1>5 DEF ClauseInv, Follows
<1>7. QED
  BY <1>2, <1>3, <1>6 DEF ForkresInv

\* A pass of _saturate: what it adds follows from what there was, and is admitted.
LEMMA SaturateInv ==
    ASSUME ForkresInv, NEW c \in UNION Range(todo), Saturate(c)
    PROVE  ForkresInv'
<1>1. PrefixInv /\ ClauseInv /\ ControlInv /\ Follows /\ Ready /\ c \in db
  BY InvMakesReady, OnStack DEF ForkresInv
<1>2. PrefixInv' /\ f' = f /\ g' = g
  BY <1>1, PrefixKept DEF Saturate
<1>3. ControlInv'
  BY <1>1, NoneAssumption DEF ControlInv, Saturate
<1> DEFINE new == NewClauses(c)
<1>4. /\ db' = db \cup new /\ unread' = unread
      /\ todo' = IF new = {} THEN Popped(c) ELSE Append(Popped(c), new)
      /\ proof' = AdmitResolvents(c, new)
  BY DEF Saturate
<1>5. PICK q \in Seq(ProofSteps) :
          AdmitResolvents(c, new) = proof \o q /\ \A r \in new : HasIdx(proof \o q, r)
  BY <1>1, AdmitResolventsFacts
<1>6. \A r \in new : r \in ClausesOver(g)
  BY <1>1, NewClauseFacts
<1>7. ASSUME NEW sk, AllTrue(g, sk, f.clauses \cup db)
      PROVE  AllTrue(g, sk, f.clauses \cup (db \cup new))
  <2>1. AllTrue(g, sk, f.clauses \cup db \cup new)
    BY <1>1, <1>7, NewClausesTrue
  <2>2. f.clauses \cup (db \cup new) = f.clauses \cup db \cup new
    OBVIOUS
  <2>3. QED
    BY <2>1, <2>2
<1> HIDE DEF new
<1>8. ClauseInv'
  <2>1. proof' \in Seq(ProofSteps)
    BY <1>1, <1>4, <1>5, ConcatProperties DEF ClauseInv
  <2>2. \A d \in db' : HasIdx(proof', d)
    BY <1>1, <1>4, <1>5, HasIdxConcat DEF ClauseInv
  <2>3. todo' \in Seq(SUBSET db')
    <3>1. todo \in Seq(SUBSET db') /\ todo # << >>
      BY <1>1, <1>4, SeqMonotonic DEF ClauseInv, Saturate
    <3>2. Popped(c) \in Seq(SUBSET db')
      BY <3>1, PoppedFacts
    <3>3. new \in SUBSET db'
      BY <1>4
    <3>4. Append(Popped(c), new) \in Seq(SUBSET db')
      BY <3>2, <3>3, AppendProperties
    <3>5. QED
      BY <1>4, <3>2, <3>4
  <2>4. QED
    BY <1>1, <1>2, <1>4, <1>6, <2>1, <2>2, <2>3 DEF ClauseInv
<1>9. Follows'
  BY <1>1, <1>2, <1>4, <1>7 DEF Follows
<1>10. QED
  BY <1>2, <1>3, <1>8, <1>9 DEF ForkresInv

\* The pass that derives the empty clause.
LEMMA DeriveEmptyInv ==
    ASSUME ForkresInv, NEW c \in UNION Range(todo), DeriveEmpty(c)
    PROVE  ForkresInv'
<1>1. PrefixInv /\ ClauseInv /\ ControlInv /\ Follows /\ Ready /\ c \in db
  BY InvMakesReady, OnStack DEF ForkresInv
<1>2. PrefixInv' /\ f' = f /\ g' = g
  BY <1>1, PrefixKept DEF DeriveEmpty
<1>3. PICK before \in SUBSET (NewClauses(c) \ {{}}) :
         /\ db' = db \cup before \cup {{}}
         /\ proof' = Append(AdmitResolvents(c, before), Resolution(c, {}))
  BY DEF DeriveEmpty
<1>4. /\ {} \in NewClauses(c) /\ unread' = unread
      /\ todo' = << >> /\ pc' = "returned" /\ result' = "UNSAT"
  BY DEF DeriveEmpty
<1>5. ControlInv'
  BY <1>1, <1>3, <1>4 DEF ControlInv, DeriveEmpty
<1>6. before \in SUBSET NewClauses(c)
  OBVIOUS
<1>7. PICK q \in Seq(ProofSteps) :
         AdmitResolvents(c, before) = proof \o q /\ \A r \in before : HasIdx(proof \o q, r)
  BY <1>1, <1>6, AdmitResolventsFacts
<1> DEFINE s == Resolution(c, {})
<1>8. s \in ProofSteps /\ s.clause = {}
  BY <1>1, <1>4, ResolutionFacts
<1> HIDE DEF s
<1>9. /\ proof \o q \in Seq(ProofSteps) /\ <<s>> \in Seq(ProofSteps)
      /\ HasIdx(<<s>>, {})
      /\ proof' = (proof \o q) \o <<s>>
  <2>1. proof \o q \in Seq(ProofSteps)
    BY <1>1, ConcatProperties DEF ClauseInv
  <2>2. proof' = (proof \o q) \o <<s>>
    BY <1>3, <1>7, <1>8, <2>1, AppendIsConcat DEF s
  <2>3. <<s>> \in Seq(ProofSteps) /\ HasIdx(<<s>>, {})
    BY <1>8 DEF HasIdx
  <2>4. QED
    BY <2>1, <2>2, <2>3
<1>10. ClauseInv'
  <2>1. proof' \in Seq(ProofSteps)
    BY <1>9, ConcatProperties
  <2>2. \A d \in db \cup before : HasIdx(proof \o q, d)
    BY <1>1, <1>7, HasIdxConcat DEF ClauseInv
  <2> DEFINE p == proof \o q
             t == <<s>>
  <2>3. p \in Seq(ProofSteps) /\ t \in Seq(ProofSteps) /\ proof' = p \o t
    BY <1>9
  <2>4. (\A d \in db \cup before : HasIdx(p, d)) /\ HasIdx(t, {})
    BY <1>9, <2>2
  <2> HIDE DEF p, t
  <2>5. \A d \in db \cup before \cup {{}} : HasIdx(p \o t, d)
    <3>1. \A d : HasIdx(p \o t, d) <=> HasIdx(p, d) \/ HasIdx(t, d)
      BY <2>3, HasIdxConcat
    <3>2. QED
      BY <2>4, <3>1
  <2>6. \A d \in db' : HasIdx(proof', d)
    BY <1>3, <2>3, <2>5
  <2>7. db' \subseteq ClausesOver(g')
    <3>1. \A r \in NewClauses(c) : r \in ClausesOver(g)
      BY <1>1, NewClauseFacts
    <3>2. QED
      BY <1>1, <1>2, <1>3, <1>4, <3>1 DEF ClauseInv
  <2>8. todo' \in Seq(SUBSET db')
    BY <1>4
  <2>9. QED
    BY <1>1, <1>2, <1>4, <2>1, <2>6, <2>7, <2>8 DEF ClauseInv
<1>11. Follows'
  <2>1. SUFFICES ASSUME IsTrue(f), NEW sk \in SkolemTuples(g), AllTrue(g, sk, f.clauses \cup db)
                 PROVE  AllTrue(g, sk, f.clauses \cup (db \cup before \cup {{}}))
    BY <1>1, <1>2, <1>3 DEF Follows
  <2>2. AllTrue(g, sk, f.clauses \cup db \cup NewClauses(c))
    BY <1>1, <2>1, NewClausesTrue
  <2>3. f.clauses \cup (db \cup before \cup {{}}) \subseteq f.clauses \cup db \cup NewClauses(c)
    BY <1>4
  <2>4. QED
    BY <2>2, <2>3 DEF AllTrue
<1>12. QED
  BY <1>2, <1>5, <1>10, <1>11 DEF ForkresInv

\* A fork: the two halves take the place of the clause they come from.
LEMMA ForkInv ==
    ASSUME ForkresInv, NEW c \in db, NEW a \in ForkVars(g, c), Fork(c, a)
    PROVE  ForkresInv'
<1>1. PrefixInv /\ ClauseInv /\ ControlInv /\ Follows /\ Ready
  BY InvMakesReady DEF ForkresInv
<1> DEFINE part == ForkPart(c, a)
           c3 == ForkC3(c, part)
           left == LeftHalf(g, part, c3)
           right == RightHalf(g, c, part, c3)
           h == ForkFormula(g, c, part, c3)
           forked == proof \o <<ForkStep(c, part, c3, left), ForkStep(c, part, c3, right)>>
           rl == UniversalReduce(h, left)
           rr == UniversalReduce(h, right)
<1>2. /\ g' = h
      /\ proof' = AdmitReduct(h, AdmitReduct(h, forked, left), right)
      /\ db' = (db \ {c}) \cup {rl, rr}
      /\ nforks' = nforks + 1
      /\ problem' = problem /\ unread' = unread /\ f' = f
  BY DEF Fork, f
<1>3. \/ pc' = "returned" /\ result' = "UNKNOWN" /\ todo' = << >>
      \/ pc' = "saturating" /\ todo' = <<db'>> /\ result' = result
  BY DEF Fork, Return
<1>4. c \in ClausesOver(g) /\ c \in SUBSET Int /\ IsFormula(g) /\ Counted(g)
  BY <1>1 DEF ClauseInv, PrefixInv, ClausesOver
<1>5. /\ part \in SUBSET c
      /\ c3 \in SUBSET g.universals
      /\ \A l \in c3 : l \in Int /\ Var(l) = l
      /\ Droppable(g, c3, {Var(l) : l \in c3})
  BY <1>4, ForkChoiceFacts
<1> HIDE DEF part, c3
<1>6. OneMore(g, h)
  BY <1>4, <1>5, ForkFormulaFacts
<1>7. left \in ClausesOver(h) /\ right \in ClausesOver(h)
  BY <1>4, <1>5, HalvesOver
<1>8. left \in SUBSET Int /\ right \in SUBSET Int /\ PrefixOK(h)
  BY <1>6, <1>7 DEF ClausesOver, OneMore, Fresh, IsFormula
<1>9. /\ forked \in Seq(ProofSteps)
      /\ HasIdx(forked, left) /\ HasIdx(forked, right)
      /\ \A d \in db : HasIdx(forked, d)
  <2> DEFINE s1 == ForkStep(c, part, c3, left)
             s2 == ForkStep(c, part, c3, right)
  <2>1. Fresh(g) \in Int /\ part \in SUBSET Int /\ c3 \in SUBSET Int
    BY <1>4, <1>5, <1>6 DEF OneMore, Fresh
  <2> HIDE DEF left, right, forked, h
  <2>2. s1 \in ProofSteps /\ s1.clause = left /\ s2 \in ProofSteps /\ s2.clause = right
    BY <1>1, <1>8, <2>1, ForkStepTypes
  <2> HIDE DEF s1, s2
  <2>3. <<s1, s2>> \in Seq(ProofSteps) /\ HasIdx(<<s1, s2>>, left) /\ HasIdx(<<s1, s2>>, right)
    BY <2>2 DEF HasIdx
  <2>4. forked = proof \o <<s1, s2>>
    BY DEF s1, s2, forked
  <2>5. forked \in Seq(ProofSteps)
    BY <1>1, <2>3, <2>4, ConcatProperties DEF ClauseInv
  <2>6. QED
    BY <1>1, <2>3, <2>4, <2>5, HasIdxConcat DEF ClauseInv
<1> DEFINE p1 == AdmitReduct(h, forked, left)
           p2 == AdmitReduct(h, p1, right)
<1> HIDE DEF h, left, right, forked
<1>10. /\ p1 \in Seq(ProofSteps) /\ HasIdx(p1, rl) /\ HasIdx(p1, right)
       /\ \A d \in db : HasIdx(p1, d)
  BY <1>8, <1>9, AdmitReductFacts
<1> HIDE DEF p1
<1>11. /\ p2 \in Seq(ProofSteps) /\ HasIdx(p2, rl) /\ HasIdx(p2, rr)
       /\ \A d \in db : HasIdx(p2, d)
  BY <1>8, <1>10, AdmitReductFacts
<1>12. rl \in ClausesOver(h) /\ rr \in ClausesOver(h)
  BY <1>7, <1>8, ReductFacts
<1>13. PrefixInv'
  <2>1. nforks' = Cardinality(DOMAIN h.dependencies) - Cardinality(DOMAIN f.dependencies)
    <3>1. Counted(f)
      BY <1>1, ProblemFacts DEF PrefixInv
    <3>2. Cardinality(DOMAIN g.dependencies) \in Nat /\ Cardinality(DOMAIN f.dependencies) \in Nat
      BY <1>4, <3>1, FinitePrefix
    <3>3. Cardinality(DOMAIN h.dependencies) = Cardinality(DOMAIN g.dependencies) + 1
      BY <1>6 DEF OneMore, Fresh
    <3>4. nforks = Cardinality(DOMAIN g.dependencies) - Cardinality(DOMAIN f.dependencies)
      BY <1>1 DEF PrefixInv
    <3>5. QED
      BY <1>2, <3>2, <3>3, <3>4
  <2>2. QED
    BY <1>1, <1>2, <1>6, <2>1 DEF PrefixInv, OneMore, Fresh
<1>14. ControlInv'
  BY <1>1, <1>3, NoneAssumption DEF ControlInv, Fork
<1>15. ClauseInv'
  <2>1. db' \subseteq ClausesOver(h)
    BY <1>1, <1>2, <1>6, <1>12 DEF ClauseInv, OneMore, Fresh
  <2>2. \A d \in db' : HasIdx(p2, d)
    BY <1>2, <1>11
  <2>3. todo' \in Seq(SUBSET db')
    <3>1. <<db'>> \in Seq(SUBSET db') /\ << >> \in Seq(SUBSET db')
      OBVIOUS
    <3>2. QED
      BY <1>3, <3>1
  <2>4. proof' = p2
    BY <1>2 DEF p1
  <2>5. QED
    BY <1>1, <1>2, <1>11, <2>1, <2>2, <2>3, <2>4 DEF ClauseInv
<1>16. Follows'
  <2>1. SUFFICES ASSUME IsTrue(f)
                 PROVE  \E sx \in SkolemTuples(h) :
                           AllTrue(h, sx, f.clauses \cup ((db \ {c}) \cup {rl, rr}))
    BY <1>2 DEF Follows
  <2>2. PICK sk \in SkolemTuples(g) : AllTrue(g, sk, f.clauses \cup db)
    BY <1>1, <2>1 DEF Follows
  <2> DEFINE x == Fresh(g)
             W == {Var(l) : l \in c3}
             D == (ClauseDep(g, part) \cap ClauseDep(g, c \ part)) \ W
  <2>3. h = AddExistential(g, x, D)
    BY DEF h, ForkFormula, CommonDeps
  <2>4. /\ x \in Int /\ x > 0 /\ ~ IsUniversal(g, x) /\ ~ IsExistential(g, x)
        /\ h.universals = g.universals
    BY <1>6 DEF OneMore, Fresh, IsDeclared
  <2>5. ClauseDep(g, part) \subseteq g.universals
    BY <1>4, <1>5, ClauseDepUniversal
  <2>6. D \in SUBSET Int /\ part \in SUBSET c /\ c3 \in SUBSET Int /\ PrefixOK(g)
    BY <1>4, <1>5, <2>5 DEF IsFormula, PrefixOK
  <2>7. \A b \in Rows(g) : EvalClause(g, sk, b, c)
    BY <2>2 DEF AllTrue
  <2>8. Droppable(g, c3, W)
    BY <1>5
  <2>9. D = (ClauseDep(g, part) \cap ClauseDep(g, c \ part)) \ W
    OBVIOUS
  <2> HIDE DEF x, W, D
  <2>10. HasExtension(g, sk, c, part, c3, x, D)
    BY <1>4, <2>4, <2>6, <2>7, <2>8, <2>9, ForkTrue
  <2>11. PICK sx \in SkolemTuples(h) :
            \A b \in Rows(g) :
               /\ \A d : EvalClause(g, sk, b, d) => EvalClause(h, sx, b, d)
               /\ EvalClause(h, sx, b, c3 \cup part \cup {x})
               /\ EvalClause(h, sx, b, c3 \cup (c \ part) \cup {-x})
    BY <2>3, <2>10 DEF HasExtension
  <2>12. left = c3 \cup part \cup {x} /\ right = c3 \cup (c \ part) \cup {-x}
    BY DEF left, right, LeftHalf, RightHalf, x
  <2>13. Rows(h) = Rows(g)
    BY <2>4 DEF Rows
  <2>14. /\ \A b \in Rows(h) : EvalClause(h, sx, b, left)
         /\ \A b \in Rows(h) : EvalClause(h, sx, b, right)
    BY <2>11, <2>12, <2>13
  <2>15. /\ \A b \in Rows(h) : EvalClause(h, sx, b, rl)
         /\ \A b \in Rows(h) : EvalClause(h, sx, b, rr)
    BY <1>8, <2>14, ReductTrue
  <2>16. AllTrue(h, sx, f.clauses \cup db)
    BY <2>2, <2>11, <2>13 DEF AllTrue
  <2> HIDE DEF rl, rr
  <2>17. AllTrue(h, sx, f.clauses \cup ((db \ {c}) \cup {rl, rr}))
    BY <2>15, <2>16 DEF AllTrue
  <2>18. QED
    BY <2>17
<1>17. QED
  BY <1>13, <1>14, <1>15, <1>16 DEF ForkresInv

\* The other steps change neither the formula nor the clauses.
LEMMA OtherStepInv ==
    ASSUME ForkresInv, LeaveSaturate \/ OutOfBudget \/ NothingToFork \/ DeadlinePasses
    PROVE  ForkresInv'
<1>1. PrefixInv /\ ClauseInv /\ ControlInv /\ Follows
  BY DEF ForkresInv
<1>2. UNCHANGED <<problem, unread, g, db, proof, nforks>>
  BY DEF LeaveSaturate, OutOfBudget, NothingToFork, DeadlinePasses
<1>3. todo' = todo \/ todo' = << >>
  BY DEF LeaveSaturate, OutOfBudget, NothingToFork, DeadlinePasses
<1>4. PrefixInv' /\ f' = f
  BY <1>1, <1>2, PrefixKept
<1>5. ClauseInv'
  <2>1. << >> \in Seq(SUBSET db)
    OBVIOUS
  <2>2. todo' \in Seq(SUBSET db)
    BY <1>1, <1>3, <2>1 DEF ClauseInv
  <2>3. QED
    BY <1>1, <1>2, <1>4, <2>2 DEF ClauseInv
<1>6. Follows'
  BY <1>1, <1>2, <1>4 DEF Follows
<1>7. ControlInv'
  <2>1. CASE LeaveSaturate
    BY <1>1, <2>1, NoneAssumption DEF ControlInv, LeaveSaturate
  <2>2. CASE OutOfBudget \/ NothingToFork
    BY <1>1, <1>2, <2>2 DEF ControlInv, OutOfBudget, NothingToFork, Return
  <2>3. CASE DeadlinePasses
    BY <1>1, <1>2, <2>3 DEF ControlInv, DeadlinePasses
  <2>4. QED
    BY <2>1, <2>2, <2>3
<1>8. QED
  BY <1>4, <1>5, <1>6, <1>7 DEF ForkresInv

\* So the invariant is inductive.
LEMMA NextInv ==
    ForkresInv /\ [Next]_searchVars => ForkresInv'
<1> SUFFICES ASSUME ForkresInv, [Next]_searchVars PROVE ForkresInv'
  OBVIOUS
<1>1. ASSUME NEW c \in unread, LoadClause(c) PROVE ForkresInv'
  BY <1>1, LoadClauseInv
<1>2. CASE Loaded
  BY <1>2, LoadedInv
<1>3. ASSUME NEW c \in UNION Range(todo), Saturate(c) \/ DeriveEmpty(c) PROVE ForkresInv'
  BY <1>3, SaturateInv, DeriveEmptyInv
<1>4. ASSUME NEW c \in db, NEW a \in ForkVars(g, c), Fork(c, a) PROVE ForkresInv'
  BY <1>4, ForkInv
<1>5. CASE LeaveSaturate \/ OutOfBudget \/ NothingToFork \/ DeadlinePasses
  BY <1>5, OtherStepInv
<1>6. CASE UNCHANGED searchVars
  <2>1. PrefixInv' /\ f' = f
    BY <1>6, PrefixKept DEF ForkresInv, searchVars
  <2>2. QED
    BY <1>6, <2>1 DEF ForkresInv, ClauseInv, ControlInv, Follows, searchVars
<1>7. QED
  BY <1>1, <1>2, <1>3, <1>4, <1>5, <1>6 DEF Next, SolveStep

\* The inductive invariant holds in every reachable state.
THEOREM ForkresInvariant == Spec => []ForkresInv
<1>1. Init => ForkresInv
  BY InitInv
<1>2. ForkresInv /\ [Next]_searchVars => ForkresInv'
  BY NextInv
<1>3. QED
  BY <1>1, <1>2, PTL DEF Spec

\* Clauses mention quantified variables only, every fork makes one existential, and
\* a result is there exactly when solve has returned.
THEOREM SearchTypeCorrect == Spec => []TypeOK
<1>1. ForkresInv => TypeOK
  <2> SUFFICES ASSUME ForkresInv PROVE TypeOK
    OBVIOUS
  <2>1. PrefixInv /\ ClauseInv /\ ControlInv
    BY DEF ForkresInv
  <2>2. \A c \in db \cup UNION Range(todo) : \A l \in c : IsDeclared(g, Var(l))
    BY <2>1, OnStack DEF ClauseInv, ClausesOver
  <2>3. QED
    BY <2>1, <2>2 DEF TypeOK, PrefixInv, ControlInv
<1>2. QED
  BY <1>1, ForkresInvariant, PTL

\* idx[c] never raises KeyError: every clause that may be a premise has been admitted.
THEOREM PremisesAdmitted == Spec => []IdxComplete
<1>1. ForkresInv => IdxComplete
  BY OnStack DEF ForkresInv, ClauseInv, IdxComplete
<1>2. QED
  BY <1>1, ForkresInvariant, PTL

\* The prover answers UNSAT to false formulas only, whatever it forks on and in
\* whatever order it meets the clauses.
THEOREM UnsatIsRight == Spec => []UnsatSound
<1>1. ForkresInv => UnsatSound
  <2> SUFFICES ASSUME ForkresInv, result = "UNSAT", IsTrue(f) PROVE FALSE
    BY DEF UnsatSound
  <2>1. {} \in db
    BY DEF ForkresInv, ControlInv
  <2>2. PICK sk \in SkolemTuples(g) : AllTrue(g, sk, f.clauses \cup db)
    BY DEF ForkresInv, Follows
  <2>3. QED
    BY <2>1, <2>2, EmptyNeverTrue
<1>2. QED
  BY <1>1, ForkresInvariant, PTL

-----------------------------------------------------------------------------
(* What the checker asks of a step, said of the prover's formula h, which   *)
(* has grown from the formula b of the problem, and of the list p.          *)

IsFork(s) == s.rule \in {"fex", "sfex"}

\* The fork variables of the first n steps of p, and all variables known after them.
ForkVarsOf(p, n) == {p[k].fresh : k \in {j \in 1..n : IsFork(p[j])}}

KnownVars(b, p, n) == b.universals \cup DOMAIN b.dependencies \cup ForkVarsOf(p, n)

AxiomStep(b, s) == s.rule = "axiom" /\ s.clause \in b.clauses

ResStep(h, p, n, s) ==
    /\ s.rule = "res"
    /\ \E i, j \in 1..n :
          /\ s.premises = <<i - 1, j - 1>> /\ s.pivot \in Nat
          /\ Resolves(p[i].clause, p[j].clause, s.pivot)
          /\ V!IsUReduction(h, Resolvent(p[i].clause, p[j].clause, s.pivot), s.clause)

UredStep(h, p, n, s) ==
    /\ s.rule = "ured"
    /\ \E i \in 1..n : s.premises = <<i - 1>> /\ V!IsUReduction(h, p[i].clause, s.clause)

\* Step s forks clause c: its shape, and the dependencies of its variable.
ForksClause(h, c, s) ==
    /\ s.part \subseteq c
    /\ s.clause \in {s.c3 \cup s.part \cup {s.fresh}, s.c3 \cup (c \ s.part) \cup {-s.fresh}}
    /\ h.dependencies[s.fresh] =
          (ClauseDep(h, s.part) \cap ClauseDep(h, c \ s.part)) \ {Var(l) : l \in s.c3}

ForkedStep(b, h, p, n, s) ==
    /\ IsFork(s) /\ (s.rule = "fex" => s.c3 = {})
    /\ s.fresh \in Int /\ s.fresh \in DOMAIN h.dependencies /\ s.fresh > b.n_vars
    /\ s.part \in SUBSET Int /\ s.c3 \subseteq b.universals
    /\ \E i \in 1..n : s.premises = <<i - 1>> /\ ForksClause(h, p[i].clause, s)

ByRule(b, h, p, n, s) ==
    AxiomStep(b, s) \/ ResStep(h, p, n, s) \/ UredStep(h, p, n, s) \/ ForkedStep(b, h, p, n, s)

VarsKnown(b, p, n, s) ==
    \A l \in s.clause : Var(l) \in KnownVars(b, p, n) \/ (IsFork(s) /\ Var(l) = s.fresh)

\* Step s is justified by the first n steps of p.
Justified(b, h, p, n, s) == ByRule(b, h, p, n, s) /\ VarsKnown(b, p, n, s)

SameFork(s, t) ==
    IsFork(s) /\ IsFork(t) /\ s.fresh = t.fresh =>
        s.premises = t.premises /\ s.part = t.part /\ s.c3 = t.c3 /\ s.rule = t.rule

ProofOK(b, h, p) ==
    /\ \A i \in 1..Len(p) : Justified(b, h, p, i - 1, p[i])
    /\ \A i, j \in 1..Len(p) : SameFork(p[i], p[j])

\* h is b with more existentials, numbered above b's variables.
Grown(b, h) ==
    /\ b.universals = h.universals /\ b.n_vars <= h.n_vars
    /\ \A y \in DOMAIN b.dependencies :
          y \in DOMAIN h.dependencies /\ h.dependencies[y] = b.dependencies[y]

\* What the prover keeps true of its proof.
ProofInv == Grown(f, g) /\ ProofOK(f, g, proof)

\* Where the checker stands: it has taken the first steps of the proof, and its
\* formula is that of the prover without the forks it has not come to.
CheckerInv ==
    /\ result # "UNSAT" => derived = << >> /\ forks = << >> /\ checked = f
    /\ derived \in Seq(SUBSET Int) /\ Len(derived) <= Len(proof)
    /\ \A i \in 1..Len(derived) : derived[i] = proof[i].clause
    /\ DOMAIN forks = ForkVarsOf(proof, Len(derived))
    /\ \A i \in 1..Len(derived) :
          IsFork(proof[i]) => forks[proof[i].fresh] = V!Signature(proof[i])
    /\ checked.universals = f.universals /\ checked.clauses = f.clauses
    /\ DOMAIN checked.dependencies = DOMAIN f.dependencies \cup DOMAIN forks
    /\ DOMAIN checked.dependencies \subseteq DOMAIN g.dependencies
    /\ \A y \in DOMAIN checked.dependencies : checked.dependencies[y] = g.dependencies[y]
    /\ verdict \in {"reading", "valid"}

-----------------------------------------------------------------------------
(* The checker has the formula and its operators from the same module.      *)

LEMMA CheckerCalculus ==
    /\ \A l : V!Var(l) = Var(l)
    /\ \A h, v : V!IsUniversal(h, v) <=> IsUniversal(h, v)
    /\ \A h, v : V!IsExistential(h, v) <=> IsExistential(h, v)
    /\ \A h, c : V!ExDeps(h, c) = ExDeps(h, c)
    /\ \A h, c : V!ClauseDep(h, c) = ClauseDep(h, c)
    /\ \A c, d, p : V!Resolvent(c, d, p) = Resolvent(c, d, p)
    /\ \A c, d, p : V!Resolves(c, d, p) <=> Resolves(c, d, p)
<1>1. \A l : V!Var(l) = Var(l)
  BY DEF Var, V!Var
<1>2. \A h, v : V!IsUniversal(h, v) <=> IsUniversal(h, v)
  BY DEF IsUniversal, V!IsUniversal
<1>3. \A h, v : V!IsExistential(h, v) <=> IsExistential(h, v)
  BY DEF IsExistential, V!IsExistential
<1>4. \A h, c : V!ExDeps(h, c) = ExDeps(h, c)
  BY <1>1, <1>3 DEF ExDeps, V!ExDeps
<1>5. \A h, v : V!Dep(h, v) = Dep(h, v)
  BY <1>3 DEF Dep, V!Dep
<1>6. \A h, c : V!ClauseDep(h, c) = ClauseDep(h, c)
  BY <1>1, <1>5 DEF ClauseDep, V!ClauseDep
<1>7. \A c, d, p : V!Resolvent(c, d, p) = Resolvent(c, d, p)
  BY DEF Resolvent, V!Resolvent
<1>8. \A c, d, p : V!Resolves(c, d, p) <=> Resolves(c, d, p)
  BY <1>7 DEF Resolves, V!Resolves, PivotsOn, V!PivotsOn, IsTautology, V!IsTautology
<1>9. QED
  BY <1>1, <1>2, <1>3, <1>4, <1>6, <1>7, <1>8

\* What _is_ureduction asks for, in the operators of the prover.
LEMMA UReductionMeans ==
    ASSUME NEW h, NEW src, NEW dst
    PROVE  V!IsUReduction(h, src, dst) <=>
              /\ dst \subseteq src
              /\ \A l \in src \ dst : /\ IsUniversal(h, Var(l))
                                      /\ Var(l) \notin ExDeps(h, dst)
                                      /\ -l \notin src
BY CheckerCalculus DEF V!IsUReduction

-----------------------------------------------------------------------------
(* Lists of justified steps.                                                *)

\* A justification is one still when steps are put behind those it rests on.
LEMMA JustifiedLater ==
    ASSUME NEW b, NEW h, NEW p, NEW q, NEW n \in Nat, NEW m \in Nat, n <= m,
           \A i \in 1..n : q[i] = p[i],
           NEW s, Justified(b, h, p, n, s)
    PROVE  Justified(b, h, q, m, s)
<1>1. 1..n \subseteq 1..m
  OBVIOUS
<1>2. ForkVarsOf(p, n) \subseteq ForkVarsOf(q, m)
  BY <1>1 DEF ForkVarsOf
<1>3. VarsKnown(b, q, m, s)
  BY <1>2 DEF Justified, VarsKnown, KnownVars
<1>4. ByRule(b, h, q, m, s)
  <2>1. CASE AxiomStep(b, s)
    BY <2>1 DEF ByRule
  <2>2. CASE ResStep(h, p, n, s)
    <3>1. ResStep(h, q, m, s)
      BY <1>1, <2>2 DEF ResStep
    <3>2. QED
      BY <3>1 DEF ByRule
  <2>3. CASE UredStep(h, p, n, s)
    <3>1. UredStep(h, q, m, s)
      BY <1>1, <2>3 DEF UredStep
    <3>2. QED
      BY <3>1 DEF ByRule
  <2>4. CASE ForkedStep(b, h, p, n, s)
    <3>1. PICK i \in 1..n : s.premises = <<i - 1>> /\ ForksClause(h, p[i].clause, s)
      BY <2>4 DEF ForkedStep
    <3>2. i \in 1..m /\ ForksClause(h, q[i].clause, s)
      BY <1>1, <3>1
    <3>3. ForkedStep(b, h, q, m, s)
      BY <2>4, <3>1, <3>2 DEF ForkedStep
    <3>4. QED
      BY <3>3 DEF ByRule
  <2>5. QED
    BY <2>1, <2>2, <2>3, <2>4 DEF Justified, ByRule
<1>5. QED
  BY <1>3, <1>4 DEF Justified

\* Steps that a proof justifies may be put behind it, if fork steps only agree with
\* each other and their variables are new.
LEMMA ConcatJustified ==
    ASSUME NEW b, NEW h, NEW p \in Seq(ProofSteps), NEW q \in Seq(ProofSteps),
           ProofOK(b, h, p),
           \A i \in DOMAIN q : Justified(b, h, p, Len(p), q[i]),
           \A i, j \in DOMAIN q : SameFork(q[i], q[j]),
           \A i \in DOMAIN q, j \in DOMAIN p : ~ (IsFork(q[i]) /\ IsFork(p[j]) /\ q[i].fresh = p[j].fresh)
    PROVE  ProofOK(b, h, p \o q)
<1> DEFINE r == p \o q
<1>1. /\ r \in Seq(ProofSteps)
      /\ Len(r) = Len(p) + Len(q)
      /\ \A i \in 1..Len(p) + Len(q) : r[i] = IF i <= Len(p) THEN p[i] ELSE q[i - Len(p)]
  BY ConcatProperties
<1>2. DOMAIN p = 1..Len(p) /\ Len(p) \in Nat /\ DOMAIN q = 1..Len(q) /\ Len(q) \in Nat
  BY LenProperties
<1> HIDE DEF r
<1>3. ASSUME NEW i \in 1..Len(r)
      PROVE  \/ i \in DOMAIN p /\ r[i] = p[i]
             \/ /\ i - Len(p) \in DOMAIN q /\ r[i] = q[i - Len(p)]
                /\ i - 1 \in Nat /\ Len(p) <= i - 1
  BY <1>1, <1>2
<1>4. \A i \in 1..Len(p) : r[i] = p[i]
  BY <1>1, <1>2
<1>5. ASSUME NEW i \in 1..Len(r)
      PROVE  Justified(b, h, r, i - 1, r[i])
  <2>1. CASE i \in DOMAIN p /\ r[i] = p[i]
    <3>1. i - 1 \in Nat /\ \A k \in 1..i - 1 : r[k] = p[k]
      BY <1>2, <1>4, <2>1
    <3>2. Justified(b, h, p, i - 1, p[i])
      BY <1>2, <2>1 DEF ProofOK
    <3> DEFINE n == i - 1
    <3>3. n \in Nat /\ n <= n /\ (\A k \in 1..n : r[k] = p[k]) /\ Justified(b, h, p, n, p[i])
      BY <3>1, <3>2
    <3> HIDE DEF n
    <3>4. Justified(b, h, r, n, p[i])
      BY <3>3, JustifiedLater
    <3>5. QED
      BY <2>1, <3>4 DEF n
  <2>2. CASE i - Len(p) \in DOMAIN q /\ r[i] = q[i - Len(p)] /\ i - 1 \in Nat /\ Len(p) <= i - 1
    <3> DEFINE m == i - 1
    <3>1. m \in Nat /\ Len(p) \in Nat /\ Len(p) <= m
      BY <1>2, <2>2
    <3>2. Justified(b, h, p, Len(p), r[i])
      BY <2>2
    <3> HIDE DEF m
    <3>3. Justified(b, h, r, m, r[i])
      BY <1>4, <3>1, <3>2, JustifiedLater
    <3>4. QED
      BY <3>3 DEF m
  <2>3. QED
    BY <1>3, <2>1, <2>2
<1>6. ASSUME NEW i \in 1..Len(r), NEW j \in 1..Len(r)
      PROVE  SameFork(r[i], r[j])
  <2>1. \A k, l \in DOMAIN p : SameFork(p[k], p[l])
    BY <1>2 DEF ProofOK
  <2>2. \/ \E k \in DOMAIN p : r[i] = p[k]
        \/ \E k \in DOMAIN q : r[i] = q[k]
    BY <1>3
  <2>3. \/ \E k \in DOMAIN p : r[j] = p[k]
        \/ \E k \in DOMAIN q : r[j] = q[k]
    BY <1>3
  <2>4. QED
    BY <2>1, <2>2, <2>3 DEF SameFork
<1>7. ProofOK(b, h, r)
  BY <1>5, <1>6 DEF ProofOK
<1>8. QED
  BY <1>7 DEF r

\* The variables of an admitted clause are known.
LEMMA ClauseKnown ==
    ASSUME NEW b, NEW h, NEW p \in Seq(ProofSteps), ProofOK(b, h, p), NEW i \in 1..Len(p),
           NEW l \in p[i].clause
    PROVE  Var(l) \in KnownVars(b, p, i)
<1>1. i \in Nat /\ 1..i - 1 \subseteq 1..i /\ i \in 1..i
  OBVIOUS
<1>2. Var(l) \in KnownVars(b, p, i - 1) \/ (IsFork(p[i]) /\ Var(l) = p[i].fresh)
  BY DEF ProofOK, Justified, VarsKnown
<1>3. QED
  BY <1>1, <1>2 DEF KnownVars, ForkVarsOf

\* The reduct is a universal reduction, as the checker understands it.
LEMMA ReductChecked ==
    ASSUME NEW h, NEW c \in SUBSET Int
    PROVE  V!IsUReduction(h, c, UniversalReduce(h, c))
BY ReductFacts, UReductionMeans

\* One more step that is no fork.
LEMMA AppendJustified ==
    ASSUME NEW b, NEW h, NEW p \in Seq(ProofSteps), ProofOK(b, h, p),
           NEW s \in ProofSteps, ~ IsFork(s), Justified(b, h, p, Len(p), s)
    PROVE  ProofOK(b, h, p \o <<s>>)
<1> DEFINE q == <<s>>
<1>1. q \in Seq(ProofSteps) /\ \A i \in DOMAIN q : q[i] = s
  OBVIOUS
<1> HIDE DEF q
<1>2. \A i, j \in DOMAIN q : SameFork(q[i], q[j])
  BY <1>1 DEF SameFork
<1>3. ProofOK(b, h, p \o q)
  BY <1>1, <1>2, ConcatJustified
<1>4. QED
  BY <1>3 DEF q

\* Admitting a justified step, known or new.
LEMMA AdmitJustified ==
    ASSUME NEW b, NEW h, NEW p \in Seq(ProofSteps), ProofOK(b, h, p),
           NEW s \in ProofSteps, ~ IsFork(s), Justified(b, h, p, Len(p), s)
    PROVE  ProofOK(b, h, Admit(p, s))
<1>1. ProofOK(b, h, p \o <<s>>)
  BY AppendJustified
<1>2. Append(p, s) = p \o <<s>>
  BY AppendIsConcat
<1>3. QED
  BY <1>1, <1>2 DEF Admit

\* An admitted clause, by its position.
LEMMA AtIdx ==
    ASSUME NEW p \in Seq(ProofSteps), NEW c, HasIdx(p, c)
    PROVE  \E i \in 1..Len(p) : Idx(p, c) = i - 1 /\ p[i].clause = c
<1> DEFINE i == Idx(p, c) + 1
<1>1. Len(p) \in Nat
  BY LenProperties
<1>2. i \in 1..Len(p) /\ Idx(p, c) = i - 1 /\ p[i].clause = c
  BY <1>1, IdxFacts
<1>3. QED
  BY <1>2

\* Admitting the reduct of an admitted clause.
LEMMA AdmitReductJustified ==
    ASSUME NEW b, NEW h, NEW p \in Seq(ProofSteps), ProofOK(b, h, p),
           NEW c \in SUBSET Int, HasIdx(p, c)
    PROVE  ProofOK(b, h, AdmitReduct(h, p, c))
<1> DEFINE r == UniversalReduce(h, c)
           s == ProofStep(r, "ured", <<Idx(p, c)>>, None, None, {}, None)
<1>1. PICK i \in 1..Len(p) : Idx(p, c) = i - 1 /\ p[i].clause = c
  BY AtIdx
<1>2. r \in SUBSET c
  BY ReductFacts
<1>3. AdmitReduct(h, p, c) = IF r = c THEN p ELSE Admit(p, s)
  BY DEF AdmitReduct
<1>4. s \in ProofSteps /\ s.clause = r /\ s.rule = "ured" /\ s.premises = <<Idx(p, c)>>
  <2>1. Idx(p, c) \in Int
    BY <1>1
  <2>2. r \in SUBSET Int
    BY <1>2
  <2>3. <<Idx(p, c)>> \in Seq(Int)
    BY <2>1
  <2>4. QED
    BY <2>2, <2>3, StepTypes DEF ProofStep
<1> HIDE DEF s
<1>5. UredStep(h, p, Len(p), s)
  BY <1>1, <1>4, ReductChecked DEF UredStep
<1>6. VarsKnown(b, p, Len(p), s)
  <2>1. SUFFICES ASSUME NEW l \in s.clause
                 PROVE  Var(l) \in KnownVars(b, p, Len(p))
    BY DEF VarsKnown
  <2>2. l \in p[i].clause
    BY <1>1, <1>2, <1>4
  <2>3. Var(l) \in KnownVars(b, p, i)
    BY <2>2, ClauseKnown
  <2>4. 1..i \subseteq 1..Len(p)
    OBVIOUS
  <2>5. QED
    BY <2>3, <2>4 DEF KnownVars, ForkVarsOf
<1>7. ~ IsFork(s) /\ Justified(b, h, p, Len(p), s)
  BY <1>4, <1>5, <1>6 DEF IsFork, Justified, ByRule
<1>8. QED
  BY <1>3, <1>4, <1>7, AdmitJustified

\* All clauses of a proof are over the prover's formula.
LEMMA ProofClausesOver ==
    ASSUME NEW b, NEW h, NEW p \in Seq(ProofSteps), ProofOK(b, h, p), Grown(b, h),
           NEW i \in 1..Len(p)
    PROVE  /\ KnownVars(b, p, i) \subseteq h.universals \cup DOMAIN h.dependencies
           /\ p[i].clause \in ClausesOver(h)
<1>1. ASSUME NEW k \in 1..i, IsFork(p[k])
      PROVE  p[k].fresh \in DOMAIN h.dependencies
  <2>1. k \in 1..Len(p)
    OBVIOUS
  <2>2. ByRule(b, h, p, k - 1, p[k])
    BY <2>1 DEF ProofOK, Justified
  <2>3. QED
    BY <1>1, <2>2 DEF ByRule, AxiomStep, ResStep, UredStep, ForkedStep, IsFork
<1>2. KnownVars(b, p, i) \subseteq h.universals \cup DOMAIN h.dependencies
  BY <1>1 DEF KnownVars, ForkVarsOf, Grown
<1>3. p[i] \in ProofSteps
  BY ElementOfSeq
<1>4. p[i].clause \in SUBSET Int
  BY <1>3 DEF ProofSteps
<1>5. \A l \in p[i].clause : Var(l) \in KnownVars(b, p, i)
  BY ClauseKnown
<1>6. QED
  BY <1>2, <1>4, <1>5 DEF ClausesOver, IsDeclared, IsUniversal, IsExistential

\* Universal reduction from a clause the two formulas agree on.
LEMMA AgreeOnReduction ==
    ASSUME NEW h, NEW e, NEW c, AgreeOn(h, e, c), h.universals = e.universals, NEW d,
           V!IsUReduction(h, c, d)
    PROVE  V!IsUReduction(e, c, d)
<1>1. d \subseteq c
  BY UReductionMeans
<1>2. ExDeps(h, d) = ExDeps(e, d)
  BY <1>1, AgreeOnDeps
<1>3. QED
  BY <1>2, UReductionMeans DEF IsUniversal

\* So the proof stays justified when the formula grows by a fork variable.
LEMMA ForkKeepsProof ==
    ASSUME NEW b, NEW h, NEW e, NEW p \in Seq(ProofSteps),
           ProofOK(b, h, p), Grown(b, h), OneMore(h, e), h.n_vars \in Nat, b.n_vars \in Nat
    PROVE  Grown(b, e) /\ ProofOK(b, e, p)
<1>1. Grown(b, e)
  <2>1. Fresh(h) = h.n_vars + 1 /\ e.n_vars = Fresh(h)
    BY DEF OneMore, Fresh
  <2>2. b.n_vars <= e.n_vars
    BY <2>1 DEF Grown
  <2>3. QED
    BY <2>2 DEF Grown, OneMore, Fresh
<1>2. \A i \in 1..Len(p) : p[i].clause \in ClausesOver(h)
  BY ProofClausesOver
<1>3. ASSUME NEW i \in 1..Len(p)
      PROVE  Justified(b, e, p, i - 1, p[i])
  <2> DEFINE s == p[i]
             n == i - 1
  <2>1. ByRule(b, h, p, n, s) /\ VarsKnown(b, p, n, s)
    BY DEF ProofOK, Justified
  <2>2. 1..n \subseteq 1..Len(p)
    OBVIOUS
  <2> SUFFICES ByRule(b, e, p, n, s)
    BY <2>1 DEF Justified
  <2> HIDE DEF s, n
  <2>3. CASE AxiomStep(b, s)
    BY <2>3 DEF ByRule
  <2>4. CASE ResStep(h, p, n, s)
    <3>1. PICK j \in 1..n, k \in 1..n :
             /\ s.premises = <<j - 1, k - 1>> /\ s.pivot \in Nat
             /\ Resolves(p[j].clause, p[k].clause, s.pivot)
             /\ V!IsUReduction(h, Resolvent(p[j].clause, p[k].clause, s.pivot), s.clause)
      BY <2>4 DEF ResStep
    <3> DEFINE c == Resolvent(p[j].clause, p[k].clause, s.pivot)
    <3>2. p[j].clause \in ClausesOver(h) /\ p[k].clause \in ClausesOver(h)
      BY <1>2, <2>2
    <3>3. c \in ClausesOver(h)
      BY <3>2, ResolventOver
    <3> HIDE DEF c
    <3>4. V!IsUReduction(h, c, s.clause)
      BY <3>1 DEF c
    <3>5. V!IsUReduction(e, c, s.clause)
      BY <3>3, <3>4, OneMoreAgrees, AgreeOnReduction
    <3>6. ResStep(e, p, n, s)
      BY <2>4, <3>1, <3>5 DEF ResStep, c
    <3>7. QED
      BY <3>6 DEF ByRule
  <2>5. CASE UredStep(h, p, n, s)
    <3>1. PICK j \in 1..n : s.premises = <<j - 1>> /\ V!IsUReduction(h, p[j].clause, s.clause)
      BY <2>5 DEF UredStep
    <3>2. p[j].clause \in ClausesOver(h)
      BY <1>2, <2>2
    <3>3. V!IsUReduction(e, p[j].clause, s.clause)
      BY <3>1, <3>2, OneMoreAgrees, AgreeOnReduction
    <3>4. UredStep(e, p, n, s)
      BY <2>5, <3>1, <3>3 DEF UredStep
    <3>5. QED
      BY <3>4 DEF ByRule
  <2>6. CASE ForkedStep(b, h, p, n, s)
    <3>1. PICK j \in 1..n : s.premises = <<j - 1>> /\ ForksClause(h, p[j].clause, s)
      BY <2>6 DEF ForkedStep
    <3> DEFINE c == p[j].clause
    <3>2. c \in ClausesOver(h) /\ ForksClause(h, c, s)
      BY <1>2, <2>2, <3>1
    <3>3. AgreeOn(h, e, c)
      BY <3>2, OneMoreAgrees
    <3> HIDE DEF c
    <3>4. s.part \in SUBSET c /\ c \ s.part \in SUBSET c
      BY <3>2 DEF ForksClause
    <3>5. ClauseDep(h, s.part) = ClauseDep(e, s.part) /\ ClauseDep(h, c \ s.part) = ClauseDep(e, c \ s.part)
      BY <3>3, <3>4, AgreeOnDeps
    <3>6. s.fresh \in DOMAIN e.dependencies /\ e.dependencies[s.fresh] = h.dependencies[s.fresh]
      BY <2>6 DEF ForkedStep, OneMore, Fresh
    <3>7. ForksClause(e, c, s)
      BY <3>2, <3>5, <3>6 DEF ForksClause
    <3>8. ForkedStep(b, e, p, n, s)
      BY <2>6, <3>1, <3>6, <3>7 DEF ForkedStep, c
    <3>9. QED
      BY <3>8 DEF ByRule
  <2>7. QED
    BY <2>1, <2>3, <2>4, <2>5, <2>6 DEF ByRule
<1>4. QED
  BY <1>1, <1>3 DEF ProofOK

\* The resolution steps of the prover.
LEMMA ResolutionJustified ==
    ASSUME Ready, NEW b, ProofOK(b, g, proof), NEW c \in db, NEW r \in NewClauses(c)
    PROVE  /\ ~ IsFork(Resolution(c, r))
           /\ Justified(b, g, proof, Len(proof), Resolution(c, r))
<1> DEFINE x == CHOOSE y \in Resolutions(c) : Product(c, y) = r
           s == Resolution(c, r)
<1>1. x \in Resolutions(c) /\ Product(c, x) = r
  BY NewClauseFacts
<1>2. s = ProofStep(r, "res", <<Idx(proof, c), Idx(proof, x[1])>>, x[2], None, {}, None)
  BY DEF Resolution
<1> HIDE DEF x, s
<1> DEFINE d == x[1]
           v == x[2]
<1>3. d \in db /\ v \in {Var(l) : l \in c} /\ Resolves(c, d, v)
  BY <1>1 DEF Resolutions
<1>4. c \in SUBSET Int /\ d \in SUBSET Int
  BY <1>3 DEF Ready, ClausesOver
<1>5. v \in Nat
  BY <1>3, <1>4, VarFacts
<1>6. r = UniversalReduce(g, Resolvent(c, d, v))
  BY <1>1 DEF Product
<1>7. s.rule = "res" /\ s.clause = r /\ s.pivot = v /\ s.premises = <<Idx(proof, c), Idx(proof, d)>>
  BY <1>2 DEF ProofStep
<1> HIDE DEF d, v
<1>8. proof \in Seq(ProofSteps) /\ HasIdx(proof, c) /\ HasIdx(proof, d)
  BY <1>3 DEF Ready
<1>9. PICK i \in 1..Len(proof) : Idx(proof, c) = i - 1 /\ proof[i].clause = c
  BY <1>8, AtIdx
<1>10. PICK j \in 1..Len(proof) : Idx(proof, d) = j - 1 /\ proof[j].clause = d
  BY <1>8, AtIdx
<1>11. Resolvent(c, d, v) \in SUBSET Int
  BY <1>4 DEF Resolvent
<1>12. V!IsUReduction(g, Resolvent(c, d, v), r)
  BY <1>6, <1>11, ReductChecked
<1>13. ResStep(g, proof, Len(proof), s)
  BY <1>3, <1>5, <1>7, <1>9, <1>10, <1>12 DEF ResStep
<1>14. VarsKnown(b, proof, Len(proof), s)
  <2>1. SUFFICES ASSUME NEW l \in s.clause
                 PROVE  Var(l) \in KnownVars(b, proof, Len(proof))
    BY DEF VarsKnown
  <2>2. l \in Resolvent(c, d, v)
    BY <1>6, <1>7, <1>11, ReductFacts
  <2>3. l \in proof[i].clause \/ l \in proof[j].clause
    BY <1>9, <1>10, <2>2 DEF Resolvent
  <2>4. Var(l) \in KnownVars(b, proof, i) \/ Var(l) \in KnownVars(b, proof, j)
    BY <1>8, <2>3, ClauseKnown
  <2>5. 1..i \subseteq 1..Len(proof) /\ 1..j \subseteq 1..Len(proof)
    OBVIOUS
  <2>6. QED
    BY <2>4, <2>5 DEF KnownVars, ForkVarsOf
<1>15. QED
  BY <1>7, <1>13, <1>14 DEF s, IsFork, Justified, ByRule

\* The two steps of a fork.
LEMMA ForkJustified ==
    ASSUME Ready, IsFormula(g), NEW b, ProofOK(b, g, proof), Grown(b, g), b.n_vars \in Nat,
           NEW c \in db, NEW part \in SUBSET c, NEW c3 \in SUBSET g.universals,
           NEW h, h = ForkFormula(g, c, part, c3), OneMore(g, h),
           \A l \in c3 : l \in Int /\ Var(l) = l,
           NEW s, s = ForkStep(c, part, c3, LeftHalf(g, part, c3)), s \in ProofSteps,
           NEW t, t = ForkStep(c, part, c3, RightHalf(g, c, part, c3)), t \in ProofSteps
    PROVE  Grown(b, h) /\ ProofOK(b, h, proof \o <<s, t>>)
<1> DEFINE q == <<s, t>>
<1>1. q \in Seq(ProofSteps) /\ \A i \in DOMAIN q : q[i] = s \/ q[i] = t
  OBVIOUS
<1>2. proof \in Seq(ProofSteps) /\ g.n_vars \in Nat
  BY DEF Ready, Counted
<1>3. Grown(b, h) /\ ProofOK(b, h, proof)
  BY <1>2, ForkKeepsProof
<1>4. ASSUME NEW half \in {LeftHalf(g, part, c3), RightHalf(g, c, part, c3)},
             NEW u, u = ForkStep(c, part, c3, half)
      PROVE  /\ Justified(b, h, proof, Len(proof), u)
             /\ u.fresh = Fresh(g) /\ u.part = part /\ u.c3 = c3
             /\ u.premises = <<Idx(proof, c)>> /\ u.rule = IF c3 = {} THEN "fex" ELSE "sfex"
  <2> DEFINE x == Fresh(g)
  <2>1. /\ u.clause = half /\ u.fresh = x /\ u.part = part /\ u.c3 = c3
        /\ u.premises = <<Idx(proof, c)>> /\ u.rule = IF c3 = {} THEN "fex" ELSE "sfex"
    BY <1>4 DEF ForkStep, ProofStep
  <2>2. proof \in Seq(ProofSteps) /\ HasIdx(proof, c) /\ c \in ClausesOver(g)
    BY DEF Ready
  <2>3. PICK i \in 1..Len(proof) : Idx(proof, c) = i - 1 /\ proof[i].clause = c
    BY <2>2, AtIdx
  <2>4. x \in Nat \ {0} /\ x \in DOMAIN h.dependencies
    BY DEF OneMore, Fresh
  <2>5. x > b.n_vars
    <3>1. x = g.n_vars + 1 /\ b.n_vars <= g.n_vars /\ g.n_vars \in Nat
      BY DEF Fresh, Grown, Ready, Counted
    <3>2. QED
      BY <3>1
  <2>6. part \in SUBSET Int /\ c3 \in SUBSET b.universals
    BY <2>2 DEF ClausesOver, Grown
  <2>7. half \in {c3 \cup part \cup {x}, c3 \cup (c \ part) \cup {-x}}
    BY DEF LeftHalf, RightHalf
  <2>8. h.dependencies[x] = CommonDeps(g, c, part) \ {Var(l) : l \in c3}
    BY DEF ForkFormula, AddExistential
  <2>9. ClauseDep(g, part) = ClauseDep(h, part) /\ ClauseDep(g, c \ part) = ClauseDep(h, c \ part)
    <3>1. AgreeOn(g, h, c)
      BY <2>2, OneMoreAgrees
    <3>2. c \ part \in SUBSET c
      OBVIOUS
    <3>3. QED
      BY <3>1, <3>2, AgreeOnDeps
  <2> HIDE DEF x
  <2>10. ForksClause(h, c, u)
    BY <2>1, <2>7, <2>8, <2>9 DEF ForksClause, CommonDeps
  <2>11. ForkedStep(b, h, proof, Len(proof), u)
    BY <2>1, <2>3, <2>4, <2>5, <2>6, <2>10 DEF ForkedStep, IsFork
  <2>12. VarsKnown(b, proof, Len(proof), u)
    <3>1. SUFFICES ASSUME NEW l \in half, Var(l) # x
                   PROVE  Var(l) \in KnownVars(b, proof, Len(proof))
      BY <2>1 DEF VarsKnown, IsFork
    <3>2. Var(x) = x /\ Var(-x) = x
      BY <2>4 DEF Var
    <3>3. l \in c3 \/ l \in c
      BY <2>7, <3>1, <3>2
    <3>4. CASE l \in c3
      BY <2>6, <3>4 DEF KnownVars
    <3>5. CASE l \in c
      <4>1. Var(l) \in KnownVars(b, proof, i)
        BY <2>2, <2>3, <3>5, ClauseKnown
      <4>2. 1..i \subseteq 1..Len(proof)
        OBVIOUS
      <4>3. QED
        BY <4>1, <4>2 DEF KnownVars, ForkVarsOf
    <3>6. QED
      BY <3>3, <3>4, <3>5
  <2>13. QED
    BY <2>1, <2>11, <2>12 DEF Justified, ByRule, x
<1>5. \A u \in {s, t} :
         /\ Justified(b, h, proof, Len(proof), u)
         /\ u.fresh = Fresh(g) /\ u.part = part /\ u.c3 = c3
         /\ u.premises = <<Idx(proof, c)>> /\ u.rule = IF c3 = {} THEN "fex" ELSE "sfex"
  BY <1>4
<1> HIDE DEF q
<1>6. \A i, j \in DOMAIN q : SameFork(q[i], q[j])
  BY <1>1, <1>5 DEF SameFork
<1>7. ASSUME NEW i \in DOMAIN proof, IsFork(proof[i])
      PROVE  proof[i].fresh # Fresh(g)
  <2>1. i \in 1..Len(proof)
    BY <1>2, LenProperties
  <2>2. ByRule(b, g, proof, i - 1, proof[i])
    BY <2>1 DEF ProofOK, Justified
  <2>3. proof[i].fresh \in DOMAIN g.dependencies
    BY <1>7, <2>2 DEF ByRule, AxiomStep, ResStep, UredStep, ForkedStep, IsFork
  <2>4. QED
    BY <2>3 DEF OneMore, Fresh, IsDeclared, IsExistential
<1>8. \A i \in DOMAIN q, j \in DOMAIN proof :
         ~ (IsFork(q[i]) /\ IsFork(proof[j]) /\ q[i].fresh = proof[j].fresh)
  BY <1>1, <1>5, <1>7
<1>9. \A i \in DOMAIN q : Justified(b, h, proof, Len(proof), q[i])
  BY <1>1, <1>5
<1>10. ProofOK(b, h, proof \o q)
  BY <1>1, <1>2, <1>3, <1>6, <1>8, <1>9, ConcatJustified
<1>11. QED
  BY <1>3, <1>10 DEF q

-----------------------------------------------------------------------------
(* Every step of the prover keeps its proof justified.                      *)

\* At the start there is nothing to justify.
LEMMA InitProofInv ==
    ASSUME Init
    PROVE  ProofInv
<1>1. Counted(f) /\ g = f /\ proof = << >>
  BY ProblemFacts DEF Init
<1>2. Grown(f, g)
  BY <1>1 DEF Grown, Counted
<1>3. ProofOK(f, g, proof)
  BY <1>1 DEF ProofOK
<1>4. QED
  BY <1>2, <1>3 DEF ProofInv

\* An axiom and its reduct.
LEMMA LoadClauseProof ==
    ASSUME ForkresInv, ProofInv, NEW c \in unread, LoadClause(c)
    PROVE  ProofInv'
<1>1. PrefixInv /\ ClauseInv /\ f' = f /\ g' = g
  BY DEF ForkresInv, LoadClause, f
<1>2. SUFFICES ProofOK(f, g, proof')
  BY <1>1 DEF ProofInv
<1>3. c \in f.clauses /\ c \in ClausesOver(g) /\ c \in SUBSET Int
  BY <1>1, FormulaClauses DEF PrefixInv, ClauseInv, ClausesOver
<1>4. CASE IsTautology(c)
  BY <1>4 DEF LoadClause, ProofInv
<1>5. CASE ~ IsTautology(c)
  <2> DEFINE s == Axiom(c)
             p == Admit(proof, s)
  <2>1. proof' = AdmitReduct(g, p, c)
    BY <1>5 DEF LoadClause
  <2>2. s \in ProofSteps /\ s.clause = c /\ s.rule = "axiom"
    <3>1. << >> \in Seq(Int)
      OBVIOUS
    <3>2. QED
      BY <3>1, <1>3, StepTypes DEF Axiom, ProofStep
  <2> HIDE DEF s
  <2>3. p \in Seq(ProofSteps) /\ HasIdx(p, c)
    BY <1>1, <2>2, AdmitFacts DEF ClauseInv
  <2>4. VarsKnown(f, proof, Len(proof), s)
    <3>1. \A l \in c : Var(l) \in g.universals \cup DOMAIN f.dependencies
      <4>1. IsFormula(f) /\ g.universals = f.universals
        BY <1>1, ProblemFacts DEF PrefixInv
      <4>2. QED
        BY <1>3, <4>1 DEF IsFormula, IsDeclared, IsUniversal, IsExistential
    <3>2. QED
      BY <1>1, <2>2, <3>1 DEF VarsKnown, KnownVars, PrefixInv
  <2>5. ~ IsFork(s) /\ Justified(f, g, proof, Len(proof), s)
    BY <1>3, <2>2, <2>4 DEF IsFork, Justified, ByRule, AxiomStep
  <2>6. ProofOK(f, g, p)
    BY <1>1, <2>2, <2>5, AdmitJustified DEF ProofInv, ClauseInv
  <2> HIDE DEF p
  <2>7. ProofOK(f, g, AdmitReduct(g, p, c))
    BY <1>3, <2>3, <2>6, AdmitReductJustified
  <2>8. QED
    BY <2>1, <2>7
<1>6. QED
  BY <1>4, <1>5

\* The resolvents of a pass.
LEMMA ResolventsProof ==
    ASSUME ForkresInv, ProofInv, NEW c \in db, NEW clauses \in SUBSET NewClauses(c)
    PROVE  /\ AdmitResolvents(c, clauses) \in Seq(ProofSteps)
           /\ ProofOK(f, g, AdmitResolvents(c, clauses))
           /\ \E q \in Seq(ProofSteps) : AdmitResolvents(c, clauses) = proof \o q
<1>1. Ready
  BY InvMakesReady DEF ForkresInv
<1>2. PICK q \in Seq(ProofSteps) :
         /\ AdmitResolvents(c, clauses) = proof \o q
         /\ \A i \in DOMAIN q : \E r \in clauses : q[i] = Resolution(c, r)
  BY <1>1, AdmitResolventsFacts
<1>3. proof \in Seq(ProofSteps) /\ ProofOK(f, g, proof)
  BY <1>1 DEF Ready, ProofInv
<1>4. \A i \in DOMAIN q : ~ IsFork(q[i]) /\ Justified(f, g, proof, Len(proof), q[i])
  BY <1>1, <1>2, <1>3, ResolutionJustified
<1>5. \A i, j \in DOMAIN q : SameFork(q[i], q[j])
  BY <1>4 DEF SameFork
<1>6. ProofOK(f, g, proof \o q)
  BY <1>3, <1>4, <1>5, ConcatJustified
<1>7. proof \o q \in Seq(ProofSteps)
  BY <1>3, ConcatProperties
<1>8. QED
  BY <1>2, <1>6, <1>7

\* A pass of _saturate.
LEMMA SaturateProof ==
    ASSUME ForkresInv, ProofInv, NEW c \in UNION Range(todo), Saturate(c)
    PROVE  ProofInv'
<1>1. c \in db /\ f' = f /\ g' = g /\ proof' = AdmitResolvents(c, NewClauses(c))
  BY OnStack DEF ForkresInv, Saturate, f
<1>2. NewClauses(c) \in SUBSET NewClauses(c)
  OBVIOUS
<1>3. ProofOK(f, g, proof')
  BY <1>1, <1>2, ResolventsProof
<1>4. QED
  BY <1>1, <1>3 DEF ProofInv

\* The pass that derives the empty clause, by the last step of the proof.
LEMMA DeriveEmptyProof ==
    ASSUME ForkresInv, ProofInv, NEW c \in UNION Range(todo), DeriveEmpty(c)
    PROVE  ProofInv'
<1>1. c \in db /\ f' = f /\ g' = g /\ {} \in NewClauses(c) /\ Ready
  BY OnStack, InvMakesReady DEF ForkresInv, DeriveEmpty, f
<1>2. PICK before \in SUBSET NewClauses(c) :
         proof' = Append(AdmitResolvents(c, before), Resolution(c, {}))
  BY DEF DeriveEmpty
<1> DEFINE p == AdmitResolvents(c, before)
           s == Resolution(c, {})
<1>3. PICK q \in Seq(ProofSteps) : p = proof \o q
  BY <1>1, ResolventsProof
<1>4. p \in Seq(ProofSteps) /\ ProofOK(f, g, p)
  BY <1>1, ResolventsProof
<1>5. s \in ProofSteps
  BY <1>1, ResolutionFacts
<1>6. ~ IsFork(s) /\ Justified(f, g, proof, Len(proof), s)
  BY <1>1, ResolutionJustified DEF ProofInv
<1> HIDE DEF p, s
<1>7. /\ Len(proof) \in Nat /\ Len(p) \in Nat /\ Len(proof) <= Len(p)
      /\ \A i \in 1..Len(proof) : p[i] = proof[i]
  <2>1. proof \in Seq(ProofSteps)
    BY <1>1 DEF Ready
  <2>2. /\ Len(proof \o q) = Len(proof) + Len(q)
        /\ \A i \in 1..Len(proof) + Len(q) :
              (proof \o q)[i] = IF i <= Len(proof) THEN proof[i] ELSE q[i - Len(proof)]
    BY <2>1, ConcatProperties
  <2>3. Len(proof) \in Nat /\ Len(q) \in Nat
    BY <2>1, LenProperties
  <2>4. QED
    BY <1>3, <2>2, <2>3
<1>8. Justified(f, g, p, Len(p), s)
  BY <1>6, <1>7, JustifiedLater
<1>9. ProofOK(f, g, p \o <<s>>)
  BY <1>4, <1>5, <1>6, <1>8, AppendJustified
<1>10. proof' = p \o <<s>>
  BY <1>2, <1>4, <1>5, AppendIsConcat DEF p, s
<1>11. QED
  BY <1>1, <1>9, <1>10 DEF ProofInv

\* A fork: its two steps, then the reducts of its two halves.
LEMMA ForkProof ==
    ASSUME ForkresInv, ProofInv, NEW c \in db, NEW a \in ForkVars(g, c), Fork(c, a)
    PROVE  ProofInv'
<1> DEFINE part == ForkPart(c, a)
           c3 == ForkC3(c, part)
           left == LeftHalf(g, part, c3)
           right == RightHalf(g, c, part, c3)
           h == ForkFormula(g, c, part, c3)
           s == ForkStep(c, part, c3, left)
           t == ForkStep(c, part, c3, right)
           forked == proof \o <<s, t>>
<1>1. Ready /\ IsFormula(g) /\ Counted(g) /\ c \in ClausesOver(g)
  BY InvMakesReady DEF ForkresInv, PrefixInv, ClauseInv
<1>2. g' = h /\ f' = f /\ proof' = AdmitReduct(h, AdmitReduct(h, forked, left), right)
  BY DEF Fork, f
<1>3. Counted(f) /\ proof \in Seq(ProofSteps) /\ ProofOK(f, g, proof) /\ Grown(f, g)
  BY <1>1, ProblemFacts DEF ForkresInv, PrefixInv, ProofInv, Ready
<1>4. /\ part \in SUBSET c /\ c3 \in SUBSET g.universals
      /\ \A l \in c3 : l \in Int /\ Var(l) = l
      /\ Droppable(g, c3, {Var(l) : l \in c3})
  BY <1>1, ForkChoiceFacts
<1> HIDE DEF part, c3
<1>5. OneMore(g, h)
  BY <1>1, <1>4, ForkFormulaFacts
<1>6. left \in ClausesOver(h) /\ right \in ClausesOver(h)
  BY <1>1, <1>4, HalvesOver
<1>7. left \in SUBSET Int /\ right \in SUBSET Int
  BY <1>6 DEF ClausesOver
<1>8. Fresh(g) \in Int /\ part \in SUBSET Int /\ c3 \in SUBSET Int
  BY <1>1, <1>4, <1>5 DEF OneMore, Fresh, ClausesOver
<1>9. s \in ProofSteps /\ s.clause = left /\ t \in ProofSteps /\ t.clause = right
  <2> HIDE DEF left, right
  <2>1. QED
    BY <1>1, <1>7, <1>8, ForkStepTypes
<1>10. Grown(f, h) /\ ProofOK(f, h, forked)
  <2> HIDE DEF s, t, h
  <2>1. s = ForkStep(c, part, c3, LeftHalf(g, part, c3)) /\ t = ForkStep(c, part, c3, RightHalf(g, c, part, c3))
    BY DEF s, t
  <2>2. h = ForkFormula(g, c, part, c3) /\ f.n_vars \in Nat
    BY <1>3 DEF h, Counted
  <2>3. QED
    BY <1>1, <1>3, <1>4, <1>5, <1>9, <2>1, <2>2, ForkJustified
<1> HIDE DEF s, t, h, left, right
<1>11. forked \in Seq(ProofSteps) /\ HasIdx(forked, left) /\ HasIdx(forked, right)
  <2>1. <<s, t>> \in Seq(ProofSteps) /\ HasIdx(<<s, t>>, left) /\ HasIdx(<<s, t>>, right)
    BY <1>9 DEF HasIdx
  <2>2. forked \in Seq(ProofSteps)
    BY <1>3, <2>1, ConcatProperties
  <2>3. QED
    BY <1>3, <2>1, <2>2, HasIdxConcat
<1> HIDE DEF forked
<1> DEFINE p == AdmitReduct(h, forked, left)
<1>12. p \in Seq(ProofSteps) /\ HasIdx(p, right) /\ ProofOK(f, h, p)
  BY <1>7, <1>10, <1>11, AdmitReductFacts, AdmitReductJustified
<1> HIDE DEF p
<1>13. ProofOK(f, h, AdmitReduct(h, p, right))
  BY <1>7, <1>12, AdmitReductJustified
<1>14. QED
  BY <1>2, <1>10, <1>13 DEF p, ProofInv

\* The prover's side of the invariant, whatever it does next.
LEMMA SolverKeepsProof ==
    ASSUME ForkresInv, ProofInv, Next
    PROVE  ProofInv'
<1>1. ASSUME NEW c \in unread, LoadClause(c) PROVE ProofInv'
  BY <1>1, LoadClauseProof
<1>2. ASSUME NEW c \in UNION Range(todo), Saturate(c) \/ DeriveEmpty(c) PROVE ProofInv'
  BY <1>2, SaturateProof, DeriveEmptyProof
<1>3. ASSUME NEW c \in db, NEW a \in ForkVars(g, c), Fork(c, a) PROVE ProofInv'
  BY <1>3, ForkProof
<1>4. CASE Loaded \/ LeaveSaturate \/ OutOfBudget \/ NothingToFork \/ DeadlinePasses
  <2>1. UNCHANGED <<problem, g, proof>>
    BY <1>4 DEF Loaded, LeaveSaturate, OutOfBudget, NothingToFork, DeadlinePasses
  <2>2. QED
    BY <2>1 DEF ProofInv, f
<1>5. QED
  BY <1>1, <1>2, <1>3, <1>4 DEF Next, SolveStep

-----------------------------------------------------------------------------
(* The checker.                                                             *)

\* Before the file is there, the checker stands at its beginning.
NotStarted ==
    /\ derived = << >> /\ forks = << >> /\ checked = f /\ verdict \in {"reading", "valid"}
    /\ Grown(f, g) /\ proof \in Seq(ProofSteps)

\* There the invariant of the checker holds.
LEMMA CheckerAtStart ==
    NotStarted => CheckerInv
<1> SUFFICES ASSUME NotStarted PROVE CheckerInv
  OBVIOUS
<1> USE DEF NotStarted
<1>1. Len(derived) = 0 /\ DOMAIN forks = {} /\ 1..0 = {} /\ Len(proof) \in Nat
  BY LenProperties
<1>2. ForkVarsOf(proof, Len(derived)) = {}
  BY <1>1 DEF ForkVarsOf
<1>3. derived \in Seq(SUBSET Int)
  OBVIOUS
<1>4. QED
  BY <1>1, <1>2, <1>3 DEF CheckerInv, Grown

\* solve has returned for good once it has answered.
LEMMA Answered ==
    ASSUME ForkresInv, result = "UNSAT"
    PROVE  ~ Next /\ HasIdx(proof, {})
<1>1. pc = "returned" /\ {} \in db
  BY NoneAssumption DEF ForkresInv, ControlInv
<1>2. ~ Next
  BY <1>1 DEF Next, SolveStep, LoadClause, Loaded, Saturate, DeriveEmpty, LeaveSaturate,
     OutOfBudget, Fork, NothingToFork, DeadlinePasses
<1>3. QED
  BY <1>1, <1>2 DEF ForkresInv, ClauseInv

\* On the clauses it has derived, the checker's formula says what the prover's does.
LEMMA CheckerAgrees ==
    ASSUME ForkresInv, ProofInv, CheckerInv
    PROVE  /\ \A i \in 1..Len(derived) :
                 derived[i] = proof[i].clause /\ AgreeOn(g, checked, proof[i].clause)
           /\ g.universals = checked.universals
<1>1. /\ proof \in Seq(ProofSteps) /\ PrefixOK(g) /\ g.universals = f.universals
  BY DEF ForkresInv, PrefixInv, ClauseInv, IsFormula
<1>2. /\ Len(derived) <= Len(proof) /\ DOMAIN forks = ForkVarsOf(proof, Len(derived))
      /\ derived \in Seq(SUBSET Int)
      /\ \A i \in 1..Len(derived) : derived[i] = proof[i].clause
      /\ checked.universals = f.universals
      /\ DOMAIN checked.dependencies = DOMAIN f.dependencies \cup DOMAIN forks
      /\ DOMAIN checked.dependencies \subseteq DOMAIN g.dependencies
      /\ \A y \in DOMAIN checked.dependencies : checked.dependencies[y] = g.dependencies[y]
  BY DEF CheckerInv
<1>3. Len(derived) \in Nat /\ Len(proof) \in Nat
  BY <1>1, <1>2, LenProperties
<1>4. ASSUME NEW i \in 1..Len(derived), NEW l \in proof[i].clause
      PROVE  /\ IsExistential(g, Var(l)) <=> IsExistential(checked, Var(l))
             /\ IsExistential(g, Var(l)) =>
                   g.dependencies[Var(l)] = checked.dependencies[Var(l)]
  <2>1. i \in 1..Len(proof) /\ 1..i \subseteq 1..Len(derived)
    BY <1>2, <1>3
  <2>2. Var(l) \in KnownVars(f, proof, i)
    BY <1>1, <2>1, ClauseKnown DEF ProofInv
  <2>3. Var(l) \in f.universals \cup DOMAIN checked.dependencies
    BY <1>2, <2>1, <2>2 DEF KnownVars, ForkVarsOf
  <2>4. g.universals \cap DOMAIN g.dependencies = {}
    BY <1>1 DEF PrefixOK
  <2>5. QED
    BY <1>1, <1>2, <2>3, <2>4 DEF IsExistential
<1>5. QED
  BY <1>1, <1>2, <1>4 DEF AgreeOn

\* The step the checker comes to.
CheckerAt(n, s) ==
    /\ n = Len(derived) /\ n \in Nat /\ n < Len(proof) /\ s = proof[n + 1]
    /\ Justified(f, g, proof, n, s)
    /\ g.universals = checked.universals
    /\ \A i \in 1..n : /\ derived[i] = proof[i].clause
                       /\ AgreeOn(g, checked, proof[i].clause)
                       /\ V!HasPremise(i - 1) /\ V!Premise(i - 1) = proof[i].clause

\* The next step of the file is one of those the prover has justified.
LEMMA CheckerArrives ==
    ASSUME ForkresInv, ProofInv, CheckerInv, Len(derived) < Len(proof)
    PROVE  CheckerAt(Len(derived), proof[Len(derived) + 1])
<1> DEFINE n == Len(derived)
<1>1. n \in Nat /\ Len(proof) \in Nat
  BY LenProperties DEF CheckerInv, ForkresInv, ClauseInv
<1>2. n + 1 \in 1..Len(proof) /\ (n + 1) - 1 = n
  BY <1>1
<1>3. Justified(f, g, proof, n, proof[n + 1])
  BY <1>2 DEF ProofInv, ProofOK
<1>4. \A i \in 1..n : V!HasPremise(i - 1) /\ V!Premise(i - 1) = derived[i]
  BY <1>1 DEF V!HasPremise, V!Premise
<1>5. QED
  BY <1>1, <1>3, <1>4, CheckerAgrees DEF CheckerAt

\* Resolutions and reductions are accepted.
LEMMA ResAccepted ==
    ASSUME None \notin SUBSET Int, NEW n, NEW s, CheckerAt(n, s), ResStep(g, proof, n, s)
    PROVE  V!ResOK(s)
<1>1. PICK i \in 1..n, j \in 1..n :
         /\ s.premises = <<i - 1, j - 1>> /\ s.pivot \in Nat
         /\ Resolves(proof[i].clause, proof[j].clause, s.pivot)
         /\ V!IsUReduction(g, Resolvent(proof[i].clause, proof[j].clause, s.pivot), s.clause)
  BY DEF ResStep
<1> DEFINE c == proof[i].clause
           d == proof[j].clause
           r == Resolvent(c, d, s.pivot)
<1>2. AgreeOn(g, checked, c) /\ AgreeOn(g, checked, d) /\ g.universals = checked.universals
  BY DEF CheckerAt
<1>3. r \subseteq c \cup d
  BY DEF Resolvent
<1>4. V!IsUReduction(g, r, s.clause) /\ Resolves(c, d, s.pivot)
  BY <1>1
<1>5. /\ V!HasPremise(i - 1) /\ V!Premise(i - 1) = c
      /\ V!HasPremise(j - 1) /\ V!Premise(j - 1) = d
  BY DEF CheckerAt
<1> HIDE DEF c, d
<1>6. AgreeOn(g, checked, r)
  <2> HIDE DEF r
  <2>1. QED
    BY <1>2, <1>3 DEF AgreeOn
<1> HIDE DEF r
<1>7. V!IsUReduction(checked, r, s.clause)
  BY <1>2, <1>4, <1>6, AgreeOnReduction
<1>8. s.premises[1] = i - 1 /\ s.premises[2] = j - 1 /\ Len(s.premises) = 2
  BY <1>1
<1>9. s.pivot # None /\ V!Var(s.pivot) = s.pivot
  BY <1>1, NoneAssumption DEF V!Var
<1>10. V!Resolves(c, d, s.pivot) /\ V!Resolvent(c, d, s.pivot) = r
  BY <1>4, CheckerCalculus DEF r
<1>11. s.rule = "res"
  BY DEF ResStep
<1>12. QED
  BY <1>5, <1>7, <1>8, <1>9, <1>10, <1>11 DEF V!ResOK

\* A universal reduction.
LEMMA UredAccepted ==
    ASSUME NEW n, NEW s, CheckerAt(n, s), UredStep(g, proof, n, s)
    PROVE  V!UredOK(s)
<1>1. PICK i \in 1..n :
         s.premises = <<i - 1>> /\ V!IsUReduction(g, proof[i].clause, s.clause)
  BY DEF UredStep
<1>2. /\ AgreeOn(g, checked, proof[i].clause) /\ g.universals = checked.universals
      /\ V!HasPremise(i - 1) /\ V!Premise(i - 1) = proof[i].clause
  BY DEF CheckerAt
<1>3. V!IsUReduction(checked, proof[i].clause, s.clause)
  BY <1>1, <1>2, AgreeOnReduction
<1>4. s.premises[1] = i - 1 /\ Len(s.premises) = 1 /\ s.rule = "ured"
  BY <1>1 DEF UredStep
<1>5. QED
  BY <1>2, <1>3, <1>4 DEF V!UredOK

\* So is the shape of a fork, with the dependencies the prover gave its variable.
LEMMA ForkShapeAccepted ==
    ASSUME None \notin SUBSET Int, ForkresInv, CheckerInv, NEW n, NEW s, CheckerAt(n, s),
           ForkedStep(f, g, proof, n, s)
    PROVE  V!ForkShapeOK(s) /\ V!ForkDeps(s) = g.dependencies[s.fresh]
<1>1. PICK i \in 1..n : s.premises = <<i - 1>> /\ ForksClause(g, proof[i].clause, s)
  BY DEF ForkedStep
<1> DEFINE c == proof[i].clause
           d == c \ s.part
<1>2. /\ AgreeOn(g, checked, c) /\ g.universals = checked.universals
      /\ V!HasPremise(i - 1) /\ V!Premise(i - 1) = c
  BY DEF CheckerAt
<1>3. s.premises[1] = i - 1 /\ Len(s.premises) = 1
  BY <1>1
<1>4. /\ s.rule \in {"fex", "sfex"} /\ (s.rule = "fex" => s.c3 = {})
      /\ s.fresh # None /\ s.part # None /\ s.c3 \subseteq f.universals
  BY NoneAssumption DEF ForkedStep, IsFork
<1>5. /\ s.part \subseteq c
      /\ s.clause \in {s.c3 \cup s.part \cup {s.fresh}, s.c3 \cup d \cup {-s.fresh}}
      /\ g.dependencies[s.fresh] =
            (ClauseDep(g, s.part) \cap ClauseDep(g, d)) \ {Var(l) : l \in s.c3}
  BY <1>1 DEF ForksClause
<1> HIDE DEF c
<1>6. \A l \in s.c3 : V!IsUniversal(checked, V!Var(l))
  <2>1. \A l \in s.c3 : l \in Nat /\ l \in checked.universals
    BY <1>2, <1>4 DEF ForkresInv, PrefixInv, IsFormula, PrefixOK
  <2>2. QED
    BY <2>1 DEF V!IsUniversal, V!Var
<1>7. s.clause \in {V!Left(s), V!Right(s)}
  BY <1>2, <1>3, <1>5 DEF V!Left, V!Right
<1>8. V!ForkShapeOK(s)
  BY <1>2, <1>3, <1>4, <1>5, <1>6, <1>7 DEF V!ForkShapeOK
<1>9. V!ForkDeps(s) = g.dependencies[s.fresh]
  <2>1. s.part \in SUBSET c /\ d \in SUBSET c
    BY <1>5
  <2> HIDE DEF d
  <2>2. ClauseDep(g, s.part) = ClauseDep(checked, s.part) /\ ClauseDep(g, d) = ClauseDep(checked, d)
    BY <1>2, <2>1, AgreeOnDeps
  <2>3. V!ClauseDep(checked, s.part) = ClauseDep(g, s.part) /\ V!ClauseDep(checked, d) = ClauseDep(g, d)
    BY <2>2, CheckerCalculus
  <2>4. (IF s.rule = "sfex" THEN {V!Var(l) : l \in s.c3} ELSE {}) = {Var(l) : l \in s.c3}
    BY <1>4, CheckerCalculus
  <2>5. V!Premise(s.premises[1]) \ s.part = d
    BY <1>2, <1>3 DEF d
  <2>6. QED
    BY <1>5, <2>3, <2>4, <2>5 DEF V!ForkDeps
<1>10. QED
  BY <1>8, <1>9

\* A fork whose variable is known repeats the fork that made the variable ...
LEMMA ForkAgainAccepted ==
    ASSUME None \notin SUBSET Int, ForkresInv, ProofInv, CheckerInv,
           NEW n, NEW s, CheckerAt(n, s), ForkedStep(f, g, proof, n, s), s.fresh \in DOMAIN forks
    PROVE  V!ForkAgainOK(s)
<1>1. PICK i \in 1..n : IsFork(proof[i]) /\ proof[i].fresh = s.fresh
  BY DEF CheckerInv, CheckerAt, ForkVarsOf
<1>2. /\ forks[s.fresh] = V!Signature(proof[i])
  BY <1>1 DEF CheckerInv, CheckerAt
<1>3. i \in 1..Len(proof) /\ n + 1 \in 1..Len(proof)
  <2>1. Len(proof) \in Nat
    BY LenProperties DEF ForkresInv, ClauseInv
  <2>2. QED
    BY <2>1 DEF CheckerAt
<1>4. SameFork(proof[i], s)
  BY <1>3 DEF ProofInv, ProofOK, CheckerAt
<1>5. V!Signature(proof[i]) = V!Signature(s)
  BY <1>1, <1>4 DEF SameFork, ForkedStep, V!Signature
<1>6. QED
  BY <1>2, <1>5, ForkShapeAccepted DEF V!ForkAgainOK

\* ... and one whose variable is not known makes a new one.
LEMMA ForkNewAccepted ==
    ASSUME None \notin SUBSET Int, ForkresInv, CheckerInv,
           NEW n, NEW s, CheckerAt(n, s), ForkedStep(f, g, proof, n, s), s.fresh \notin DOMAIN forks
    PROVE  V!ForkNewOK(s)
<1>1. s.fresh \in Int /\ s.fresh > f.n_vars /\ Counted(f)
  BY ProblemFacts DEF ForkedStep, ForkresInv, PrefixInv
<1>2. s.fresh \notin f.universals \cup DOMAIN f.dependencies
  BY <1>1 DEF Counted
<1>3. V!IsFresh(s.fresh)
  BY <1>1, <1>2 DEF V!IsFresh, V!IsExistential, V!IsUniversal, CheckerInv
<1>4. QED
  BY <1>3, ForkShapeAccepted DEF V!ForkNewOK

\* So no step is rejected.
LEMMA StepAccepted ==
    ASSUME None \notin SUBSET Int, ForkresInv, ProofInv, CheckerInv,
           NEW n, NEW s, CheckerAt(n, s)
    PROVE  V!StepOK(s)
<1>1. ByRule(f, g, proof, n, s)
  BY DEF CheckerAt, Justified
<1>2. CASE AxiomStep(f, s)
  <2>1. V!AxiomOK(s)
    BY <1>2 DEF V!AxiomOK, AxiomStep, CheckerInv
  <2>2. QED
    BY <2>1 DEF V!StepOK
<1>3. CASE ResStep(g, proof, n, s)
  BY <1>3, ResAccepted DEF V!StepOK
<1>4. CASE UredStep(g, proof, n, s)
  BY <1>4, UredAccepted DEF V!StepOK
<1>5. CASE ForkedStep(f, g, proof, n, s)
  BY <1>5, ForkAgainAccepted, ForkNewAccepted DEF V!StepOK
<1>6. QED
  BY <1>1, <1>2, <1>3, <1>4, <1>5 DEF ByRule

\* Steps that do not touch what the invariant of the prover is about keep it.
LEMMA SearchStands ==
    ASSUME ForkresInv, ProofInv, UNCHANGED searchVars
    PROVE  ForkresInv' /\ ProofInv' /\ f' = f
<1>1. [Next]_searchVars
  OBVIOUS
<1>2. ForkresInv'
  BY <1>1, NextInv
<1>3. QED
  BY <1>2 DEF searchVars, f, ProofInv

\* What a checker does with a step it accepts.
Accepts(s) ==
    /\ derived' = Append(derived, s.clause) /\ verdict' = verdict
    /\ DOMAIN forks' = DOMAIN forks \cup {x \in {s.fresh} : IsFork(s)}
    /\ \A x \in DOMAIN forks : forks'[x] = forks[x]
    /\ IsFork(s) => forks'[s.fresh] = V!Signature(s)
    /\ checked'.universals = checked.universals /\ checked'.clauses = checked.clauses
    /\ DOMAIN checked'.dependencies = DOMAIN checked.dependencies \cup DOMAIN forks'
    /\ \A y \in DOMAIN checked'.dependencies :
          y \in DOMAIN g.dependencies /\ checked'.dependencies[y] = g.dependencies[y]

\* Taking such a step keeps the invariant of the checker.
LEMMA AcceptedStep ==
    ASSUME ForkresInv, CheckerInv, result = "UNSAT", UNCHANGED searchVars,
           NEW n, NEW s, CheckerAt(n, s), Accepts(s)
    PROVE  CheckerInv'
<1>1. /\ n = Len(derived) /\ n \in Nat /\ n < Len(proof) /\ s = proof[n + 1]
      /\ proof \in Seq(ProofSteps) /\ Len(proof) \in Nat
  BY LenProperties DEF CheckerAt, ForkresInv, ClauseInv
<1>2. f' = f /\ proof' = proof /\ g' = g /\ result' = "UNSAT"
  BY DEF searchVars, f
<1>3. n + 1 \in 1..Len(proof)
  BY <1>1
<1>4. s \in ProofSteps /\ s.clause \in SUBSET Int
  <2>1. proof[n + 1] \in ProofSteps
    BY <1>1, <1>3, ElementOfSeq
  <2>2. s \in ProofSteps
    BY <1>1, <2>1
  <2>3. QED
    BY <2>2 DEF ProofSteps
<1>5. /\ derived' \in Seq(SUBSET Int) /\ Len(derived') = n + 1
      /\ \A i \in 1..n : derived'[i] = derived[i]
      /\ derived'[n + 1] = s.clause
  BY <1>1, <1>4, AppendProperties DEF Accepts, CheckerInv
<1>6. 1..n + 1 = 1..n \cup {n + 1} /\ n + 1 \in Nat /\ n + 1 <= Len(proof)
  BY <1>1
<1> DEFINE m == n + 1
<1> HIDE DEF m
<1>7. /\ Len(derived') = m /\ m <= Len(proof) /\ 1..m = 1..n \cup {m}
      /\ proof[m] = s /\ derived'[m] = s.clause
  BY <1>1, <1>5, <1>6 DEF m
<1>8. \A i \in 1..m : derived'[i] = proof[i].clause
  BY <1>1, <1>5, <1>7 DEF CheckerInv
<1>9. ForkVarsOf(proof, m) = ForkVarsOf(proof, n) \cup {x \in {s.fresh} : IsFork(s)}
  BY <1>7 DEF ForkVarsOf
<1>10. DOMAIN forks' = ForkVarsOf(proof, m)
  BY <1>1, <1>9 DEF Accepts, CheckerInv
<1>11. ASSUME NEW i \in 1..m, IsFork(proof[i])
       PROVE  forks'[proof[i].fresh] = V!Signature(proof[i])
  <2>1. CASE i = m
    BY <1>7, <1>11, <2>1 DEF Accepts
  <2>2. CASE i \in 1..n
    <3>1. forks[proof[i].fresh] = V!Signature(proof[i]) /\ proof[i].fresh \in DOMAIN forks
      BY <1>1, <1>11, <2>2 DEF CheckerInv, ForkVarsOf
    <3>2. QED
      BY <3>1 DEF Accepts
  <2>3. QED
    BY <1>7, <2>1, <2>2
<1>12. DOMAIN checked'.dependencies = DOMAIN f.dependencies \cup DOMAIN forks'
  BY DEF Accepts, CheckerInv
<1>13. QED
  BY <1>2, <1>5, <1>7, <1>8, <1>10, <1>11, <1>12 DEF CheckerInv, Accepts

\* Every step of the checker is one that accepts.
LEMMA CheckStepInv ==
    ASSUME None \notin SUBSET Int, ForkresInv, ProofInv, CheckerInv,
           result = "UNSAT", UNCHANGED searchVars, Len(derived) < Len(proof),
           V!CheckStep(proof[Len(derived) + 1])
    PROVE  CheckerInv'
<1> DEFINE n == Len(derived)
           s == proof[n + 1]
<1>1. CheckerAt(n, s)
  BY CheckerArrives
<1>2. V!StepOK(s) /\ ByRule(f, g, proof, n, s) /\ V!CheckStep(s)
  BY <1>1, StepAccepted DEF CheckerAt, Justified
<1> SUFFICES Accepts(s)
  BY <1>1, AcceptedStep
<1> HIDE DEF n, s
<1>3. /\ DOMAIN checked.dependencies = DOMAIN checked.dependencies \cup DOMAIN forks
      /\ \A y \in DOMAIN checked.dependencies :
            y \in DOMAIN g.dependencies /\ checked.dependencies[y] = g.dependencies[y]
  BY DEF CheckerInv
<1>4. ASSUME ~ IsFork(s), UNCHANGED <<forks, checked>>, V!Derive(s)
      PROVE  Accepts(s)
  BY <1>3, <1>4 DEF Accepts, V!Derive
<1>5. CASE V!CheckAxiom(s)
  <2>1. ~ IsFork(s) /\ UNCHANGED <<forks, checked>> /\ V!Derive(s)
    BY <1>5 DEF V!CheckAxiom, V!AxiomOK, IsFork
  <2>2. QED
    BY <1>4, <2>1
<1>6. CASE V!CheckRes(s)
  <2>1. ~ IsFork(s) /\ UNCHANGED <<forks, checked>> /\ V!Derive(s)
    BY <1>6 DEF V!CheckRes, V!ResOK, IsFork
  <2>2. QED
    BY <1>4, <2>1
<1>7. CASE V!CheckUred(s)
  <2>1. ~ IsFork(s) /\ UNCHANGED <<forks, checked>> /\ V!Derive(s)
    BY <1>7 DEF V!CheckUred, V!UredOK, IsFork
  <2>2. QED
    BY <1>4, <2>1
<1>8. CASE V!CheckForkAgain(s)
  <2>1. s.fresh \in DOMAIN forks /\ forks[s.fresh] = V!Signature(s) /\ UNCHANGED <<forks, checked>>
        /\ V!Derive(s)
    BY <1>8 DEF V!CheckForkAgain, V!ForkAgainOK
  <2>2. QED
    BY <1>3, <2>1 DEF Accepts, V!Derive
<1>9. CASE V!CheckForkNew(s)
  <2>1. /\ checked' = V!AddExistential(checked, s.fresh, V!ForkDeps(s))
        /\ forks' = [x \in DOMAIN forks \cup {s.fresh} |->
                        IF x = s.fresh THEN V!Signature(s) ELSE forks[x]]
        /\ V!Derive(s) /\ IsFork(s) /\ s.fresh \notin DOMAIN forks
    BY <1>9 DEF V!CheckForkNew, V!ForkNewOK, V!ForkShapeOK, IsFork
  <2>2. ForkedStep(f, g, proof, n, s)
    BY <1>2, <2>1 DEF ByRule, AxiomStep, ResStep, UredStep, IsFork
  <2>3. V!ForkDeps(s) = g.dependencies[s.fresh] /\ s.fresh \in DOMAIN g.dependencies
    BY <1>1, <2>2, ForkShapeAccepted DEF ForkedStep
  <2>4. /\ checked'.universals = checked.universals /\ checked'.clauses = checked.clauses
        /\ checked'.dependencies =
              [z \in DOMAIN checked.dependencies \cup {s.fresh} |->
                  IF z = s.fresh THEN g.dependencies[s.fresh] ELSE checked.dependencies[z]]
    BY <2>1, <2>3 DEF V!AddExistential
  <2>5. /\ DOMAIN checked'.dependencies = DOMAIN checked.dependencies \cup DOMAIN forks'
        /\ \A y \in DOMAIN checked'.dependencies :
              y \in DOMAIN g.dependencies /\ checked'.dependencies[y] = g.dependencies[y]
    BY <1>3, <2>1, <2>3, <2>4
  <2>6. /\ DOMAIN forks' = DOMAIN forks \cup {x \in {s.fresh} : IsFork(s)}
        /\ \A x \in DOMAIN forks : forks'[x] = forks[x]
        /\ forks'[s.fresh] = V!Signature(s)
    BY <2>1
  <2>7. QED
    BY <2>1, <2>4, <2>5, <2>6 DEF Accepts, V!Derive
<1>10. QED
  BY <1>2, <1>5, <1>6, <1>7, <1>8, <1>9 DEF V!CheckStep, V!RejectStep

\* At the end of the file the empty clause is among what has been derived.
LEMMA EndOfProofInv ==
    ASSUME ForkresInv, CheckerInv, result = "UNSAT", UNCHANGED searchVars,
           ~ Len(derived) < Len(proof), V!EndOfProof
    PROVE  CheckerInv'
<1>1. /\ UNCHANGED <<checked, derived, forks>>
      /\ verdict' = IF \E i \in 1..Len(derived) : derived[i] = {} THEN "valid" ELSE "invalid"
  BY DEF V!EndOfProof
<1>2. proof \in Seq(ProofSteps) /\ Len(proof) \in Nat /\ DOMAIN proof = 1..Len(proof)
  BY LenProperties DEF ForkresInv, ClauseInv
<1>3. Len(derived) \in Nat /\ Len(derived) <= Len(proof)
  BY LenProperties DEF CheckerInv
<1>4. Len(derived) = Len(proof)
  BY <1>2, <1>3
<1>5. PICK i \in 1..Len(derived) : proof[i].clause = {}
  BY <1>2, <1>4, Answered DEF HasIdx
<1>6. derived[i] = {}
  BY <1>5 DEF CheckerInv
<1>7. verdict' = "valid"
  BY <1>1, <1>6
<1>8. f' = f /\ g' = g /\ proof' = proof /\ result' = result
  BY DEF searchVars, f
<1>9. QED
  BY <1>1, <1>7, <1>8 DEF CheckerInv

\* The invariant of the two together.
PipelineInv == ForkresInv /\ ProofInv /\ CheckerInv

\* Prover and checker at their start.
LEMMA InitPipelineInv ==
    ASSUME InitPipeline
    PROVE  PipelineInv
<1>1. ForkresInv /\ ProofInv
  BY InitInv, InitProofInv DEF InitPipeline
<1>2. derived = << >> /\ forks = << >> /\ checked = f /\ verdict = "reading"
  BY DEF InitPipeline, V!Init
<1>3. CheckerInv
  BY <1>1, <1>2, CheckerAtStart DEF NotStarted, ProofInv, ForkresInv, ClauseInv
<1>4. QED
  BY <1>1, <1>3 DEF PipelineInv

\* Every step of the two keeps the invariant.
LEMMA PipelineStepInv ==
    ASSUME None \notin SUBSET Int, PipelineInv, [PipelineNext]_vars
    PROVE  PipelineInv'
<1>1. ForkresInv /\ ProofInv /\ CheckerInv
  BY DEF PipelineInv
<1>2. CASE Solve \/ Deadline
  <2>1. Next /\ UNCHANGED checkVars
    BY <1>2 DEF Solve, Deadline, Next
  <2>2. ForkresInv' /\ ProofInv'
    BY <1>1, <2>1, NextInv, SolverKeepsProof
  <2>3. result # "UNSAT"
    BY <1>1, <2>1, Answered
  <2>4. f' = f
    BY <2>1 DEF f, Next, SolveStep, LoadClause, Loaded, Saturate, DeriveEmpty, LeaveSaturate,
       OutOfBudget, Fork, NothingToFork, DeadlinePasses
  <2>5. /\ derived' = << >> /\ forks' = << >> /\ checked' = f'
        /\ verdict' \in {"reading", "valid"}
    BY <1>1, <2>1, <2>3, <2>4 DEF checkVars, CheckerInv
  <2>6. Grown(f, g)' /\ proof' \in Seq(ProofSteps)
    BY <2>2 DEF ProofInv, ForkresInv, ClauseInv
  <2>7. NotStarted'
    BY <2>5, <2>6 DEF NotStarted
  <2>8. CheckerInv'
    BY <2>7, CheckerAtStart, PTL
  <2>9. QED
    BY <2>2, <2>8 DEF PipelineInv
<1>3. CASE Verify
  <2>1. result = "UNSAT" /\ UNCHANGED searchVars
    BY <1>3 DEF Verify, FileSaved
  <2>2. CheckerInv'
    <3>1. CASE Len(derived) < Len(proof)
      BY <1>1, <1>3, <2>1, <3>1, CheckStepInv DEF Verify
    <3>2. CASE ~ Len(derived) < Len(proof)
      BY <1>1, <1>3, <2>1, <3>2, EndOfProofInv DEF Verify
    <3>3. QED
      BY <3>1, <3>2
  <2>3. QED
    BY <1>1, <2>1, <2>2, SearchStands DEF PipelineInv
<1>4. CASE UNCHANGED vars
  <2>1. ForkresInv' /\ ProofInv' /\ f' = f
    BY <1>1, <1>4, SearchStands DEF vars
  <2>2. CheckerInv'
    BY <1>1, <1>4, <2>1 DEF vars, searchVars, checkVars, CheckerInv
  <2>3. QED
    BY <2>1, <2>2 DEF PipelineInv
<1>5. QED
  BY <1>2, <1>3, <1>4 DEF PipelineNext

\* The checker accepts every step of every proof that the prover saves, and finds the
\* empty clause at the end: the two agree for every formula and every SearchConfig.
\* Python's None is not a set of literals, which is all that is asked of it.
THEOREM ProofsAccepted ==
    ASSUME None \notin SUBSET Int
    PROVE  PipelineSpec => []NeverRejected
<1>1. InitPipeline => PipelineInv
  BY InitPipelineInv
<1>2. PipelineInv /\ [PipelineNext]_vars => PipelineInv'
  BY PipelineStepInv
<1>3. PipelineInv => NeverRejected
  BY DEF PipelineInv, CheckerInv, NeverRejected
<1>4. QED
  BY <1>1, <1>2, <1>3, PTL DEF PipelineSpec
=============================================================================
