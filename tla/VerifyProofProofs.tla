-------------------------- MODULE VerifyProofProofs -------------------------
(***************************************************************************)
(* The checker of refutations is sound: for every formula, every proof     *)
(* file and every bound, a proof it calls valid refutes a false formula.   *)
(***************************************************************************)
EXTENDS VerifyProof, DqbfProofs

\* The dependencies a fork computes are a set of integers.
LEMMA ClauseDepType ==
    ASSUME NEW h, PrefixOK(h), NEW c \in SUBSET Int
    PROVE  ClauseDep(h, c) \subseteq Int
<1>1. ASSUME NEW l \in c
      PROVE  Dep(h, Var(l)) \subseteq Int
  BY VarFacts DEF Dep, IsExistential, PrefixOK
<1>2. QED
  BY <1>1 DEF ClauseDep

\* Adding a fresh variable keeps the prefix a prefix.
LEMMA AddKeepsPrefix ==
    ASSUME NEW h, PrefixOK(h), NEW x \in Int, x > 0,
           ~ IsUniversal(h, x), NEW D \in SUBSET Int
    PROVE  PrefixOK(AddExistential(h, x, D))
<1> DEFINE e == AddExistential(h, x, D)
<1>1. /\ e.n_vars \in Nat
      /\ e.universals = h.universals
      /\ e.dependencies = [z \in DOMAIN h.dependencies \cup {x} |->
                              IF z = x THEN D ELSE h.dependencies[z]]
  BY DEF AddExistential, PrefixOK
<1>2. DOMAIN e.dependencies = DOMAIN h.dependencies \cup {x}
  BY <1>1
<1>3. e.dependencies \in [DOMAIN e.dependencies -> SUBSET Int]
  BY <1>1, <1>2 DEF PrefixOK
<1>4. QED
  BY <1>1, <1>2, <1>3 DEF PrefixOK, IsUniversal

\* Facts about a step that every action needs.
LEMMA StepType ==
    ASSUME NEW s \in Steps
    PROVE  /\ s.clause \in SUBSET Int
           /\ s.premises \in Seq(Int)
           /\ s.pivot # None => s.pivot \in Int
           /\ s.part # None => s.part \in SUBSET Int
           /\ s.c3 \in SUBSET Int
           /\ s.fresh # None => s.fresh \in Int
BY StepsAssumption

\* A premise that exists is a clause.
LEMMA PremiseType ==
    ASSUME TypeOK, NEW i \in Int, HasPremise(i)
    PROVE  /\ i + 1 \in 1..Len(derived)
           /\ Premise(i) \in SUBSET Int
BY DEF TypeOK, HasPremise, Premise

\* The new variable of a new fork and the dependencies it gets.
LEMMA NewForkType ==
    ASSUME TypeOK, NEW s \in Steps, ForkNewOK(s)
    PROVE  /\ s.premises[1] \in Int /\ HasPremise(s.premises[1])
           /\ Premise(s.premises[1]) \in SUBSET Int
           /\ s.part \in SUBSET Premise(s.premises[1])
           /\ s.fresh \in Int /\ s.fresh > 0
           /\ ~ IsUniversal(g, s.fresh) /\ ~ IsExistential(g, s.fresh)
           /\ ForkDeps(s) \in SUBSET Int
<1>1. s.premises[1] \in Int /\ HasPremise(s.premises[1])
  BY StepType DEF ForkNewOK, ForkShapeOK
<1>2. Premise(s.premises[1]) \in SUBSET Int /\ s.part \in SUBSET Premise(s.premises[1])
  BY <1>1, PremiseType DEF ForkNewOK, ForkShapeOK
<1>3. s.fresh \in Int /\ s.fresh > f.n_vars /\ f.n_vars \in Nat
  BY StepType, FormulasAssumption DEF ForkNewOK, ForkShapeOK, IsFresh, TypeOK, PrefixOK
<1>4. s.fresh > 0
  BY <1>3
<1>5. ClauseDep(g, s.part) \subseteq Int
  BY <1>2, ClauseDepType DEF TypeOK
<1>6. QED
  BY <1>1, <1>2, <1>3, <1>4, <1>5 DEF ForkNewOK, IsFresh, ForkDeps

-----------------------------------------------------------------------------
\* Before the first step nothing is derived.
LEMMA InitType == Init => TypeOK
<1> SUFFICES ASSUME Init PROVE TypeOK
  OBVIOUS
<1>1. PrefixOK(f) /\ g = f /\ derived = << >> /\ forks = << >>
  BY FormulasAssumption DEF Init
<1>2. DOMAIN forks = {}
  BY <1>1
<1>3. QED
  BY <1>1, <1>2 DEF Init, TypeOK

\* The premises of the forks made so far stay where they are.
LEMMA DeriveType ==
    ASSUME TypeOK, NEW s \in Steps, Derive(s)
    PROVE  /\ derived' \in Seq(SUBSET Int)
           /\ Len(derived') = Len(derived) + 1
           /\ \A i \in Int : HasPremise(i) => HasPremise(i)' /\ Premise(i)' = Premise(i)
           /\ \A i \in 1..Len(derived') :
                 IF i = Len(derived') THEN derived'[i] = s.clause ELSE derived'[i] = derived[i]
           /\ f' = f /\ verdict' = verdict
<1>1. derived \in Seq(SUBSET Int) /\ s.clause \in SUBSET Int
         /\ derived' = Append(derived, s.clause)
  BY StepType DEF Derive, TypeOK
<1>2. \A i \in 1..Len(derived) : derived'[i] = derived[i]
  BY <1>1
<1>3. ASSUME NEW i \in Int, HasPremise(i)
      PROVE  HasPremise(i)' /\ Premise(i)' = Premise(i)
  <2>1. i + 1 \in 1..Len(derived) /\ Len(derived') = Len(derived) + 1
    BY <1>1, <1>3 DEF HasPremise
  <2>2. QED
    BY <2>1, <1>2, <1>3 DEF HasPremise, Premise
<1>4. QED
  BY <1>1, <1>2, <1>3 DEF Derive

\* Every step keeps the shape of the state.
LEMMA NextType == TypeOK /\ [Next]_vars => TypeOK'
<1> SUFFICES ASSUME TypeOK, [Next]_vars PROVE TypeOK'
  OBVIOUS
<1>1. ASSUME NEW s \in Steps, Derive(s), UNCHANGED <<g, forks>>
      PROVE  TypeOK'
  <2>1. ASSUME NEW x \in DOMAIN forks
        PROVE  HasPremise(forks[x].premise)'
    <3>1. PICK i \in Int : i = forks[x].premise /\ HasPremise(i)
      BY DEF TypeOK
    <3>2. HasPremise(i)'
      BY <3>1, <1>1, DeriveType
    <3>3. QED
      BY <3>1, <3>2, <1>1 DEF HasPremise
  <2>2. QED
    BY <1>1, <2>1, DeriveType DEF TypeOK
<1>2. ASSUME NEW s \in Steps, CheckForkNew(s)
      PROVE  TypeOK'
  <2>1. /\ ForkNewOK(s) /\ Derive(s)
        /\ g' = AddExistential(g, s.fresh, ForkDeps(s))
        /\ forks' = [x \in DOMAIN forks \cup {s.fresh} |->
                        IF x = s.fresh THEN Signature(s) ELSE forks[x]]
    BY <1>2 DEF CheckForkNew
  <2>2. PrefixOK(g')
    BY <2>1, NewForkType, AddKeepsPrefix DEF TypeOK
  <2>3. g'.universals = g.universals /\ g'.clauses = g.clauses
           /\ DOMAIN g'.dependencies = DOMAIN g.dependencies \cup {s.fresh}
    BY <2>1 DEF AddExistential
  <2>4. DOMAIN forks' \subseteq DOMAIN g'.dependencies
    BY <2>1, <2>3 DEF TypeOK
  <2>5. ASSUME NEW x \in DOMAIN forks'
        PROVE  /\ forks'[x].premise \in Int /\ HasPremise(forks[x].premise)'
               /\ forks'[x].part \subseteq Int /\ forks'[x].c3 \subseteq Int
    <3>1. CASE x = s.fresh
      <4>1. forks'[x] = Signature(s)
        BY <3>1, <2>1
      <4>2. PICK i \in Int : i = s.premises[1] /\ HasPremise(i)
        BY <2>1, NewForkType
      <4>3. forks'[x].premise = i /\ forks'[x].part = s.part /\ forks'[x].c3 = s.c3
        BY <4>1, <4>2 DEF Signature
      <4>4. HasPremise(i)'
        BY <4>2, <2>1, DeriveType
      <4>5. s.part \subseteq Int /\ s.c3 \subseteq Int
        BY <2>1, NewForkType, StepType
      <4>6. QED
        BY <4>3, <4>4, <4>5 DEF HasPremise
    <3>2. CASE x # s.fresh
      <4>1. x \in DOMAIN forks /\ forks'[x] = forks[x]
        BY <3>2, <2>1
      <4>2. PICK i \in Int : i = forks[x].premise /\ HasPremise(i)
        BY <4>1 DEF TypeOK
      <4>3. HasPremise(i)'
        BY <4>2, <2>1, DeriveType
      <4>4. HasPremise(forks[x].premise)'
        BY <4>1, <4>2, <4>3 DEF HasPremise
      <4>5. QED
        BY <4>1, <4>4 DEF TypeOK
    <3>3. QED
      BY <3>1, <3>2
  <2>6. QED
    BY <2>1, <2>2, <2>3, <2>4, <2>5, DeriveType DEF TypeOK
<1>3. ASSUME NEW s \in Steps, RejectStep(s)
      PROVE  TypeOK'
  BY <1>3 DEF RejectStep, TypeOK, HasPremise, Premise
<1>4. CASE EndOfProof
  BY <1>4 DEF EndOfProof, TypeOK, HasPremise, Premise
<1>5. CASE UNCHANGED vars
  BY <1>5 DEF vars, TypeOK, HasPremise, Premise
<1>6. QED
  BY <1>1, <1>2, <1>3, <1>4, <1>5
     DEF Next, CheckStep, CheckAxiom, CheckRes, CheckUred, CheckForkAgain

\* The state of the checker keeps its type; in particular every fork names a
\* derived premise and a declared variable.
THEOREM TypeCorrect == Spec => []TypeOK
<1>1. QED
  BY InitType, NextType, PTL DEF Spec
-----------------------------------------------------------------------------
(* Soundness.  The inductive invariant says what Conservative says, with    *)
(* the tables named: some Skolem tables for g make the matrix, every        *)
(* derived clause and both halves of every fork true.                       *)

DerivedSet == {derived[i] : i \in 1..Len(derived)}

Known == f.clauses \cup DerivedSet \cup ForkClauses

Satisfied(sk) == sk \in SkolemTuples(g) /\ AllTrue(g, sk, Known)

Holds == \E sk : Satisfied(sk)

\* Conservative, with the tables that satisfy everything known named.
LEMMA ConservativeIff ==
    Conservative <=> (IsTrue(f) => Holds)
<1> DEFINE w == WithClauses(g, Known)
<1>1. SkolemTuples(w) = SkolemTuples(g)
  BY DEF SkolemTuples, Tables, WithClauses
<1>2. w.clauses = Known
  BY DEF WithClauses
<1>3. \A sk : IsModel(w, sk) <=> AllTrue(g, sk, Known)
  BY <1>2, SamePrefix DEF IsModel, AllTrue
<1>4. IsTrue(w) <=> Holds
  BY <1>1, <1>3 DEF IsTrue, Holds, Satisfied
<1>5. QED
  BY <1>4 DEF Conservative, Known, DerivedSet

\* A premise is one of the clauses that are known to be true.
LEMMA PremiseTrue ==
    ASSUME TypeOK, NEW sk, Satisfied(sk), NEW i \in Int, HasPremise(i)
    PROVE  \A a \in Rows(g) : EvalClause(g, sk, a, Premise(i))
<1>1. Premise(i) \in DerivedSet
  BY PremiseType DEF Premise, DerivedSet
<1>2. QED
  BY <1>1 DEF Satisfied, AllTrue, Known

\* What the checker takes for a universal reduction follows from its premise.
LEMMA IsUReductionTrue ==
    ASSUME TypeOK, NEW sk, NEW src \in SUBSET Int, NEW dst,
           IsUReduction(g, src, dst),
           \A a \in Rows(g) : EvalClause(g, sk, a, src)
    PROVE  \A a \in Rows(g) : EvalClause(g, sk, a, dst)
BY UReductionTrue DEF TypeOK, IsUReduction

\* Each rule that introduces no variable derives a clause that is true already.
LEMMA RuleTrue ==
    ASSUME TypeOK, NEW sk, Satisfied(sk), NEW s \in Steps,
           AxiomOK(s) \/ ResOK(s) \/ UredOK(s) \/ ForkAgainOK(s)
    PROVE  \A a \in Rows(g) : EvalClause(g, sk, a, s.clause)
<1>1. CASE AxiomOK(s)
  <2>1. s.clause \in Known
    BY <1>1 DEF AxiomOK, Known, TypeOK
  <2>2. QED
    BY <2>1 DEF Satisfied, AllTrue
<1>2. CASE ResOK(s)
  <2>1. PICK i \in Int, j \in Int :
           /\ i = s.premises[1] /\ j = s.premises[2]
           /\ HasPremise(i) /\ HasPremise(j)
    BY <1>2, StepType DEF ResOK
  <2>2. s.pivot \in Int /\ Var(s.pivot) \in Int
    <3>1. s.pivot \in Int
      BY <1>2, StepType DEF ResOK
    <3>2. QED
      BY <3>1, VarFacts
  <2> DEFINE p == Var(s.pivot)
             r == Resolvent(Premise(i), Premise(j), p)
  <2>3. PivotsOn(Premise(i), Premise(j), p) /\ IsUReduction(g, r, s.clause)
    BY <1>2, <2>1 DEF ResOK, Resolves
  <2>4. Premise(i) \in SUBSET Int /\ Premise(j) \in SUBSET Int
    BY <2>1, PremiseType
  <2>5. r \in SUBSET Int
    BY <2>4 DEF Resolvent
  <2>6. ASSUME NEW a \in Rows(g)
        PROVE  EvalClause(g, sk, a, r)
    <3>1. EvalClause(g, sk, a, Premise(i)) /\ EvalClause(g, sk, a, Premise(j))
      BY <2>1, PremiseTrue
    <3>2. QED
      BY <3>1, <2>2, <2>3, <2>4, ResolventTrue DEF TypeOK
  <2>7. QED
    BY <2>3, <2>5, <2>6, IsUReductionTrue
<1>3. CASE UredOK(s)
  <2>1. PICK i \in Int : i = s.premises[1] /\ HasPremise(i)
    BY <1>3, StepType DEF UredOK
  <2>2. IsUReduction(g, Premise(i), s.clause)
    BY <1>3, <2>1 DEF UredOK
  <2>3. QED
    BY <2>1, <2>2, PremiseType, PremiseTrue, IsUReductionTrue
<1>4. CASE ForkAgainOK(s)
  <2>1. s.fresh \in DOMAIN forks /\ forks[s.fresh] = Signature(s)
           /\ s.clause \in {Left(s), Right(s)}
    BY <1>4 DEF ForkAgainOK, ForkShapeOK
  <2>2. /\ forks[s.fresh].premise = s.premises[1]
        /\ forks[s.fresh].part = s.part /\ forks[s.fresh].c3 = s.c3
    BY <2>1 DEF Signature
  <2>3. Left(s) \in ForkClauses /\ Right(s) \in ForkClauses
    BY <2>1, <2>2 DEF ForkClauses, Left, Right
  <2>4. QED
    BY <2>1, <2>3 DEF Satisfied, AllTrue, Known
<1>5. QED
  BY <1>1, <1>2, <1>3, <1>4

\* What a derivation adds to the known clauses.
LEMMA KnownGrows ==
    ASSUME TypeOK, NEW s \in Steps, Derive(s)
    PROVE  /\ DerivedSet' \subseteq DerivedSet \cup {s.clause}
           /\ \A x \in DOMAIN forks : forks[x].premise \in Int
                 => Premise(forks[x].premise) = derived'[forks[x].premise + 1]
<1>1. DerivedSet' \subseteq DerivedSet \cup {s.clause}
  <2>1. ASSUME NEW i \in 1..Len(derived')
        PROVE  derived'[i] \in DerivedSet \cup {s.clause}
    BY DeriveType DEF DerivedSet, TypeOK
  <2>2. QED
    BY <2>1 DEF DerivedSet
<1>2. ASSUME NEW x \in DOMAIN forks
      PROVE  Premise(forks[x].premise) = derived'[forks[x].premise + 1]
  <2>1. PICK i \in Int : i = forks[x].premise /\ HasPremise(i)
    BY DEF TypeOK
  <2>2. Premise(i)' = Premise(i)
    BY <2>1, DeriveType
  <2>3. QED
    BY <2>1, <2>2 DEF Premise
<1>3. QED
  BY <1>1, <1>2

\* A step that introduces no variable keeps the tables that satisfy what is known.
LEMMA PlainStep ==
    ASSUME TypeOK, NEW sk, Satisfied(sk), NEW s \in Steps, Derive(s),
           UNCHANGED <<g, forks>>,
           \A a \in Rows(g) : EvalClause(g, sk, a, s.clause)
    PROVE  Satisfied(sk)'
<1>1. ForkClauses' = ForkClauses
  <2>1. \A x \in DOMAIN forks : Premise(forks[x].premise)' = Premise(forks[x].premise)
    BY KnownGrows DEF Premise, TypeOK
  <2>2. QED
    BY <2>1 DEF ForkClauses
<1>2. Known' \subseteq Known \cup {s.clause}
  BY <1>1, KnownGrows, DeriveType DEF Known
<1>3. QED
  BY <1>2 DEF Satisfied, AllTrue

\* A new fork does so with a table for its variable.
LEMMA ForkStep ==
    ASSUME TypeOK, NEW sk, Satisfied(sk), NEW s \in Steps, CheckForkNew(s)
    PROVE  Holds'
<1> DEFINE c == Premise(s.premises[1])
           x == s.fresh
           D == ForkDeps(s)
           e == AddExistential(g, x, D)
           V == IF s.rule = "sfex" THEN {Var(l) : l \in s.c3} ELSE {}
<1>1. /\ ForkNewOK(s) /\ Derive(s) /\ g' = e
      /\ forks' = [y \in DOMAIN forks \cup {x} |->
                      IF y = x THEN Signature(s) ELSE forks[y]]
  BY DEF CheckForkNew
<1>2. /\ c \in SUBSET Int /\ s.part \in SUBSET c /\ s.c3 \in SUBSET Int
      /\ x \in Int /\ x > 0 /\ ~ IsUniversal(g, x) /\ ~ IsExistential(g, x)
      /\ D \in SUBSET Int
  BY <1>1, NewForkType, StepType
<1>3. D = (ClauseDep(g, s.part) \cap ClauseDep(g, c \ s.part)) \ V
  BY DEF ForkDeps
<1>4. Droppable(g, s.c3, V)
  BY <1>1 DEF ForkNewOK, ForkShapeOK, Droppable
<1>5. \A a \in Rows(g) : EvalClause(g, sk, a, c)
  BY <1>1, NewForkType, PremiseTrue
<1>6. PICK sx \in SkolemTuples(e) :
         \A a \in Rows(g) :
            /\ \A d : EvalClause(g, sk, a, d) => EvalClause(e, sx, a, d)
            /\ EvalClause(e, sx, a, s.c3 \cup s.part \cup {x})
            /\ EvalClause(e, sx, a, s.c3 \cup (c \ s.part) \cup {-x})
  <2>1. sk \in SkolemTuples(g) /\ PrefixOK(g)
    BY DEF Satisfied, TypeOK
  <2>2. HasExtension(g, sk, c, s.part, s.c3, x, D)
    <3> HIDE DEF V, D, c, x
    <3>1. QED
      BY <1>2, <1>3, <1>4, <1>5, <2>1, ForkTrue
  <2>3. QED
    BY <2>2 DEF HasExtension
<1>7. Rows(e) = Rows(g)
  BY DEF Rows, AddExistential
<1>8. \A a \in Rows(g) : EvalClause(e, sx, a, Left(s)) /\ EvalClause(e, sx, a, Right(s))
  BY <1>6 DEF Left, Right
<1>9. ForkClauses' \subseteq ForkClauses \cup {Left(s), Right(s)}
  <2>1. ASSUME NEW y \in DOMAIN forks'
        PROVE  /\ forks'[y].c3 \cup forks'[y].part \cup {y} \in ForkClauses \cup {Left(s), Right(s)}
               /\ forks'[y].c3 \cup (derived'[forks'[y].premise + 1] \ forks'[y].part) \cup {-y}
                     \in ForkClauses \cup {Left(s), Right(s)}
    <3>1. CASE y = x
      <4>1. forks'[y] = Signature(s)
        BY <1>1, <3>1
      <4>2. /\ forks'[y].premise = s.premises[1]
            /\ forks'[y].part = s.part /\ forks'[y].c3 = s.c3
        BY <4>1 DEF Signature
      <4>3. PICK i \in Int : i = s.premises[1] /\ HasPremise(i)
        BY <1>1, NewForkType
      <4>4. derived'[i + 1] = derived[i + 1]
        BY <4>3, <1>1, DeriveType DEF Premise
      <4>5. derived'[forks'[y].premise + 1] = c
        BY <4>2, <4>3, <4>4 DEF Premise
      <4>6. QED
        BY <4>2, <4>5, <3>1 DEF Left, Right
    <3>2. CASE y # x
      <4>1. y \in DOMAIN forks /\ forks'[y] = forks[y]
        BY <1>1, <3>2
      <4>2. derived'[forks[y].premise + 1] = Premise(forks[y].premise)
        BY <4>1, <1>1, KnownGrows DEF TypeOK
      <4>3. QED
        BY <4>1, <4>2 DEF ForkClauses
    <3>3. QED
      BY <3>1, <3>2
  <2>2. ASSUME NEW d \in ForkClauses'
        PROVE  d \in ForkClauses \cup {Left(s), Right(s)}
    <3>1. PICK y \in DOMAIN forks' :
             \/ d = forks'[y].c3 \cup forks'[y].part \cup {y}
             \/ d = forks'[y].c3 \cup (derived'[forks'[y].premise + 1] \ forks'[y].part) \cup {-y}
      BY <2>2 DEF ForkClauses, Premise
    <3>2. /\ forks'[y].c3 \cup forks'[y].part \cup {y} \in ForkClauses \cup {Left(s), Right(s)}
          /\ forks'[y].c3 \cup (derived'[forks'[y].premise + 1] \ forks'[y].part) \cup {-y}
                \in ForkClauses \cup {Left(s), Right(s)}
      BY <2>1
    <3>3. QED
      BY <3>1, <3>2, Zenon
  <2>3. QED
    BY <2>2
<1>10. Known' \subseteq Known \cup {Left(s), Right(s)}
  <2>1. s.clause \in {Left(s), Right(s)}
    BY <1>1 DEF ForkNewOK, ForkShapeOK
  <2>2. DerivedSet' \subseteq DerivedSet \cup {s.clause} /\ f' = f
    BY <1>1, KnownGrows, DeriveType
  <2>3. QED
    BY <2>1, <2>2, <1>9 DEF Known
<1>11. \A a \in Rows(e) : \A d \in Known' : EvalClause(e, sx, a, d)
  <2>1. \A a \in Rows(g) : \A d \in Known : EvalClause(e, sx, a, d)
    BY <1>6 DEF Satisfied, AllTrue
  <2>2. QED
    BY <2>1, <1>7, <1>8, <1>10
<1>12. Satisfied(sx)'
  BY <1>1, <1>11 DEF Satisfied, AllTrue
<1>13. QED
  BY <1>12 DEF Holds

-----------------------------------------------------------------------------
\* At first the formula itself is what is known.
LEMMA InitHolds == Init => (IsTrue(f) => Holds)
<1> SUFFICES ASSUME Init, IsTrue(f) PROVE Holds
  OBVIOUS
<1>1. g = f /\ derived = << >> /\ DOMAIN forks = {}
  BY DEF Init
<1>2. DerivedSet = {} /\ ForkClauses = {}
  BY <1>1 DEF DerivedSet, ForkClauses
<1>3. Known = f.clauses
  BY <1>2 DEF Known
<1>4. PICK sk \in SkolemTuples(f) : IsModel(f, sk)
  BY DEF IsTrue
<1>5. QED
  BY <1>1, <1>3, <1>4 DEF Holds, Satisfied, AllTrue, IsModel

\* If there are such tables before a step there are some after it.
LEMMA NextHolds == TypeOK /\ Holds /\ [Next]_vars => Holds'
<1> SUFFICES ASSUME TypeOK, Holds, [Next]_vars PROVE Holds'
  OBVIOUS
<1>1. PICK sk : Satisfied(sk)
  BY DEF Holds
<1>2. ASSUME NEW s \in Steps,
             CheckAxiom(s) \/ CheckRes(s) \/ CheckUred(s) \/ CheckForkAgain(s)
      PROVE  Holds'
  <2>1. Derive(s) /\ UNCHANGED <<g, forks>>
    BY <1>2 DEF CheckAxiom, CheckRes, CheckUred, CheckForkAgain
  <2>2. AxiomOK(s) \/ ResOK(s) \/ UredOK(s) \/ ForkAgainOK(s)
    BY <1>2 DEF CheckAxiom, CheckRes, CheckUred, CheckForkAgain
  <2>3. \A a \in Rows(g) : EvalClause(g, sk, a, s.clause)
    BY <1>1, <2>2, RuleTrue
  <2>4. Satisfied(sk)'
    BY <1>1, <2>1, <2>3, PlainStep
  <2>5. QED
    BY <2>4 DEF Holds
<1>3. ASSUME NEW s \in Steps, CheckForkNew(s)
      PROVE  Holds'
  BY <1>1, <1>3, ForkStep
<1>4. ASSUME UNCHANGED <<f, g, derived, forks>>
      PROVE  Holds'
  <2>1. Satisfied(sk)'
    BY <1>1, <1>4 DEF Satisfied, Known, DerivedSet, ForkClauses, Premise
  <2>2. QED
    BY <2>1 DEF Holds
<1>5. QED
  BY <1>2, <1>3, <1>4 DEF Next, CheckStep, RejectStep, EndOfProof, vars

\* The formula is read once.
LEMMA FormulaConstant == TypeOK /\ [Next]_vars => f' = f
BY DEF Next, CheckStep, CheckAxiom, CheckRes, CheckUred, CheckForkAgain, CheckForkNew,
       RejectStep, EndOfProof, Derive, vars

\* Deriving is conservative: a true formula stays true under everything the
\* checker has accepted, whatever the proof file holds.
THEOREM DerivationConservative == Spec => []Conservative
<1>1. Init => (IsTrue(f) => Holds)
  BY InitHolds
<1>2. TypeOK /\ (IsTrue(f) => Holds) /\ [Next]_vars => (IsTrue(f) => Holds)'
  BY NextHolds, FormulaConstant
<1>3. (IsTrue(f) => Holds) => Conservative
  BY ConservativeIff
<1>4. QED
  BY <1>1, <1>2, <1>3, TypeCorrect, PTL DEF Spec

\* The empty clause has no true literal in any row, and there is a row.
LEMMA EmptyClauseFalse ==
    ASSUME Holds, \E i \in 1..Len(derived) : derived[i] = {}
    PROVE  FALSE
<1>1. PICK sk : Satisfied(sk)
  BY DEF Holds
<1>2. {} \in Known
  BY DEF Known, DerivedSet
<1>3. [u \in g.universals |-> TRUE] \in Rows(g)
  BY DEF Rows
<1>4. \A a \in Rows(g) : ~ EvalClause(g, sk, a, {})
  BY DEF EvalClause
<1>5. QED
  BY <1>1, <1>2, <1>3, <1>4 DEF Satisfied, AllTrue

ValidHasEmpty == verdict = "valid" => \E i \in 1..Len(derived) : derived[i] = {}

\* The verdict "valid" needs the empty clause, and what was derived stays.
LEMMA NextValidHasEmpty == ValidHasEmpty /\ [Next]_vars => ValidHasEmpty'
<1> SUFFICES ASSUME ValidHasEmpty, [Next]_vars PROVE ValidHasEmpty'
  OBVIOUS
<1>1. ASSUME NEW s \in Steps, CheckStep(s)
      PROVE  ValidHasEmpty'
  BY <1>1 DEF CheckStep, CheckAxiom, CheckRes, CheckUred, CheckForkAgain, CheckForkNew,
              RejectStep, Derive, Reading, ValidHasEmpty
<1>2. CASE EndOfProof
  BY <1>2 DEF EndOfProof, ValidHasEmpty
<1>3. CASE UNCHANGED vars
  BY <1>3 DEF vars, ValidHasEmpty
<1>4. QED
  BY <1>1, <1>2, <1>3 DEF Next

\* A refutation the checker calls valid refutes a false formula.
THEOREM ValidRefutes == Spec => []ValidIsUnsat
<1>1. Init => (IsTrue(f) => Holds) /\ ValidHasEmpty
  BY InitHolds DEF Init, ValidHasEmpty
<1>2. TypeOK /\ (IsTrue(f) => Holds) /\ [Next]_vars => (IsTrue(f) => Holds)'
  BY NextHolds, FormulaConstant
<1>3. (IsTrue(f) => Holds) /\ ValidHasEmpty => ValidIsUnsat
  BY EmptyClauseFalse DEF ValidHasEmpty, ValidIsUnsat
<1>4. QED
  BY <1>1, <1>2, <1>3, NextValidHasEmpty, TypeCorrect, PTL DEF Spec

\* No step of a proof file changes the dependencies of a quantified variable.
THEOREM PrefixGrows == Spec => PrefixOnlyGrows
<1> DEFINE Grows == \A y \in DOMAIN g.dependencies :
                      y \in DOMAIN g'.dependencies /\ g'.dependencies[y] = g.dependencies[y]
<1>1. TypeOK /\ [Next]_vars => [Grows]_vars
  <2> SUFFICES ASSUME TypeOK, [Next]_vars PROVE Grows \/ UNCHANGED vars
    OBVIOUS
  <2>1. ASSUME NEW s \in Steps, CheckForkNew(s)
        PROVE  Grows
    <3>1. g' = AddExistential(g, s.fresh, ForkDeps(s)) /\ ~ IsExistential(g, s.fresh)
      BY <2>1, NewForkType DEF CheckForkNew
    <3>2. g'.dependencies = [z \in DOMAIN g.dependencies \cup {s.fresh} |->
                                IF z = s.fresh THEN ForkDeps(s) ELSE g.dependencies[z]]
      BY <3>1 DEF AddExistential
    <3>3. QED
      BY <3>1, <3>2 DEF IsExistential
  <2>2. ASSUME g' = g
        PROVE  Grows
    BY <2>2
  <2>3. QED
    BY <2>1, <2>2 DEF Next, CheckStep, CheckAxiom, CheckRes, CheckUred, CheckForkAgain,
                      RejectStep, EndOfProof
<1>2. QED
  BY <1>1, TypeCorrect, PTL DEF Spec, PrefixOnlyGrows
=============================================================================
