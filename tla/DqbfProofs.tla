----------------------------- MODULE DqbfProofs -----------------------------
(***************************************************************************)
(* What one step of the calculus preserves, for every formula: lemmas over *)
(* the semantics of Dqbf, cited by the proofs about the checker and provers. *)
(***************************************************************************)
EXTENDS Dqbf, FiniteSetTheorems, TLAPS

\* In every row every clause of S is true.
AllTrue(h, sk, S) == \A a \in Rows(h) : \A c \in S : EvalClause(h, sk, a, c)

\* The absolute value of an integer, and of its negation.
LEMMA VarFacts ==
    ASSUME NEW l \in Int
    PROVE  /\ Var(l) \in Nat
           /\ Var(-l) = Var(l)
           /\ Var(l) = l \/ Var(l) = -l
           /\ l = 0 <=> Var(l) = 0
BY DEF Var

\* A literal and its negation are never both true (resolve's side condition).
LEMMA NotBothTrue ==
    ASSUME NEW h, PrefixOK(h), NEW sk, NEW a, NEW l \in Int,
           LitTrue(h, sk, a, l), LitTrue(h, sk, a, -l)
    PROVE  FALSE
<1>1. Var(l) = Var(-l) /\ Var(l) \in Nat
  BY VarFacts
<1>2. Var(l) # 0
  BY DEF LitTrue, IsUniversal, IsExistential, PrefixOK
<1>3. l # 0
  BY <1>2 DEF Var
<1>4. (l > 0) <=> ~ (-l > 0)
  BY <1>3
<1>5. ~ (IsUniversal(h, Var(l)) /\ IsExistential(h, Var(l)))
  BY DEF PrefixOK, IsUniversal, IsExistential
<1>6. CASE IsUniversal(h, Var(l))
  <2>1. a[Var(l)] <=> l > 0
    BY <1>5, <1>6 DEF LitTrue
  <2>2. a[Var(l)] <=> -l > 0
    BY <1>1, <1>5, <1>6 DEF LitTrue
  <2>3. QED
    BY <2>1, <2>2, <1>4
<1>7. CASE IsExistential(h, Var(l))
  <2>1. sk[Var(l)][Key(a, h.dependencies[Var(l)])] <=> l > 0
    BY <1>5, <1>7 DEF LitTrue
  <2>2. sk[Var(l)][Key(a, h.dependencies[Var(l)])] <=> -l > 0
    BY <1>1, <1>5, <1>7 DEF LitTrue
  <2>3. QED
    BY <2>1, <2>2, <1>4
<1>8. QED
  BY <1>6, <1>7 DEF LitTrue

\* Row by row, a resolvent is true where both premises are.
LEMMA ResolventTrue ==
    ASSUME NEW h, PrefixOK(h), NEW sk, NEW a,
           NEW c1 \in SUBSET Int, NEW c2 \in SUBSET Int, NEW p \in Int,
           PivotsOn(c1, c2, p),
           EvalClause(h, sk, a, c1), EvalClause(h, sk, a, c2)
    PROVE  EvalClause(h, sk, a, Resolvent(c1, c2, p))
<1>1. ~ (LitTrue(h, sk, a, p) /\ LitTrue(h, sk, a, -p))
  BY NotBothTrue
<1>2. PICK l1 \in c1 : LitTrue(h, sk, a, l1)
  BY DEF EvalClause
<1>3. PICK l2 \in c2 : LitTrue(h, sk, a, l2)
  BY DEF EvalClause
<1>4. CASE p \in c1 /\ -p \in c2
  <2>1. Resolvent(c1, c2, p) = (c1 \ {p}) \cup (c2 \ {-p})
    BY <1>4 DEF Resolvent
  <2>2. l1 # p \/ l2 # -p
    BY <1>1, <1>2, <1>3
  <2>3. QED
    BY <2>1, <2>2, <1>2, <1>3 DEF EvalClause
<1>5. CASE ~ (p \in c1 /\ -p \in c2)
  <2>1. Resolvent(c1, c2, p) = (c2 \ {p}) \cup (c1 \ {-p})
    BY <1>5 DEF Resolvent
  <2>2. l2 # p \/ l1 # -p
    BY <1>1, <1>2, <1>3
  <2>3. QED
    BY <2>1, <2>2, <1>2, <1>3 DEF EvalClause
<1>6. QED
  BY <1>4, <1>5

\* Two rows that agree on deps look the same table entry up.
LEMMA KeyEq ==
    ASSUME NEW h, NEW a \in Rows(h), NEW b \in Rows(h), NEW D,
           \A u \in D \cap h.universals : a[u] = b[u]
    PROVE  Key(a, D) = Key(b, D)
<1>1. DOMAIN a = h.universals /\ DOMAIN b = h.universals
  BY DEF Rows
<1>2. QED
  BY <1>1 DEF Key

\* Universal reduction is sound over all rows together: where dst fails in row a,
\* src fails in the row that falsifies the dropped literals as well.
LEMMA UReductionTrue ==
    ASSUME NEW h, PrefixOK(h), NEW sk, NEW src \in SUBSET Int, NEW dst \in SUBSET src,
           \A l \in src \ dst : /\ IsUniversal(h, Var(l))
                                /\ Var(l) \notin ExDeps(h, dst)
                                /\ -l \notin src,
           \A a \in Rows(h) : EvalClause(h, sk, a, src)
    PROVE  \A a \in Rows(h) : EvalClause(h, sk, a, dst)
<1> SUFFICES ASSUME NEW a \in Rows(h), ~ EvalClause(h, sk, a, dst)
             PROVE  FALSE
  OBVIOUS
<1> DEFINE b == [u \in h.universals |->
                    IF \E l \in src \ dst : Var(l) = u THEN ~ (u \in src \ dst) ELSE a[u]]
<1>1. b \in Rows(h)
  BY DEF Rows
<1>2. PICK l \in src : LitTrue(h, sk, b, l)
  BY <1>1 DEF EvalClause
<1>3. l \in Int /\ Var(l) \in Nat /\ (Var(l) = l \/ Var(l) = -l)
  BY VarFacts
<1>4. Var(l) # 0 /\ l # 0
  BY <1>2, <1>3 DEF LitTrue, IsUniversal, IsExistential, PrefixOK, Var
<1>5. CASE l \in src \ dst
  <2>1. IsUniversal(h, Var(l)) /\ ~ IsExistential(h, Var(l)) /\ -l \notin src
    BY <1>5 DEF PrefixOK, IsUniversal, IsExistential
  <2>2. b[Var(l)] <=> l > 0
    BY <1>2, <2>1 DEF LitTrue
  <2>3. b[Var(l)] = ~ (Var(l) \in src \ dst)
    BY <1>5, <2>1 DEF IsUniversal
  <2>4. CASE l > 0
    <3>1. Var(l) = l
      BY <2>4, <1>3 DEF Var
    <3>2. QED
      BY <3>1, <2>4, <2>2, <2>3, <1>5
  <2>5. CASE ~ (l > 0)
    <3>1. Var(l) = -l
      BY <2>5, <1>3, <1>4 DEF Var
    <3>2. QED
      BY <3>1, <2>5, <2>2, <2>3, <2>1
  <2>6. QED
    BY <2>4, <2>5
<1>6. CASE l \in dst
  <2>1. ~ LitTrue(h, sk, a, l)
    BY <1>6 DEF EvalClause
  <2>2. CASE IsUniversal(h, Var(l))
    <3>1. ASSUME NEW k \in src \ dst, Var(k) = Var(l)
          PROVE  FALSE
      <4>1. k \in Int /\ k # l /\ -k \notin src
        BY <3>1, <1>6
      <4>2. k = l \/ k = -l
        BY <3>1, <1>3, <4>1 DEF Var
      <4>3. QED
        BY <4>1, <4>2, <1>3
    <3>2. b[Var(l)] = a[Var(l)]
      BY <3>1, <2>2 DEF IsUniversal
    <3>3. ~ IsExistential(h, Var(l))
      BY <2>2 DEF PrefixOK, IsUniversal, IsExistential
    <3>4. b[Var(l)] <=> l > 0
      BY <1>2, <3>3 DEF LitTrue
    <3>5. QED
      BY <2>1, <2>2, <3>2, <3>4 DEF LitTrue
  <2>3. CASE IsExistential(h, Var(l))
    <3> DEFINE D == h.dependencies[Var(l)]
    <3>1. \A u \in D : u \in ExDeps(h, dst)
      BY <1>6, <2>3 DEF ExDeps
    <3>2. \A u \in D \cap h.universals : b[u] = a[u]
      BY <3>1
    <3>3. Key(b, D) = Key(a, D)
      BY <3>2, <1>1, KeyEq
    <3>4. ~ IsUniversal(h, Var(l))
      BY <2>3 DEF PrefixOK, IsUniversal, IsExistential
    <3>5. QED
      BY <1>2, <2>1, <2>3, <3>3, <3>4 DEF LitTrue
  <2>4. QED
    BY <2>2, <2>3, <1>2 DEF LitTrue
<1>7. QED
  BY <1>5, <1>6

\* Only the universals, the dependencies and the tables decide whether a literal
\* is true: the matrix does not.
LEMMA SamePrefix ==
    ASSUME NEW h, NEW S, NEW sk, NEW a, NEW c
    PROVE  /\ EvalClause(WithClauses(h, S), sk, a, c) <=> EvalClause(h, sk, a, c)
           /\ Rows(WithClauses(h, S)) = Rows(h)
BY DEF WithClauses, EvalClause, LitTrue, Rows, IsUniversal, IsExistential

\* A truth value depends on a row only through the dependencies of the clause.
LEMMA DepDecides ==
    ASSUME NEW h, PrefixOK(h), NEW sk, NEW c \in SUBSET Int,
           NEW a \in Rows(h), NEW b \in Rows(h),
           \A u \in ClauseDep(h, c) \cap h.universals : a[u] = b[u],
           EvalClause(h, sk, a, c)
    PROVE  EvalClause(h, sk, b, c)
<1>1. PICK l \in c : LitTrue(h, sk, a, l)
  BY DEF EvalClause
<1>2. \A u \in Dep(h, Var(l)) \cap h.universals : a[u] = b[u]
  BY <1>1 DEF ClauseDep
<1>3. CASE IsUniversal(h, Var(l))
  <2>1. Dep(h, Var(l)) = {Var(l)} /\ ~ IsExistential(h, Var(l))
    BY <1>3 DEF Dep, PrefixOK, IsUniversal, IsExistential
  <2>2. a[Var(l)] = b[Var(l)]
    BY <1>2, <1>3, <2>1 DEF IsUniversal
  <2>3. QED
    BY <1>1, <1>3, <2>1, <2>2 DEF EvalClause, LitTrue
<1>4. CASE IsExistential(h, Var(l))
  <2>1. Dep(h, Var(l)) = h.dependencies[Var(l)] /\ ~ IsUniversal(h, Var(l))
    BY <1>4 DEF Dep, PrefixOK, IsUniversal, IsExistential
  <2>2. Key(a, h.dependencies[Var(l)]) = Key(b, h.dependencies[Var(l)])
    BY <1>2, <2>1, KeyEq
  <2>3. QED
    BY <1>1, <1>4, <2>1, <2>2 DEF EvalClause, LitTrue
<1>5. QED
  BY <1>1, <1>3, <1>4 DEF LitTrue

\* sk with one more table.
Extend(h, sk, x, t) == [y \in DOMAIN h.dependencies \cup {x} |-> IF y = x THEN t ELSE sk[y]]

\* Adding a table for a new variable leaves true what was true.
LEMMA ExtendKeepsTrue ==
    ASSUME NEW h, NEW sk, NEW x \in Int, x > 0, NEW D \in SUBSET Int, NEW t,
           ~ IsUniversal(h, x), ~ IsExistential(h, x),
           NEW a, NEW c, EvalClause(h, sk, a, c)
    PROVE  EvalClause(AddExistential(h, x, D), Extend(h, sk, x, t), a, c)
<1> DEFINE e == AddExistential(h, x, D)
           sx == Extend(h, sk, x, t)
<1>1. PICK l \in c : LitTrue(h, sk, a, l)
  BY DEF EvalClause
<1>2. e.universals = h.universals
  BY DEF AddExistential
<1>3. e.dependencies = [z \in DOMAIN h.dependencies \cup {x} |->
                           IF z = x THEN D ELSE h.dependencies[z]]
  BY DEF AddExistential
<1>4. CASE IsUniversal(h, Var(l)) /\ (a[Var(l)] <=> l > 0)
  BY <1>1, <1>2, <1>4 DEF EvalClause, LitTrue, IsUniversal
<1>5. CASE IsExistential(h, Var(l)) /\ (sk[Var(l)][Key(a, h.dependencies[Var(l)])] <=> l > 0)
  <2>1. Var(l) # x /\ IsExistential(e, Var(l))
    BY <1>3, <1>5 DEF IsExistential
  <2>2. sx[Var(l)] = sk[Var(l)] /\ e.dependencies[Var(l)] = h.dependencies[Var(l)]
    BY <1>3, <1>5, <2>1 DEF IsExistential, Extend
  <2>3. LitTrue(e, sx, a, l)
    BY <1>5, <2>1, <2>2 DEF LitTrue
  <2>4. QED
    BY <2>3, <1>1 DEF EvalClause
<1>6. QED
  BY <1>1, <1>4, <1>5 DEF LitTrue

\* The extended tuple is a tuple of Skolem tables of the extended formula.
LEMMA ExtendIsSkolem ==
    ASSUME NEW h, NEW sk \in SkolemTuples(h), NEW x \in Int, NEW D \in SUBSET Int,
           ~ IsExistential(h, x),
           NEW t \in [[D \cap h.universals -> BOOLEAN] -> BOOLEAN]
    PROVE  Extend(h, sk, x, t) \in SkolemTuples(AddExistential(h, x, D))
<1> DEFINE e == AddExistential(h, x, D)
           sx == Extend(h, sk, x, t)
<1>1. e.universals = h.universals
  BY DEF AddExistential
<1>2. e.dependencies = [z \in DOMAIN h.dependencies \cup {x} |->
                           IF z = x THEN D ELSE h.dependencies[z]]
  BY DEF AddExistential
<1>3. DOMAIN e.dependencies = DOMAIN h.dependencies \cup {x}
  BY <1>2
<1>4. ASSUME NEW y \in DOMAIN e.dependencies
      PROVE  sx[y] \in Tables(e, y)
  <2>1. CASE y = x
    BY <2>1, <1>1, <1>2 DEF Tables, Extend
  <2>2. CASE y # x
    <3>1. y \in DOMAIN h.dependencies /\ sx[y] = sk[y]
             /\ e.dependencies[y] = h.dependencies[y]
      BY <2>2, <1>2, <1>3 DEF Extend
    <3>2. sk[y] \in Tables(h, y)
      BY <3>1 DEF SkolemTuples
    <3>3. Tables(h, y) = Tables(e, y)
      BY <3>1, <1>1 DEF Tables
    <3>4. QED
      BY <3>1, <3>2, <3>3
  <2>3. QED
    BY <2>1, <2>2
<1>5. sx \in [DOMAIN e.dependencies -> UNION {Tables(e, y) : y \in DOMAIN e.dependencies}]
  <2>1. \A y \in DOMAIN e.dependencies :
           sx[y] \in UNION {Tables(e, z) : z \in DOMAIN e.dependencies}
    BY <1>4
  <2>2. sx = [y \in DOMAIN e.dependencies |-> sx[y]]
    BY <1>3 DEF Extend
  <2>3. QED
    BY <2>1, <2>2
<1>6. QED
  BY <1>4, <1>5 DEF SkolemTuples

\* The new variable of an extended formula has the value its table gives.
LEMMA FreshValue ==
    ASSUME NEW h, NEW sk, NEW x \in Int, x > 0, NEW D \in SUBSET Int, NEW t,
           ~ IsUniversal(h, x), NEW a, NEW c
    PROVE  /\ t[Key(a, D)] = TRUE /\ x \in c
                 => EvalClause(AddExistential(h, x, D), Extend(h, sk, x, t), a, c)
           /\ t[Key(a, D)] = FALSE /\ -x \in c
                 => EvalClause(AddExistential(h, x, D), Extend(h, sk, x, t), a, c)
<1> DEFINE e == AddExistential(h, x, D)
           sx == Extend(h, sk, x, t)
<1>1. e.dependencies = [z \in DOMAIN h.dependencies \cup {x} |->
                           IF z = x THEN D ELSE h.dependencies[z]]
  BY DEF AddExistential
<1>2. IsExistential(e, x) /\ e.dependencies[x] = D /\ sx[x] = t
  BY <1>1 DEF IsExistential, Extend
<1>3. Var(x) = x /\ Var(-x) = x /\ x > 0 /\ ~ (-x > 0)
  BY DEF Var
<1>4. t[Key(a, D)] = TRUE => LitTrue(e, sx, a, x)
  BY <1>2, <1>3 DEF LitTrue
<1>5. t[Key(a, D)] = FALSE => LitTrue(e, sx, a, -x)
  BY <1>2, <1>3 DEF LitTrue
<1>6. QED
  BY <1>4, <1>5 DEF EvalClause

\* V is what a fork may drop from the common dependencies: nothing, or the
\* variables of a universal c3.
Droppable(h, c3, V) ==
    \/ V = {}
    \/ V = {Var(l) : l \in c3} /\ \A l \in c3 : IsUniversal(h, Var(l))

\* Some tables for h with x keep what sk makes true and make both halves true.
HasExtension(h, sk, c, part, c3, x, D) ==
    \E sx \in SkolemTuples(AddExistential(h, x, D)) :
        \A a \in Rows(h) :
           /\ \A d : EvalClause(h, sk, a, d)
                        => EvalClause(AddExistential(h, x, D), sx, a, d)
           /\ EvalClause(AddExistential(h, x, D), sx, a, c3 \cup part \cup {x})
           /\ EvalClause(AddExistential(h, x, D), sx, a, c3 \cup (c \ part) \cup {-x})

\* Fork extension, plain (V empty) and strong (V the variables of a universal c3):
\* tables for a true clause c extend to tables that make both halves true.  The new
\* variable is true exactly where some row that its dependencies cannot tell apart
\* falsifies part.
LEMMA ForkTrue ==
    ASSUME NEW h, PrefixOK(h), NEW sk \in SkolemTuples(h),
           NEW c \in SUBSET Int, NEW part \in SUBSET c, NEW c3 \in SUBSET Int,
           NEW x \in Int, x > 0, ~ IsUniversal(h, x), ~ IsExistential(h, x),
           NEW V, NEW D \in SUBSET Int,
           Droppable(h, c3, V),
           D = (ClauseDep(h, part) \cap ClauseDep(h, c \ part)) \ V,
           \A a \in Rows(h) : EvalClause(h, sk, a, c)
    PROVE  HasExtension(h, sk, c, part, c3, x, D)
<1> DEFINE e == AddExistential(h, x, D)
           Blocks(b) == V = {} \/ ~ EvalClause(h, sk, b, c3)
           Fails(k) == \E b \in Rows(h) : Key(b, D) = k /\ Blocks(b) /\ ~ EvalClause(h, sk, b, part)
           t == [k \in [D \cap h.universals -> BOOLEAN] |-> Fails(k)]
           sx == Extend(h, sk, x, t)
<1>1. t \in [[D \cap h.universals -> BOOLEAN] -> BOOLEAN]
  OBVIOUS
<1>2. sx \in SkolemTuples(e)
  BY <1>1, ExtendIsSkolem
<1>3. ASSUME NEW a \in Rows(h), NEW d, EvalClause(h, sk, a, d)
      PROVE  EvalClause(e, sx, a, d)
  BY <1>3, ExtendKeepsTrue
<1>4. ASSUME NEW a \in Rows(h)
      PROVE  Key(a, D) \in [D \cap h.universals -> BOOLEAN]
  BY DEF Key, Rows
<1>5. ASSUME NEW a \in Rows(h)
      PROVE  EvalClause(e, sx, a, c3 \cup part \cup {x})
  <2>1. CASE EvalClause(h, sk, a, part) \/ EvalClause(h, sk, a, c3)
    <3>1. EvalClause(e, sx, a, part) \/ EvalClause(e, sx, a, c3)
      BY <2>1, <1>3
    <3>2. QED
      BY <3>1 DEF EvalClause
  <2>2. CASE ~ EvalClause(h, sk, a, part) /\ ~ EvalClause(h, sk, a, c3)
    <3>1. Fails(Key(a, D))
      BY <2>2
    <3>2. t[Key(a, D)] = TRUE
      BY <3>1, <1>4
    <3>3. x \in c3 \cup part \cup {x}
      OBVIOUS
    <3>4. QED
      BY <3>2, <3>3, FreshValue
  <2>3. QED
    BY <2>1, <2>2
<1>6. ASSUME NEW a \in Rows(h)
      PROVE  EvalClause(e, sx, a, c3 \cup (c \ part) \cup {-x})
  <2>1. CASE ~ Fails(Key(a, D))
    <3>1. t[Key(a, D)] = FALSE
      BY <2>1, <1>4
    <3>2. -x \in c3 \cup (c \ part) \cup {-x}
      OBVIOUS
    <3>3. QED
      BY <3>1, <3>2, FreshValue
  <2>2. CASE EvalClause(h, sk, a, c3)
    <3>1. EvalClause(e, sx, a, c3)
      BY <2>2, <1>3
    <3>2. QED
      BY <3>1 DEF EvalClause
  <2>3. CASE Fails(Key(a, D)) /\ ~ EvalClause(h, sk, a, c3)
    <3>1. PICK b \in Rows(h) :
             Key(b, D) = Key(a, D) /\ Blocks(b) /\ ~ EvalClause(h, sk, b, part)
      BY <2>3
    <3> DEFINE d1 == ClauseDep(h, part)
               d2 == ClauseDep(h, c \ part)
               m == [u \in h.universals |-> IF u \in d1 THEN b[u] ELSE a[u]]
    <3>2. DOMAIN a = h.universals /\ DOMAIN b = h.universals
      BY DEF Rows
    <3>3. ASSUME NEW u \in D \cap h.universals
          PROVE  a[u] = b[u]
      <4>1. Key(a, D)[u] = a[u] /\ Key(b, D)[u] = b[u]
        BY <3>2 DEF Key
      <4>2. QED
        BY <4>1, <3>1
    <3>4. ASSUME NEW u \in V \cap h.universals
          PROVE  a[u] = b[u]
      <4>1. PICK l \in c3 : Var(l) = u
        BY <3>4 DEF Droppable
      <4>2. ~ EvalClause(h, sk, a, c3) /\ ~ EvalClause(h, sk, b, c3)
        BY <2>3, <3>1, <3>4
      <4>3. ~ LitTrue(h, sk, a, l) /\ ~ LitTrue(h, sk, b, l)
        BY <4>2 DEF EvalClause
      <4>4. ~ (a[u] <=> l > 0) /\ ~ (b[u] <=> l > 0)
        BY <4>1, <4>3 DEF LitTrue, IsUniversal, Droppable
      <4>5. a[u] \in BOOLEAN /\ b[u] \in BOOLEAN
        BY DEF Rows
      <4>6. QED
        BY <4>4, <4>5
    <3>5. \A u \in d1 \cap d2 \cap h.universals : a[u] = b[u]
      BY <3>3, <3>4
    <3>6. m \in Rows(h)
      BY DEF Rows
    <3>7. \A u \in d1 \cap h.universals : m[u] = b[u]
      OBVIOUS
    <3>8. \A u \in d2 \cap h.universals : m[u] = a[u]
      BY <3>5
    <3>9. part \in SUBSET Int /\ c \ part \in SUBSET Int
      OBVIOUS
    <3>10. ~ EvalClause(h, sk, m, part)
      BY <3>1, <3>6, <3>7, <3>9, DepDecides
    <3>11. EvalClause(h, sk, m, c)
      BY <3>6
    <3>12. EvalClause(h, sk, m, c \ part)
      BY <3>10, <3>11 DEF EvalClause
    <3>13. EvalClause(h, sk, a, c \ part)
      BY <3>6, <3>8, <3>9, <3>12, DepDecides
    <3>14. EvalClause(e, sx, a, c \ part)
      BY <3>13, <1>3
    <3>15. QED
      BY <3>14 DEF EvalClause
  <2>4. QED
    BY <2>1, <2>2, <2>3
<1>7. ASSUME NEW a \in Rows(h)
      PROVE  /\ \A d : EvalClause(h, sk, a, d) => EvalClause(e, sx, a, d)
             /\ EvalClause(e, sx, a, c3 \cup part \cup {x})
             /\ EvalClause(e, sx, a, c3 \cup (c \ part) \cup {-x})
  BY <1>3, <1>5, <1>6
<1> HIDE DEF sx
<1>8. QED
  BY <1>2, <1>7 DEF HasExtension

-----------------------------------------------------------------------------
(* Clauses over the variables of a formula, and formulas that grow.         *)

\* The clauses that only mention quantified variables.
ClausesOver(h) == {c \in SUBSET Int : \A l \in c : IsDeclared(h, Var(l))}

\* The variables of the prefix are among those the header counts.
Counted(h) == h.n_vars \in Nat /\ h.universals \cup DOMAIN h.dependencies \subseteq 1..h.n_vars

\* There are finitely many clauses, and each is finite.
LEMMA FiniteClauses ==
    ASSUME NEW h, Counted(h)
    PROVE  /\ IsFiniteSet(ClausesOver(h))
           /\ \A c \in ClausesOver(h) : IsFiniteSet(c)
<1> DEFINE Lits == -h.n_vars..h.n_vars
<1>1. IsFiniteSet(Lits)
  BY FS_Interval DEF Counted
<1>2. IsFiniteSet(SUBSET Lits)
  BY <1>1, FS_SUBSET
<1>3. ASSUME NEW c \in ClausesOver(h)
      PROVE  c \in SUBSET Lits
  <2>1. ASSUME NEW l \in c PROVE l \in Lits
    <3>1. l \in Int /\ Var(l) \in 1..h.n_vars /\ h.n_vars \in Nat
      BY DEF ClausesOver, IsDeclared, IsUniversal, IsExistential, Counted
    <3>2. QED
      BY <3>1 DEF Var
  <2>2. QED
    BY <2>1
<1> HIDE DEF Lits
<1>4. ClausesOver(h) \in SUBSET SUBSET Lits
  BY <1>3
<1>5. QED
  BY <1>1, <1>2, <1>3, <1>4, FS_Subset

\* Clauses of a formula are clauses over its variables.
LEMMA FormulaClauses ==
    ASSUME NEW h, IsFormula(h)
    PROVE  PrefixOK(h) /\ h.clauses \subseteq ClausesOver(h)
BY DEF IsFormula, ClausesOver

\* The prefix of a formula is finite.
LEMMA FinitePrefix ==
    ASSUME NEW h, Counted(h)
    PROVE  /\ IsFiniteSet(DOMAIN h.dependencies) /\ IsFiniteSet(h.universals)
           /\ Cardinality(DOMAIN h.dependencies) \in Nat
<1>1. 1 \in Int /\ h.n_vars \in Int
  BY DEF Counted
<1>2. IsFiniteSet(1..h.n_vars)
  BY <1>1, FS_Interval
<1>3. QED
  BY <1>2, FS_Subset, FS_CardinalityType DEF Counted

\* No row makes the empty clause true, and there is a row.
LEMMA EmptyNeverTrue ==
    ASSUME NEW h, NEW sk, NEW S, {} \in S, AllTrue(h, sk, S)
    PROVE  FALSE
<1>1. [u \in h.universals |-> TRUE] \in Rows(h)
  BY DEF Rows
<1>2. QED
  BY <1>1 DEF AllTrue, EvalClause

\* The dependencies of a clause are universals of the formula.
LEMMA ClauseDepUniversal ==
    ASSUME NEW h, IsFormula(h), NEW c \in ClausesOver(h), NEW part \in SUBSET c
    PROVE  ClauseDep(h, part) \subseteq h.universals
<1>1. ASSUME NEW l \in part PROVE Dep(h, Var(l)) \subseteq h.universals
  <2>1. IsDeclared(h, Var(l))
    BY DEF ClausesOver
  <2>2. QED
    BY <2>1 DEF IsDeclared, IsUniversal, IsExistential, Dep, IsFormula
<1>2. QED
  BY <1>1 DEF ClauseDep

\* The formula e is h with one more existential, which no clause mentions yet.
OneMore(h, e) ==
    /\ IsFormula(e) /\ Counted(e)
    /\ e.universals = h.universals /\ e.clauses = h.clauses
    /\ e.n_vars = h.n_vars + 1
    /\ DOMAIN e.dependencies = DOMAIN h.dependencies \cup {h.n_vars + 1}
    /\ \A y \in DOMAIN h.dependencies : e.dependencies[y] = h.dependencies[y]
    /\ h.n_vars + 1 \in Nat \ {0} /\ ~ IsDeclared(h, h.n_vars + 1)
    /\ ClausesOver(h) \subseteq ClausesOver(e)
    /\ Cardinality(DOMAIN e.dependencies) = Cardinality(DOMAIN h.dependencies) + 1

\* Adding an existential with the next number gives such a formula.
LEMMA AddFresh ==
    ASSUME NEW h, IsFormula(h), Counted(h), NEW D \in SUBSET h.universals
    PROVE  OneMore(h, AddExistential(h, h.n_vars + 1, D))
<1> DEFINE x == h.n_vars + 1
           e == AddExistential(h, x, D)
<1>2. x \in Nat \ {0} /\ x > h.n_vars /\ h.n_vars \in Nat /\ x = h.n_vars + 1
  BY DEF Counted
<1>3. ~ IsDeclared(h, x)
  BY <1>2 DEF IsDeclared, IsUniversal, IsExistential, Counted
<1>4. /\ e.universals = h.universals /\ e.clauses = h.clauses
      /\ e.n_vars = x
      /\ e.dependencies = [z \in DOMAIN h.dependencies \cup {x} |->
                              IF z = x THEN D ELSE h.dependencies[z]]
  BY <1>2 DEF AddExistential
<1>5. /\ DOMAIN e.dependencies = DOMAIN h.dependencies \cup {x}
      /\ \A y \in DOMAIN h.dependencies : e.dependencies[y] = h.dependencies[y]
      /\ e.dependencies[x] = D
  BY <1>3, <1>4 DEF IsDeclared, IsExistential
<1> HIDE DEF e, x
<1>6. D \subseteq h.universals /\ h.universals \subseteq Int /\ D \subseteq Int
  BY DEF IsFormula, PrefixOK
<1>7. PrefixOK(e)
  <2>1. e.dependencies \in [DOMAIN e.dependencies -> SUBSET Int]
    <3>1. h.dependencies \in [DOMAIN h.dependencies -> SUBSET Int]
      BY DEF IsFormula, PrefixOK
    <3>2. \A y \in DOMAIN e.dependencies : e.dependencies[y] \in SUBSET Int
      BY <1>5, <1>6, <3>1
    <3>3. QED
      BY <1>4, <3>2
  <2>2. e.universals \cap DOMAIN e.dependencies = {}
    BY <1>3, <1>4, <1>5 DEF IsFormula, PrefixOK, IsDeclared, IsUniversal
  <2>3. DOMAIN e.dependencies \subseteq Nat \ {0} /\ e.universals \subseteq Nat \ {0}
    BY <1>2, <1>4, <1>5 DEF IsFormula, PrefixOK
  <2>4. QED
    BY <1>2, <1>4, <2>1, <2>2, <2>3 DEF PrefixOK
<1>8. \A v : IsDeclared(h, v) => IsDeclared(e, v)
  BY <1>4, <1>5 DEF IsDeclared, IsUniversal, IsExistential
<1>9. IsFormula(e)
  <2>1. \A y \in DOMAIN e.dependencies : e.dependencies[y] \subseteq e.universals
    BY <1>4, <1>5, <1>6 DEF IsFormula
  <2>2. ASSUME NEW d \in e.clauses, NEW l \in d
        PROVE  Var(l) <= e.n_vars /\ IsDeclared(e, Var(l))
    <3>1. l \in Int /\ Var(l) <= h.n_vars /\ IsDeclared(h, Var(l))
      BY <1>4 DEF IsFormula
    <3>2. Var(l) \in Nat
      BY <3>1, VarFacts
    <3>3. QED
      BY <1>2, <1>4, <1>8, <3>1, <3>2
  <2>3. QED
    BY <1>4, <1>7, <2>1, <2>2 DEF IsFormula
<1>10. Counted(e)
  BY <1>2, <1>4, <1>5 DEF Counted
<1>11. ClausesOver(h) \subseteq ClausesOver(e)
  BY <1>8 DEF ClausesOver
<1>12. Cardinality(DOMAIN e.dependencies) = Cardinality(DOMAIN h.dependencies) + 1
  <2>1. IsFiniteSet(DOMAIN h.dependencies)
    BY FinitePrefix
  <2>2. x \notin DOMAIN h.dependencies
    BY <1>3 DEF IsDeclared, IsExistential
  <2>3. QED
    BY <1>5, <2>1, <2>2, FS_AddElement
<1>13. QED
  BY <1>2, <1>3, <1>4, <1>5, <1>7, <1>9, <1>10, <1>11, <1>12 DEF e, x, OneMore

\* Two formulas give the variables of c the same dependencies.
AgreeOn(h, e, c) ==
    \A l \in c : /\ IsExistential(h, Var(l)) <=> IsExistential(e, Var(l))
                 /\ IsExistential(h, Var(l)) => h.dependencies[Var(l)] = e.dependencies[Var(l)]

\* They give parts of c the same dependencies too.
LEMMA AgreeOnDeps ==
    ASSUME NEW h, NEW e, NEW c, AgreeOn(h, e, c), NEW d \in SUBSET c
    PROVE  ExDeps(h, d) = ExDeps(e, d) /\ ClauseDep(h, d) = ClauseDep(e, d)
<1>1. ExDeps(h, d) = ExDeps(e, d)
  BY DEF AgreeOn, ExDeps
<1>2. \A l \in d : Dep(h, Var(l)) = Dep(e, Var(l))
  BY DEF AgreeOn, Dep
<1>3. QED
  BY <1>1, <1>2 DEF ClauseDep

\* No clause over h has the variable that is new in e.
LEMMA OneMoreAgrees ==
    ASSUME NEW h, NEW e, OneMore(h, e), NEW c \in ClausesOver(h)
    PROVE  AgreeOn(h, e, c) /\ h.universals = e.universals
<1>1. \A l \in c : IsDeclared(h, Var(l)) /\ Var(l) # h.n_vars + 1
  BY DEF ClausesOver, OneMore
<1>2. QED
  BY <1>1 DEF OneMore, AgreeOn, IsExistential
=============================================================================
