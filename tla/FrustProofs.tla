---------------------------- MODULE FrustProofs -----------------------------
(***************************************************************************)
(* Theorems about the saturation of frust, for every formula, every limit  *)
(* and every clock: its database keeps its shape, the given-clause loop    *)
(* leaves no resolvent out, and what it derives follows from the formula   *)
(* as long as no strong fork puts a tautology into the database.           *)
(***************************************************************************)
EXTENDS FrustPipeline, DqbfProofs, OrderLemmas, SequenceTheorems

-----------------------------------------------------------------------------
(* struct Db.                                                              *)

ProofSteps == [
    clause   : SUBSET Int,
    rule     : {"axiom", "res", "ured", "fex", "sfex"},
    premises : Seq(Int),
    pivot    : Int \cup {None},
    part     : (SUBSET Int) \cup {None},
    c3       : SUBSET Int,
    fresh    : Int \cup {None}]

Databases == [
    clauses   : Seq(SUBSET Int),
    dead      : SUBSET Int,
    processed : SUBSET Int,
    seen      : SUBSET SUBSET Int,
    queue     : SUBSET Int,
    proof     : Seq(ProofSteps)]

\* The database of a saturation under h: what is in it was seen, once, and what was
\* seen has a step of the proof.
DbOK(h, d) ==
    /\ d \in Databases
    /\ Range(d.clauses) \subseteq d.seen /\ IsInjective(d.clauses)
    /\ d.dead \cup d.processed \cup d.queue \subseteq DOMAIN d.clauses
    /\ d.seen \subseteq ClausesOver(h)
    /\ \A c \in d.seen : HasIdx(d, c)

\* Nothing is taken from d: clauses keep their positions, and the dead stay dead.
Grows(d, e) ==
    /\ Len(d.clauses) <= Len(e.clauses)
    /\ \A i \in DOMAIN d.clauses : i \in DOMAIN e.clauses /\ e.clauses[i] = d.clauses[i]
    /\ d.dead \subseteq e.dead /\ d.processed = e.processed

\* From d to e, c has been seen and perhaps stored.
Gains(h, d, e, c) ==
    /\ DbOK(h, e) /\ Grows(d, e)
    /\ e.seen = d.seen \cup {c}
    /\ Range(e.clauses) \subseteq Range(d.clauses) \cup {c}

\* The clauses of a database, and where they are.
LEMMA DbFacts ==
    ASSUME NEW h, NEW d, DbOK(h, d)
    PROVE  /\ d.clauses \in Seq(SUBSET Int)
           /\ Len(d.clauses) \in Nat /\ DOMAIN d.clauses = 1..Len(d.clauses)
           /\ \A i \in DOMAIN d.clauses : /\ d.clauses[i] \in d.seen
                                          /\ d.clauses[i] \in ClausesOver(h)
                                          /\ d.clauses[i] \in SUBSET Int
<1>1. d.clauses \in Seq(SUBSET Int)
  BY DEF DbOK, Databases
<1>2. Len(d.clauses) \in Nat /\ DOMAIN d.clauses = 1..Len(d.clauses)
  BY <1>1, LenProperties
<1>3. \A i \in DOMAIN d.clauses : d.clauses[i] \in Range(d.clauses)
  BY DEF Range
<1>4. \A i \in DOMAIN d.clauses : d.clauses[i] \in d.seen /\ d.clauses[i] \in ClausesOver(h)
  BY <1>3 DEF DbOK
<1>5. QED
  BY <1>1, <1>2, <1>4 DEF ClausesOver

\* A database that grows twice grows.
LEMMA GrowsTwice ==
    ASSUME NEW h, NEW d, DbOK(h, d), NEW e, DbOK(h, e), NEW k, DbOK(h, k), Grows(d, e), Grows(e, k)
    PROVE  Grows(d, k)
<1>1. Len(d.clauses) \in Nat /\ Len(e.clauses) \in Nat /\ Len(k.clauses) \in Nat
  BY DbFacts
<1>2. QED
  BY <1>1 DEF Grows

\* db.idx[c] is the number of a step, from zero.
LEMMA IdxIsInt ==
    ASSUME NEW d \in Databases, NEW c, HasIdx(d, c)
    PROVE  <<Idx(d, c)>> \in Seq(Int)
<1> DEFINE i == CHOOSE k \in DOMAIN d.proof : d.proof[k].clause = c
<1>1. i \in DOMAIN d.proof
  BY DEF HasIdx
<1>2. DOMAIN d.proof = 1..Len(d.proof) /\ Len(d.proof) \in Nat
  BY LenProperties DEF Databases
<1>3. Idx(d, c) = i - 1
  BY DEF Idx
<1> HIDE DEF i
<1>4. QED
  BY <1>1, <1>2, <1>3

\* A database with one more step.
WithStep(d, s) == [d EXCEPT !.proof = Append(@, s)]

\* A new step is at the end of the proof; nothing else of the database changes.
LEMMA WithStepFacts ==
    ASSUME NEW d \in Databases, NEW s \in ProofSteps
    PROVE  /\ WithStep(d, s) \in Databases
           /\ WithStep(d, s).clauses = d.clauses /\ WithStep(d, s).dead = d.dead
           /\ WithStep(d, s).processed = d.processed /\ WithStep(d, s).seen = d.seen
           /\ WithStep(d, s).queue = d.queue
           /\ HasIdx(WithStep(d, s), s.clause)
           /\ \A c : HasIdx(d, c) => HasIdx(WithStep(d, s), c)
<1> DEFINE e == WithStep(d, s)
<1>1. e.proof = Append(d.proof, s) /\ d.proof \in Seq(ProofSteps)
  BY DEF WithStep, Databases
<1>2. /\ Append(d.proof, s) \in Seq(ProofSteps)
      /\ Len(Append(d.proof, s)) = Len(d.proof) + 1
      /\ \A i \in 1..Len(d.proof) : Append(d.proof, s)[i] = d.proof[i]
      /\ Append(d.proof, s)[Len(d.proof) + 1] = s
  BY <1>1, AppendProperties
<1>3. e \in Databases
  BY <1>2 DEF WithStep, Databases
<1>4. /\ e.clauses = d.clauses /\ e.dead = d.dead /\ e.processed = d.processed
      /\ e.seen = d.seen /\ e.queue = d.queue
  BY DEF WithStep, Databases
<1>5. /\ DOMAIN d.proof = 1..Len(d.proof) /\ Len(d.proof) \in Nat
      /\ DOMAIN e.proof = 1..Len(d.proof) + 1
  BY <1>1, <1>2, LenProperties
<1> HIDE DEF e
<1>6. HasIdx(e, s.clause)
  <2>1. Len(d.proof) + 1 \in DOMAIN e.proof
    BY <1>5
  <2>2. QED
    BY <1>1, <1>2, <2>1 DEF HasIdx
<1>7. ASSUME NEW c, HasIdx(d, c) PROVE HasIdx(e, c)
  <2>1. PICK i \in DOMAIN d.proof : d.proof[i].clause = c
    BY <1>7 DEF HasIdx
  <2>2. i \in DOMAIN e.proof /\ e.proof[i] = d.proof[i]
    BY <1>1, <1>2, <1>5
  <2>3. QED
    BY <2>1, <2>2 DEF HasIdx
<1>8. QED
  BY <1>3, <1>4, <1>6, <1>7 DEF e

\* Db::record.
LEMMA RecordFacts ==
    ASSUME NEW h, NEW d, DbOK(h, d), NEW s \in ProofSteps
    PROVE  /\ DbOK(h, Record(d, s)) /\ Grows(d, Record(d, s))
           /\ Record(d, s).seen = d.seen /\ Record(d, s).clauses = d.clauses
           /\ HasIdx(Record(d, s), s.clause)
<1>0. Len(d.clauses) \in Nat /\ d \in Databases
  BY DbFacts DEF DbOK
<1>1. CASE HasIdx(d, s.clause)
  BY <1>0, <1>1 DEF Record, Grows
<1>2. CASE ~ HasIdx(d, s.clause)
  <2>1. Record(d, s) = WithStep(d, s)
    BY <1>2 DEF Record, WithStep
  <2> DEFINE e == WithStep(d, s)
  <2>2. /\ e \in Databases
        /\ e.clauses = d.clauses /\ e.dead = d.dead /\ e.processed = d.processed
        /\ e.seen = d.seen /\ e.queue = d.queue
        /\ HasIdx(e, s.clause) /\ \A c : HasIdx(d, c) => HasIdx(e, c)
    BY <1>0, WithStepFacts
  <2> HIDE DEF e
  <2>3. DbOK(h, e)
    BY <2>2 DEF DbOK
  <2>4. Grows(d, e)
    BY <1>0, <2>2 DEF Grows
  <2>5. QED
    BY <2>1, <2>2, <2>3, <2>4 DEF e
<1>3. QED
  BY <1>1, <1>2

\* A database that has seen c, and one that has stored it too.
WithSeen(d, c) == [d EXCEPT !.seen = @ \cup {c}]

WithClause(d, c, dead) ==
    [d EXCEPT !.seen = @ \cup {c},
              !.dead = @ \cup dead,
              !.queue = @ \cup {Len(d.clauses) + 1},
              !.clauses = Append(@, c)]

\* Seeing a clause that has a step, without storing it.
LEMMA WithSeenFacts ==
    ASSUME NEW h, NEW d, DbOK(h, d), NEW c \in ClausesOver(h), HasIdx(d, c)
    PROVE  Gains(h, d, WithSeen(d, c), c)
<1> DEFINE e == WithSeen(d, c)
<1>0. Len(d.clauses) \in Nat /\ d \in Databases /\ c \in SUBSET Int
  BY DbFacts DEF DbOK, ClausesOver
<1>1. e \in Databases
  BY <1>0 DEF WithSeen, Databases
<1>2. /\ e.clauses = d.clauses /\ e.dead = d.dead /\ e.processed = d.processed
      /\ e.seen = d.seen \cup {c} /\ e.queue = d.queue /\ e.proof = d.proof
  BY <1>0 DEF WithSeen, Databases
<1> HIDE DEF e
<1>3. \A x : HasIdx(d, x) <=> HasIdx(e, x)
  BY <1>2 DEF HasIdx
<1>4. DbOK(h, e)
  BY <1>1, <1>2, <1>3 DEF DbOK
<1>5. Grows(d, e)
  BY <1>0, <1>2 DEF Grows
<1>6. QED
  BY <1>2, <1>4, <1>5 DEF Gains, e

\* Storing a clause that has a step and has not been seen.
LEMMA WithClauseFacts ==
    ASSUME NEW h, NEW d, DbOK(h, d), NEW c \in ClausesOver(h), HasIdx(d, c), c \notin d.seen,
           NEW dead \in SUBSET DOMAIN d.clauses
    PROVE  Gains(h, d, WithClause(d, c, dead), c)
<1> DEFINE e == WithClause(d, c, dead)
           n == Len(d.clauses)
<1>0. /\ n \in Nat /\ DOMAIN d.clauses = 1..n /\ d.clauses \in Seq(SUBSET Int)
      /\ d \in Databases /\ c \in SUBSET Int
  BY DbFacts DEF DbOK, ClausesOver
<1>1. /\ e.clauses = Append(d.clauses, c) /\ e.dead = d.dead \cup dead
      /\ e.processed = d.processed /\ e.seen = d.seen \cup {c}
      /\ e.queue = d.queue \cup {n + 1} /\ e.proof = d.proof
  BY <1>0 DEF WithClause, Databases
<1>2. /\ e.clauses \in Seq(SUBSET Int) /\ Len(e.clauses) = n + 1 /\ DOMAIN e.clauses = 1..n + 1
      /\ \A i \in 1..n : e.clauses[i] = d.clauses[i]
      /\ e.clauses[n + 1] = c
  BY <1>0, <1>1, AppendProperties, LenProperties
<1>3. e \in Databases
  <2>1. e.dead \in SUBSET Int /\ e.queue \in SUBSET Int /\ e.seen \in SUBSET SUBSET Int
    BY <1>0, <1>1 DEF Databases
  <2>2. QED
    BY <1>0, <1>1, <1>2, <2>1 DEF WithClause, Databases
<1> HIDE DEF e, n
<1>4. \A x : HasIdx(d, x) <=> HasIdx(e, x)
  BY <1>1 DEF HasIdx
<1>5. Range(e.clauses) = Range(d.clauses) \cup {c}
  <2>1. ASSUME NEW i \in 1..n + 1
        PROVE  e.clauses[i] \in Range(d.clauses) \cup {c}
    <3>1. CASE i \in 1..n
      BY <1>0, <1>2, <3>1 DEF Range
    <3>2. CASE i = n + 1
      BY <1>2, <3>2
    <3>3. QED
      BY <1>0, <3>1, <3>2
  <2>2. \A i \in 1..n : d.clauses[i] \in Range(e.clauses)
    <3>1. \A i \in 1..n : i \in 1..n + 1
      BY <1>0
    <3>2. QED
      BY <1>2, <3>1 DEF Range
  <2>3. n + 1 \in 1..n + 1
    BY <1>0
  <2>4. c \in Range(e.clauses)
    BY <1>2, <2>3 DEF Range
  <2>5. QED
    BY <1>0, <1>2, <2>1, <2>2, <2>4 DEF Range
<1>6. IsInjective(e.clauses)
  <2>1. SUFFICES ASSUME NEW i \in 1..n + 1, NEW j \in 1..n + 1, e.clauses[i] = e.clauses[j]
                 PROVE  i = j
    BY <1>2 DEF IsInjective
  <2>2. \A k \in 1..n : e.clauses[k] # c
    BY <1>0, <1>2 DEF DbOK, Range
  <2>3. (i \in 1..n \/ i = n + 1) /\ (j \in 1..n \/ j = n + 1)
    BY <1>0
  <2>4. CASE i \in 1..n /\ j \in 1..n
    BY <1>0, <1>2, <2>1, <2>4 DEF DbOK, IsInjective
  <2>5. QED
    BY <1>2, <2>1, <2>2, <2>3, <2>4
<1>7. DbOK(h, e)
  <2>1. e.dead \cup e.processed \cup e.queue \subseteq 1..n + 1
    BY <1>0, <1>1 DEF DbOK
  <2>2. QED
    BY <1>1, <1>2, <1>3, <1>4, <1>5, <1>6, <2>1 DEF DbOK
<1>8. Grows(d, e)
  BY <1>0, <1>1, <1>2 DEF Grows, n
<1>9. QED
  BY <1>1, <1>5, <1>7, <1>8 DEF Gains, e

\* Db::activate.
LEMMA ActivateFacts ==
    ASSUME NEW h, NEW d, DbOK(h, d), NEW c \in ClausesOver(h), HasIdx(d, c)
    PROVE  Gains(h, d, Activate(d, c), c)
<1>1. CASE c \in d.seen
  <2>1. Activate(d, c) = d
    BY <1>1 DEF Activate
  <2>2. Len(d.clauses) \in Nat
    BY DbFacts
  <2>3. Grows(d, d)
    BY <2>2 DEF Grows
  <2>4. QED
    BY <1>1, <2>1, <2>3 DEF Gains
<1>2. CASE c \notin d.seen /\ ForwardSubsumed(d, c)
  BY <1>2, WithSeenFacts DEF Activate, WithSeen
<1>3. CASE c \notin d.seen /\ ~ ForwardSubsumed(d, c)
  <2>1. Activate(d, c) = WithClause(d, c, BackwardSubsumed(d, c))
    BY <1>3 DEF Activate, WithClause
  <2>2. BackwardSubsumed(d, c) \in SUBSET DOMAIN d.clauses
    BY DEF BackwardSubsumed, Live
  <2>3. QED
    BY <1>3, <2>1, <2>2, WithClauseFacts
<1>4. QED
  BY <1>1, <1>2, <1>3

\* What is gained after a step is recorded is gained.
LEMMA GainsAfterRecord ==
    ASSUME NEW h, NEW d, DbOK(h, d), NEW s \in ProofSteps, NEW e, NEW c,
           Gains(h, Record(d, s), e, c)
    PROVE  Gains(h, d, e, c)
<1> DEFINE r == Record(d, s)
<1>1. DbOK(h, r) /\ Grows(d, r) /\ r.seen = d.seen /\ r.clauses = d.clauses
  BY RecordFacts
<1> HIDE DEF r
<1>2. DbOK(h, e) /\ Grows(r, e) /\ e.seen = r.seen \cup {c}
      /\ Range(e.clauses) \subseteq Range(r.clauses) \cup {c}
  BY DEF Gains, r
<1>3. Grows(d, e)
  BY <1>1, <1>2, GrowsTwice
<1>4. QED
  BY <1>1, <1>2, <1>3 DEF Gains

\* Db::admit.
LEMMA AdmitFacts ==
    ASSUME NEW h, NEW d, DbOK(h, d), NEW s \in ProofSteps, s.clause \in ClausesOver(h)
    PROVE  Gains(h, d, Admit(d, s), s.clause)
<1>1. DbOK(h, Record(d, s)) /\ HasIdx(Record(d, s), s.clause)
  BY RecordFacts
<1>2. Gains(h, Record(d, s), Activate(Record(d, s), s.clause), s.clause)
  BY <1>1, ActivateFacts
<1>3. QED
  BY <1>2, GainsAfterRecord DEF Admit

\* The reduct is a part of the clause; the literals that go are of universals that no
\* existential of the clause depends on.
LEMMA RsReduceFacts ==
    ASSUME NEW h, NEW c \in SUBSET Int
    PROVE  /\ RsReduce(h, c) \in SUBSET c
           /\ \A l \in c \ RsReduce(h, c) : /\ IsUniversal(h, Var(l))
                                            /\ Var(l) \notin ExDeps(h, c)
                                            /\ Var(l) \notin ExDeps(h, RsReduce(h, c))
           /\ c \in ClausesOver(h) => RsReduce(h, c) \in ClausesOver(h)
<1>1. RsReduce(h, c) \in SUBSET c
  BY DEF RsReduce
<1>2. \A v : v \in ExDeps(h, RsReduce(h, c)) => v \in ExDeps(h, c)
  BY <1>1 DEF ExDeps
<1>3. QED
  BY <1>1, <1>2 DEF RsReduce, ClausesOver

\* The steps that frust makes have the fields they should.
LEMMA StepTypes ==
    ASSUME NEW c \in SUBSET Int, NEW rule \in {"axiom", "res", "ured"}, NEW q \in Seq(Int),
           NEW x \in Int \cup {None}
    PROVE  /\ ProofStep(c, rule, q, x, None, {}, None) \in ProofSteps
           /\ ProofStep(c, rule, q, x, None, {}, None).clause = c
BY DEF ProofStep, ProofSteps

\* A clause with its step, and its reduct.
LEMMA AdmitReducedFacts ==
    ASSUME NEW h, NEW d, DbOK(h, d), NEW s \in ProofSteps, s.clause \in ClausesOver(h)
    PROVE  Gains(h, d, AdmitReduced(h, d, s), RsReduce(h, s.clause))
<1> DEFINE r == RsReduce(h, s.clause)
           e == Record(d, s)
           t == ProofStep(r, "ured", <<Idx(e, s.clause)>>, None, None, {}, None)
<1>1. DbOK(h, e) /\ HasIdx(e, s.clause)
  BY RecordFacts
<1>2. s.clause \in SUBSET Int
  BY DEF ClausesOver
<1>3. r \in ClausesOver(h)
  BY <1>2, RsReduceFacts
<1>4. CASE r = s.clause
  <2>1. AdmitReduced(h, d, s) = Activate(e, r)
    BY <1>4 DEF AdmitReduced
  <2> HIDE DEF r
  <2>2. Gains(h, Record(d, s), Activate(Record(d, s), r), r)
    BY <1>1, <1>3, <1>4, ActivateFacts
  <2>3. QED
    BY <2>1, <2>2, GainsAfterRecord DEF r
<1>5. CASE r # s.clause
  <2>1. AdmitReduced(h, d, s) = Activate(Record(e, t), r)
    BY <1>5 DEF AdmitReduced
  <2>2. <<Idx(e, s.clause)>> \in Seq(Int)
    BY <1>1, IdxIsInt DEF DbOK
  <2>3. r \in SUBSET Int
    BY <1>3 DEF ClausesOver
  <2>4. t \in ProofSteps /\ t.clause = r
    BY <2>2, <2>3, StepTypes
  <2> HIDE DEF t, r, e
  <2>5. DbOK(h, Record(e, t)) /\ HasIdx(Record(e, t), r)
    BY <1>1, <2>4, RecordFacts
  <2>6. Gains(h, Record(e, t), Activate(Record(e, t), r), r)
    BY <1>3, <2>5, ActivateFacts
  <2>7. Gains(h, e, Activate(Record(e, t), r), r)
    BY <1>1, <2>4, <2>6, GainsAfterRecord
  <2>8. QED
    BY <2>1, <2>7, GainsAfterRecord DEF r, e
<1>6. QED
  BY <1>4, <1>5

-----------------------------------------------------------------------------
(* The order in which clauses are taken.                                   *)

\* What the queue, or a list of clauses to fork, yields first is one of its clauses.
LEMMA FirstIsOne ==
    ASSUME NEW h, Counted(h), NEW d, DbOK(h, d), NEW set \in SUBSET DOMAIN d.clauses, set # {}
    PROVE  First(d, set) \in set
<1> DEFINE size == [i \in set |-> Cardinality(d.clauses[i])]
<1>1. set \in SUBSET (1..Len(d.clauses)) /\ Len(d.clauses) \in Nat
  BY DbFacts
<1>2. set \in SUBSET Int /\ IsFiniteSet(set)
  <2>1. 1 \in Int /\ Len(d.clauses) \in Int
    BY <1>1
  <2>2. IsFiniteSet(1..Len(d.clauses))
    BY <2>1, FS_Interval
  <2>3. IsFiniteSet(set)
    BY <1>1, <2>2, FS_Subset
  <2>4. QED
    BY <1>1, <2>3
<1>3. \A i \in set : size[i] \in Nat
  BY DbFacts, FiniteClauses, FS_CardinalityType
<1>4. PICK i \in set : \A j \in set : size[i] < size[j] \/ (size[i] = size[j] /\ i <= j)
  <2> HIDE DEF size
  <2>1. QED
    BY <1>2, <1>3, LeastByKey
<1>5. \A j \in set : Before(d, i, j)
  BY <1>4 DEF Before
<1>6. QED
  BY <1>5 DEF First

\* The clauses with -l that the given clause is resolved with.
Matching(l) == (Occ(db, -l) \cap db.processed) \ db.dead

\* Partners lists each of them.
LEMMA PartnersFacts ==
    ASSUME NEW h, DbOK(h, db), NEW l
    PROVE  /\ Partners(l) \in Seq({l} \X Matching(l))
           /\ \A j \in Matching(l) : <<l, j>> \in Range(Partners(l))
<1> DEFINE set == Matching(l)
           below(i) == {j \in set : j < i}
           nth(n) == CHOOSE i \in set : Cardinality(below(i)) = n
<1>1. set \in SUBSET (1..Len(db.clauses)) /\ Len(db.clauses) \in Nat
  BY DbFacts DEF Matching, Occ
<1>2. set \in SUBSET Int /\ IsFiniteSet(set)
  <2>1. 1 \in Int /\ Len(db.clauses) \in Int
    BY <1>1
  <2>2. IsFiniteSet(1..Len(db.clauses))
    BY <2>1, FS_Interval
  <2>3. IsFiniteSet(set)
    BY <1>1, <2>2, FS_Subset
  <2>4. QED
    BY <1>1, <2>3
<1>3. Cardinality(set) \in Nat
  BY <1>2, FS_CardinalityType
<1>4. Partners(l) = [n \in 1..Cardinality(set) |-> <<l, nth(n - 1)>>]
  BY DEF Partners, Matching
<1> HIDE DEF set
<1>5. ASSUME NEW n \in 0..Cardinality(set) - 1 PROVE nth(n) \in set
  <2>1. \E i \in set : Cardinality(below(i)) = n
    BY <1>2, CountBelow
  <2> HIDE DEF below
  <2>2. QED
    BY <2>1
<1>6. ASSUME NEW i \in set
      PROVE  /\ Cardinality(below(i)) \in 0..Cardinality(set) - 1
             /\ nth(Cardinality(below(i))) = i
  <2>1. /\ Cardinality(below(i)) \in 0..Cardinality(set) - 1
        /\ \A j \in set : Cardinality(below(j)) = Cardinality(below(i)) => j = i
    BY <1>2, BelowTells
  <2> HIDE DEF below
  <2>2. QED
    BY <2>1
<1>7. Partners(l) \in Seq({l} \X set)
  <2>1. ASSUME NEW n \in 1..Cardinality(set)
        PROVE  <<l, nth(n - 1)>> \in {l} \X set
    <3>1. n - 1 \in 0..Cardinality(set) - 1
      BY <1>3
    <3>2. nth(n - 1) \in set
      BY <1>5, <3>1
    <3> HIDE DEF nth
    <3>3. QED
      BY <3>2
  <2> HIDE DEF nth
  <2>2. QED
    BY <1>3, <1>4, <2>1
<1>8. ASSUME NEW j \in set PROVE <<l, j>> \in Range(Partners(l))
  <2> DEFINE m == Cardinality(below(j))
  <2>1. m \in 0..Cardinality(set) - 1 /\ nth(m) = j
    BY <1>6
  <2> HIDE DEF m, nth
  <2>2. m + 1 \in 1..Cardinality(set) /\ (m + 1) - 1 = m
    BY <1>3, <2>1
  <2>3. Partners(l)[m + 1] = <<l, j>> /\ m + 1 \in DOMAIN Partners(l)
    BY <1>4, <2>1, <2>2
  <2>4. QED
    BY <2>3 DEF Range
<1>9. QED
  BY <1>7, <1>8 DEF set

-----------------------------------------------------------------------------
(* What the rules make true.                                               *)

\* Not a tautology: no literal stands beside its negation.
LEMMA NoClash ==
    ASSUME NEW h, PrefixOK(h), NEW c \in ClausesOver(h), ~ IsTautology(c), NEW l \in c
    PROVE  -l \notin c
<1>1. l \in Int /\ IsDeclared(h, Var(l))
  BY DEF ClausesOver
<1>2. Var(l) # 0
  BY <1>1 DEF IsDeclared, IsUniversal, IsExistential, PrefixOK
<1>3. l # 0
  BY <1>2 DEF Var
<1>4. CASE l > 0
  BY <1>4 DEF IsTautology
<1>5. CASE l < 0
  <2>1. -l > 0 /\ -(-l) = l
    BY <1>1, <1>5
  <2>2. QED
    BY <2>1 DEF IsTautology
<1>6. QED
  BY <1>1, <1>3, <1>4, <1>5

\* The reduct of a true clause is true, if no literal that goes stands beside its
\* negation: the code does not look.
LEMMA RsReduceTrue ==
    ASSUME NEW h, PrefixOK(h), NEW sk, NEW c \in SUBSET Int,
           \A l \in c \ RsReduce(h, c) : -l \notin c,
           AllTrue(h, sk, {c})
    PROVE  AllTrue(h, sk, {RsReduce(h, c)})
<1> DEFINE r == RsReduce(h, c)
<1>1. /\ r \in SUBSET c
      /\ \A l \in c \ r : /\ IsUniversal(h, Var(l))
                          /\ Var(l) \notin ExDeps(h, r)
                          /\ -l \notin c
  BY RsReduceFacts
<1>2. \A a \in Rows(h) : EvalClause(h, sk, a, c)
  BY DEF AllTrue
<1> HIDE DEF r
<1>3. \A a \in Rows(h) : EvalClause(h, sk, a, r)
  BY <1>1, <1>2, UReductionTrue
<1>4. QED
  BY <1>3 DEF AllTrue, r

\* Without tautologies the merge of resolve is the resolvent.
LEMMA MergeIsResolvent ==
    ASSUME NEW h, PrefixOK(h), NEW c \in ClausesOver(h), NEW d \in ClausesOver(h),
           ~ IsTautology(c), ~ IsTautology(d), NEW p \in Int, PivotsOn(c, d, p)
    PROVE  RsResolvent(c, d, p) = Resolvent(c, d, p)
<1>1. \A l \in c : -l \notin c
  BY NoClash
<1>2. \A l \in d : -l \notin d
  BY NoClash
<1>3. -(-p) = p
  OBVIOUS
<1>4. CASE p \in c /\ -p \in d
  <2>1. -p \notin c /\ p \notin d
    BY <1>1, <1>2, <1>3, <1>4
  <2>2. QED
    BY <1>4, <2>1 DEF RsResolvent, Resolvent
<1>5. CASE ~ (p \in c /\ -p \in d)
  <2>1. -p \in c /\ p \in d
    BY <1>5 DEF PivotsOn
  <2>2. p \notin c /\ -p \notin d
    BY <1>1, <1>2, <1>3, <2>1
  <2>3. QED
    BY <1>5, <2>1, <2>2 DEF RsResolvent, Resolvent
<1>6. QED
  BY <1>4, <1>5

\* What resolution adds is over the same variables, and true where its premises are.
LEMMA RsResolventFacts ==
    ASSUME NEW h, PrefixOK(h), NEW c \in ClausesOver(h), NEW d \in ClausesOver(h),
           NEW p \in Int, RsResolves(c, d, p),
           NEW r, r = RsReduce(h, RsResolvent(c, d, p))
    PROVE  /\ r \in ClausesOver(h)
           /\ ~ IsTautology(r)
           /\ \A sk : ~ IsTautology(c) /\ ~ IsTautology(d) /\ AllTrue(h, sk, {c, d})
                         => AllTrue(h, sk, {r})
<1> DEFINE m == RsResolvent(c, d, p)
<1>1. m \in ClausesOver(h) /\ m \in SUBSET Int
  BY DEF RsResolvent, ClausesOver
<1>2. PivotsOn(c, d, p) /\ ~ IsTautology(m)
  BY DEF RsResolves
<1>3. r \in ClausesOver(h) /\ r \in SUBSET m
  BY <1>1, RsReduceFacts
<1>4. ~ IsTautology(r)
  BY <1>2, <1>3 DEF IsTautology
<1>5. ASSUME NEW sk, ~ IsTautology(c), ~ IsTautology(d), AllTrue(h, sk, {c, d})
      PROVE  AllTrue(h, sk, {r})
  <2>1. m = Resolvent(c, d, p)
    BY <1>2, <1>5, MergeIsResolvent
  <2>2. c \in SUBSET Int /\ d \in SUBSET Int
    BY DEF ClausesOver
  <2>3. \A a \in Rows(h) : EvalClause(h, sk, a, Resolvent(c, d, p))
    BY <1>2, <1>5, <2>2, ResolventTrue DEF AllTrue
  <2>4. AllTrue(h, sk, {m})
    BY <2>1, <2>3 DEF AllTrue
  <2> HIDE DEF m
  <2>5. \A l \in m : -l \notin m
    BY <1>1, <1>2, NoClash
  <2>6. QED
    BY <1>1, <2>4, <2>5, RsReduceTrue DEF m
<1>6. QED
  BY <1>3, <1>4, <1>5

\* A fork changes the reduct of no clause that was there before.
LEMMA SameReduct ==
    ASSUME NEW h, NEW e, OneMore(h, e), NEW c \in ClausesOver(h)
    PROVE  RsReduce(e, c) = RsReduce(h, c)
<1>1. AgreeOn(h, e, c) /\ h.universals = e.universals
  BY OneMoreAgrees
<1>2. ExDeps(h, c) = ExDeps(e, c)
  BY <1>1, AgreeOnDeps
<1>3. QED
  BY <1>1, <1>2 DEF RsReduce, IsUniversal

-----------------------------------------------------------------------------
(* One fork.                                                               *)

\* A fork of c: what is split off and, if it is a strong one, the universal that both
\* halves get, which an existential of the part depends on.
ForkOf(h, c, part, c3) ==
    \/ part \in SUBSET c /\ c3 = {}
    \/ \E a \in {Var(l) : l \in ExLits(h, c)} :
          part = PartOf(h, c, a) /\ \E u \in Intersection(h, c, part) : c3 = {u}

\* The formula after the fork, and the halves.
Forked(h, c, part, c3) == AddExistential(h, h.n_vars + 1, Intersection(h, c, part) \ c3)

LeftHalf(h, part, c3) == c3 \cup part \cup {h.n_vars + 1}

RightHalf(h, c, part, c3) == c3 \cup (c \ part) \cup {-(h.n_vars + 1)}

\* A fork splits c and may take a universal from the dependencies.
LEMMA ForkOfFacts ==
    ASSUME NEW h, IsFormula(h), NEW c \in ClausesOver(h), NEW part, NEW c3, ForkOf(h, c, part, c3)
    PROVE  /\ part \in SUBSET c
           /\ Intersection(h, c, part) \in SUBSET h.universals
           /\ c3 \in SUBSET h.universals
           /\ \A l \in h.universals : l \in Int /\ l > 0 /\ Var(l) = l
<1>1. part \in SUBSET c
  BY DEF ForkOf, PartOf
<1>2. Intersection(h, c, part) \in SUBSET h.universals
  BY <1>1, ClauseDepUniversal DEF Intersection
<1>3. c3 \in SUBSET h.universals
  BY <1>2 DEF ForkOf
<1>4. \A l \in h.universals : l \in Int /\ l > 0 /\ Var(l) = l
  BY DEF IsFormula, PrefixOK, Var
<1>5. QED
  BY <1>1, <1>2, <1>3, <1>4

\* The formula grows by one existential, and the halves are clauses over it.
LEMMA ForkedFacts ==
    ASSUME NEW h, IsFormula(h), Counted(h), NEW c \in ClausesOver(h), NEW part, NEW c3,
           ForkOf(h, c, part, c3)
    PROVE  /\ OneMore(h, Forked(h, c, part, c3))
           /\ LeftHalf(h, part, c3) \in ClausesOver(Forked(h, c, part, c3))
           /\ RightHalf(h, c, part, c3) \in ClausesOver(Forked(h, c, part, c3))
<1> DEFINE x == h.n_vars + 1
           e == Forked(h, c, part, c3)
           D == Intersection(h, c, part) \ c3
<1>1. /\ part \in SUBSET c /\ Intersection(h, c, part) \in SUBSET h.universals
      /\ c3 \in SUBSET h.universals
      /\ \A l \in h.universals : l \in Int /\ l > 0 /\ Var(l) = l
  BY ForkOfFacts
<1>2. D \in SUBSET h.universals
  BY <1>1
<1>3. OneMore(h, e)
  <2> HIDE DEF D
  <2>1. OneMore(h, AddExistential(h, h.n_vars + 1, D))
    BY <1>2, AddFresh
  <2>2. QED
    BY <2>1 DEF Forked, D
<1> HIDE DEF e
<1>4. /\ e.universals = h.universals /\ x \in DOMAIN e.dependencies /\ x \in Nat \ {0}
      /\ ClausesOver(h) \subseteq ClausesOver(e)
  BY <1>3 DEF OneMore
<1>5. x \in Int /\ -x \in Int /\ Var(x) = x /\ Var(-x) = x /\ IsDeclared(e, x)
  BY <1>4 DEF Var, IsDeclared, IsExistential
<1>6. \A l \in c3 : l \in Int /\ IsDeclared(e, Var(l))
  BY <1>1, <1>4 DEF IsDeclared, IsUniversal
<1>7. \A l \in c : l \in Int /\ IsDeclared(e, Var(l))
  BY <1>4 DEF ClausesOver
<1>8. LeftHalf(h, part, c3) \in ClausesOver(e)
  BY <1>1, <1>5, <1>6, <1>7 DEF ClausesOver, LeftHalf
<1>9. RightHalf(h, c, part, c3) \in ClausesOver(e)
  BY <1>1, <1>5, <1>6, <1>7 DEF ClausesOver, RightHalf
<1>10. QED
  BY <1>3, <1>8, <1>9 DEF e

\* Which halves are tautologies: none, but for a strong fork on a clause with the
\* opposite literal.  That half keeps both literals when it is reduced.
LEMMA HalvesClash ==
    ASSUME NEW h, IsFormula(h), Counted(h), NEW c \in ClausesOver(h), ~ IsTautology(c),
           NEW part, NEW c3, ForkOf(h, c, part, c3),
           NEW half \in {LeftHalf(h, part, c3), RightHalf(h, c, part, c3)},
           NEW l \in half, -l \in half
    PROVE  /\ l \in RsReduce(Forked(h, c, part, c3), half)
           /\ \E u \in c3 : -u \in c
<1> DEFINE x == h.n_vars + 1
           e == Forked(h, c, part, c3)
<1>1. /\ part \in SUBSET c /\ c3 \in SUBSET h.universals /\ Intersection(h, c, part) \in SUBSET h.universals
      /\ \A v \in h.universals : v \in Int /\ v > 0 /\ Var(v) = v
  BY ForkOfFacts
<1>2. OneMore(h, e)
  BY ForkedFacts
<1>3. PrefixOK(h)
  BY DEF IsFormula
<1>4. \A v \in c : v \in Int /\ -v \notin c /\ -v \in Int /\ IsDeclared(h, Var(v)) /\ Var(-v) = Var(v)
  BY <1>3, NoClash, VarFacts DEF ClausesOver
<1>5. x \in Nat \ {0} /\ ~ IsDeclared(h, x) /\ Var(x) = x /\ Var(-x) = x
  BY <1>2 DEF OneMore, Var
<1>6. x \notin c /\ -x \notin c
  BY <1>4, <1>5
<1>7. \A v \in c3 : IsDeclared(h, Var(v)) /\ v # x /\ v # -x /\ -v # x /\ -v \notin c3
  BY <1>1, <1>5 DEF IsDeclared, IsUniversal
<1>8. half \in SUBSET (c3 \cup c \cup {x, -x}) /\ ~ (x \in half /\ -x \in half)
  <2>1. x # -x
    BY <1>5
  <2>2. QED
    BY <1>1, <1>6, <1>7, <2>1 DEF LeftHalf, RightHalf
<1>9. (l \in c3 /\ -l \in c) \/ (l \in c /\ -l \in c3)
  <2>1. l \in c3 \cup c \cup {x, -x} /\ -l \in c3 \cup c \cup {x, -x}
    BY <1>8
  <2>2. CASE l = x \/ l = -x
    <3>1. -l = x \/ -l = -x
      BY <1>5, <2>2
    <3>2. -(-x) = x
      BY <1>5
    <3>3. QED
      BY <1>8, <2>2, <3>1, <3>2
  <2>3. CASE l \in c3
    <3>1. l \in Int /\ l # x /\ -l # x /\ -l \notin c3
      BY <1>1, <1>7, <2>3
    <3>2. -l # -x
      BY <1>5, <3>1
    <3>3. QED
      BY <2>1, <2>3, <3>1, <3>2
  <2>4. CASE l \in c
    <3>1. -l # x /\ -l # -x
      BY <1>4, <1>5, <2>4
    <3>2. QED
      BY <1>4, <2>1, <2>4, <3>1
  <2>5. QED
    BY <2>1, <2>2, <2>3, <2>4
<1>10. PICK u \in c3 : Var(l) = u /\ -u \in c /\ (l = u \/ l = -u)
  <2>1. CASE l \in c3 /\ -l \in c
    BY <1>1, <2>1
  <2>2. CASE l \in c /\ -l \in c3
    <3>1. -(-l) = l /\ Var(-l) = Var(l) /\ Var(-l) = -l
      BY <1>1, <1>4, <2>2
    <3>2. QED
      BY <2>2, <3>1
  <2>3. QED
    BY <1>9, <2>1, <2>2
<1>11. PICK a \in {Var(v) : v \in ExLits(h, c)} : part = PartOf(h, c, a) /\ u \in Intersection(h, c, part)
  BY <1>10 DEF ForkOf
<1>12. PICK k \in ExLits(h, c) : Var(k) = a
  BY <1>11
<1>13. k \in part /\ IsExistential(h, a)
  BY <1>11, <1>12 DEF PartOf, ExLits
<1>14. u \in h.dependencies[a]
  <2>1. PICK v \in part : u \in Dep(h, Var(v))
    BY <1>11 DEF Intersection, ClauseDep
  <2>2. Var(v) = a \/ Dep(h, Var(v)) \subseteq h.dependencies[a]
    BY <1>11, <2>1 DEF PartOf
  <2>3. QED
    BY <1>13, <2>1, <2>2 DEF Dep
<1>15. -u \in part
  <2>1. Var(-u) = u /\ ~ IsExistential(h, u)
    BY <1>1, <1>3, <1>4, <1>10 DEF PrefixOK, IsExistential, Var
  <2>2. Dep(h, Var(-u)) = {u}
    BY <2>1 DEF Dep
  <2>3. QED
    BY <1>10, <1>11, <1>14, <2>2 DEF PartOf
<1>16. half = LeftHalf(h, part, c3)
  <2>1. SUFFICES ASSUME half = RightHalf(h, c, part, c3) PROVE FALSE
    OBVIOUS
  <2>2. -u \in half
    BY <1>10, <1>1
  <2>3. -u \notin c \ part /\ -u \notin c3 /\ -u # -x
    BY <1>1, <1>5, <1>7, <1>10, <1>15
  <2>4. QED
    BY <2>1, <2>2, <2>3 DEF RightHalf
<1>17. u \in ExDeps(e, half)
  <2>1. k \in half
    BY <1>13, <1>16 DEF LeftHalf
  <2>2. IsExistential(e, a) /\ e.dependencies[a] = h.dependencies[a]
    BY <1>2, <1>13 DEF OneMore, IsExistential
  <2>3. QED
    BY <1>12, <1>14, <2>1, <2>2 DEF ExDeps
<1>18. l \in RsReduce(e, half)
  BY <1>10, <1>17 DEF RsReduce
<1>19. QED
  BY <1>10, <1>18

\* So reduction of a half is sound, ...
LEMMA HalvesReduce ==
    ASSUME NEW h, IsFormula(h), Counted(h), NEW c \in ClausesOver(h), ~ IsTautology(c),
           NEW part, NEW c3, ForkOf(h, c, part, c3),
           NEW half \in {LeftHalf(h, part, c3), RightHalf(h, c, part, c3)},
           NEW sk, AllTrue(Forked(h, c, part, c3), sk, {half})
    PROVE  AllTrue(Forked(h, c, part, c3), sk, {RsReduce(Forked(h, c, part, c3), half)})
<1> DEFINE e == Forked(h, c, part, c3)
<1>1. half \in ClausesOver(e) /\ PrefixOK(e)
  BY ForkedFacts DEF OneMore, IsFormula
<1>2. \A l \in half \ RsReduce(e, half) : -l \notin half
  BY HalvesClash
<1> HIDE DEF e
<1>3. half \in SUBSET Int
  BY <1>1 DEF ClausesOver
<1>4. AllTrue(e, sk, {half})
  BY DEF e
<1>5. AllTrue(e, sk, {RsReduce(e, half)})
  BY <1>1, <1>2, <1>3, <1>4, RsReduceTrue
<1>6. QED
  BY <1>5 DEF e

\* Whatever is true under sk, also of one row only, is true under sx.
Keeps(h, sk, e, sx) ==
    /\ e.universals = h.universals
    /\ \A a \in Rows(h) : \A d : EvalClause(h, sk, a, d) => EvalClause(e, sx, a, d)

\* ... and a fork excludes no tables.
LEMMA ForkExtends ==
    ASSUME NEW h, IsFormula(h), Counted(h), NEW c \in ClausesOver(h), NEW part, NEW c3,
           ForkOf(h, c, part, c3), NEW sk \in SkolemTuples(h), AllTrue(h, sk, {c})
    PROVE  \E sx \in SkolemTuples(Forked(h, c, part, c3)) :
              /\ Keeps(h, sk, Forked(h, c, part, c3), sx)
              /\ AllTrue(Forked(h, c, part, c3), sx,
                         {LeftHalf(h, part, c3), RightHalf(h, c, part, c3)})
<1> DEFINE x == h.n_vars + 1
           W == {Var(l) : l \in c3}
           D == (ClauseDep(h, part) \cap ClauseDep(h, c \ part)) \ W
           e == Forked(h, c, part, c3)
<1>1. /\ part \in SUBSET c /\ c3 \in SUBSET h.universals /\ Intersection(h, c, part) \in SUBSET h.universals
      /\ \A v \in h.universals : v \in Int /\ v > 0 /\ Var(v) = v
  BY ForkOfFacts
<1>2. W = c3
  BY <1>1
<1>3. e = AddExistential(h, x, D)
  BY <1>2 DEF Forked, Intersection
<1>4. OneMore(h, e)
  BY ForkedFacts
<1>5. /\ x \in Int /\ x > 0 /\ ~ IsUniversal(h, x) /\ ~ IsExistential(h, x)
      /\ e.universals = h.universals
  BY <1>4 DEF OneMore, IsDeclared
<1>6. /\ D \in SUBSET Int /\ c3 \in SUBSET Int /\ PrefixOK(h)
      /\ c \in SUBSET Int
  BY <1>1 DEF Intersection, IsFormula, ClausesOver
<1>7. Droppable(h, c3, W)
  BY <1>1 DEF Droppable, IsUniversal
<1>8. \A a \in Rows(h) : EvalClause(h, sk, a, c)
  BY DEF AllTrue
<1>9. D = (ClauseDep(h, part) \cap ClauseDep(h, c \ part)) \ W
  OBVIOUS
<1> HIDE DEF x, W, D, e
<1>10. HasExtension(h, sk, c, part, c3, x, D)
  BY <1>1, <1>5, <1>6, <1>7, <1>8, <1>9, ForkTrue
<1>11. PICK sx \in SkolemTuples(e) :
          \A a \in Rows(h) :
             /\ \A d : EvalClause(h, sk, a, d) => EvalClause(e, sx, a, d)
             /\ EvalClause(e, sx, a, c3 \cup part \cup {x})
             /\ EvalClause(e, sx, a, c3 \cup (c \ part) \cup {-x})
  BY <1>3, <1>10 DEF HasExtension
<1>12. Rows(e) = Rows(h)
  BY <1>5 DEF Rows
<1>13. /\ LeftHalf(h, part, c3) = c3 \cup part \cup {x}
       /\ RightHalf(h, c, part, c3) = c3 \cup (c \ part) \cup {-x}
  BY DEF LeftHalf, RightHalf, x
<1>14. AllTrue(e, sx, {LeftHalf(h, part, c3), RightHalf(h, c, part, c3)})
  BY <1>11, <1>12, <1>13 DEF AllTrue
<1>15. Keeps(h, sk, e, sx)
  BY <1>5, <1>11 DEF Keeps
<1>16. QED
  BY <1>14, <1>15 DEF e

\* What is kept twice is kept, and what is true in every row stays true.
LEMMA KeepsMore ==
    ASSUME NEW h, NEW sk, NEW e, NEW sx, Keeps(h, sk, e, sx)
    PROVE  /\ \A S : AllTrue(h, sk, S) => AllTrue(e, sx, S)
           /\ \A k, st : Keeps(e, sx, k, st) => Keeps(h, sk, k, st)
BY DEF Keeps, AllTrue, Rows

\* A clause over h that is false under sk stays false, since its literals do.
LEMMA KeptBack ==
    ASSUME NEW h, PrefixOK(h), NEW sk \in SkolemTuples(h), NEW e, PrefixOK(e), NEW sx, Keeps(h, sk, e, sx),
           NEW a \in Rows(h), NEW c \in ClausesOver(h), EvalClause(e, sx, a, c)
    PROVE  EvalClause(h, sk, a, c)
<1>1. PICK l \in c : LitTrue(e, sx, a, l)
  BY DEF EvalClause
<1>2. l \in Int /\ -l \in Int /\ IsDeclared(h, Var(l)) /\ Var(-l) = Var(l)
  BY VarFacts DEF ClausesOver
<1>3. l # 0
  BY <1>2 DEF IsDeclared, IsUniversal, IsExistential, PrefixOK, Var
<1>4. SUFFICES ASSUME ~ LitTrue(h, sk, a, l) PROVE FALSE
  BY DEF EvalClause
<1>5. (-l > 0) <=> ~ (l > 0)
  BY <1>2, <1>3
<1>6. LitTrue(h, sk, a, -l)
  <2>1. CASE IsUniversal(h, Var(l))
    <3>1. a[Var(l)] \in BOOLEAN
      BY <2>1 DEF IsUniversal, Rows
    <3>2. QED
      BY <1>2, <1>4, <1>5, <2>1, <3>1 DEF LitTrue
  <2>2. CASE IsExistential(h, Var(l))
    <3> DEFINE y == Var(l)
               k == Key(a, h.dependencies[y])
    <3>1. k \in [h.dependencies[y] \cap h.universals -> BOOLEAN]
      BY DEF Key, Rows
    <3>2. sk[y] \in Tables(h, y)
      BY <2>2 DEF SkolemTuples, IsExistential
    <3>3. sk[y][k] \in BOOLEAN
      BY <3>1, <3>2 DEF Tables
    <3> HIDE DEF k
    <3>4. QED
      BY <1>2, <1>4, <1>5, <2>2, <3>3 DEF LitTrue, k
  <2>3. QED
    BY <1>2, <2>1, <2>2 DEF IsDeclared
<1>7. EvalClause(h, sk, a, {-l})
  BY <1>6 DEF EvalClause
<1>8. EvalClause(e, sx, a, {-l})
  BY <1>7 DEF Keeps
<1>9. LitTrue(e, sx, a, -l)
  BY <1>8 DEF EvalClause
<1>10. QED
  BY <1>1, <1>2, <1>9, NotBothTrue

-----------------------------------------------------------------------------
(* The shape of the state.                                                 *)

\* g is the formula of the problem with one more existential for each fork, numbered
\* above the variables of the input.
PrefixInv ==
    /\ problem \in Problems
    /\ IsFormula(g) /\ Counted(g)
    /\ g.universals = f.universals /\ g.clauses = f.clauses
    /\ f.n_vars <= g.n_vars
    /\ \A y \in DOMAIN g.dependencies \ DOMAIN f.dependencies : y > f.n_vars
    /\ forks = Cardinality(DOMAIN g.dependencies) - Cardinality(DOMAIN f.dependencies)

\* Inside the loop over a clause, its literals and the partners to come are known.
LoopInv ==
    given # 0 =>
        /\ pc = "saturating" /\ given \in db.processed
        /\ lits \subseteq db.clauses[given]
        /\ partners \in Seq(db.clauses[given] \X DOMAIN db.clauses)

ControlInv ==
    /\ unread \in Seq(f.clauses)
    /\ pc \in {"loading", "slice", "saturating", "forking", "between", "returned"}
    /\ result \in IF pc = "returned" THEN {"SAT", "UNSAT", "UNKNOWN"} ELSE {None}

ShapeInv == PrefixInv /\ DbOK(g, db) /\ LoopInv /\ ControlInv

\* What is in d stays in e, at its place, dead if it was.
Kept(d, e) ==
    /\ \A i \in DOMAIN d.clauses : i \in DOMAIN e.clauses /\ e.clauses[i] = d.clauses[i]
    /\ d.seen \subseteq e.seen /\ d.dead \subseteq e.dead

\* What every step does: it may fork, and the database keeps what it has.
Advance ==
    /\ f' = f
    /\ g' = g \/ OneMore(g, g')
    /\ Kept(db, db')

\* What the formulas that solve is called with are.
LEMMA ProblemFacts ==
    ASSUME problem \in Problems
    PROVE  /\ IsFormula(f) /\ Counted(f)
           /\ problem.input \in Seq(f.clauses)
BY ProblemsAssumption DEF f, Counted, IsFormula, PrefixOK

\* The empty database is one.
LEMMA EmptyDbOK ==
    ASSUME NEW h
    PROVE  DbOK(h, EmptyDb)
<1>1. /\ EmptyDb.clauses = << >> /\ EmptyDb.dead = {} /\ EmptyDb.processed = {}
      /\ EmptyDb.seen = {} /\ EmptyDb.queue = {}
  BY DEF EmptyDb
<1>2. EmptyDb \in Databases
  BY DEF EmptyDb, Databases
<1>3. Range(EmptyDb.clauses) = {} /\ IsInjective(EmptyDb.clauses)
  BY <1>1 DEF Range, IsInjective
<1>4. QED
  BY <1>1, <1>2, <1>3 DEF DbOK

\* The search starts with the formula of the problem and an empty database.
LEMMA InitShape ==
    ASSUME Init
    PROVE  ShapeInv
<1> USE DEF Init
<1>1. problem \in Problems /\ g = f /\ IsFormula(f) /\ Counted(f) /\ problem.input \in Seq(f.clauses)
  BY ProblemFacts
<1>2. PrefixInv
  <2>1. Cardinality(DOMAIN f.dependencies) \in Nat /\ f.n_vars \in Nat
    BY <1>1, FinitePrefix DEF Counted
  <2>2. QED
    BY <1>1, <2>1 DEF PrefixInv
<1>3. DbOK(g, db)
  BY EmptyDbOK
<1>4. LoopInv /\ ControlInv
  BY <1>1 DEF LoopInv, ControlInv
<1>5. QED
  BY <1>2, <1>3, <1>4 DEF ShapeInv

\* Nothing of PrefixInv changes but by a fork.
LEMMA PrefixKept ==
    ASSUME PrefixInv, UNCHANGED <<problem, g, forks>>
    PROVE  PrefixInv' /\ f' = f
BY DEF PrefixInv, f, Counted, IsFormula, PrefixOK, IsDeclared, IsUniversal, IsExistential

\* A step that leaves the database as it is.
LEMMA QuietShape ==
    ASSUME ShapeInv, UNCHANGED <<problem, unread, g, db, forks>>, ControlInv',
           given' = 0 \/ UNCHANGED <<given, lits, partners, pc>>
    PROVE  ShapeInv' /\ Advance
<1>1. PrefixInv' /\ f' = f
  BY PrefixKept DEF ShapeInv
<1>2. DbOK(g, db)'
  BY DEF ShapeInv
<1>3. LoopInv'
  BY DEF ShapeInv, LoopInv
<1>4. Kept(db, db')
  BY DEF Kept
<1>5. QED
  BY <1>1, <1>2, <1>3, <1>4 DEF ShapeInv, Advance

\* The actions that do.
QuietStep ==
    \/ Loaded \/ TimeOut \/ Expand \/ ExpandDecides \/ ExpandKnowsUnsat
    \/ PopTooLate \/ EndPass \/ ClauseDone \/ CutOff \/ ForkTooLate \/ NextPass \/ Saturated
    \/ GiveUp \/ DeadlinePasses

\* They keep the shape: only the control, the schedule and the loop change.
LEMMA QuietStepShape ==
    ASSUME ShapeInv, QuietStep
    PROVE  ShapeInv' /\ Advance
<1> USE DEF ShapeInv
<1>1. UNCHANGED <<problem, g, db, forks>> /\ unread' \in {unread}
  BY DEF QuietStep, Loaded, TimeOut, Expand, ExpandDecides, ExpandKnowsUnsat, PopTooLate, EndPass,
         ClauseDone, CutOff, ForkTooLate, NextPass, Saturated, GiveUp, DeadlinePasses, StartSaturate
<1>2. f' = f
  BY <1>1 DEF f
<1>3. given' = 0 \/ UNCHANGED <<given, lits, partners, pc>>
  <2>1. CASE Loaded \/ TimeOut \/ ExpandDecides \/ EndPass \/ NextPass \/ Saturated \/ GiveUp
    BY <2>1 DEF LoopInv, Loaded, TimeOut, ExpandDecides, EndPass, NextPass, NothingToFork, Forking,
                Saturated, GiveUp, inner
  <2>2. CASE Expand \/ ExpandKnowsUnsat
    BY <2>2 DEF LoopInv, Expand, ExpandKnowsUnsat, StartSaturate
  <2>3. CASE PopTooLate \/ ClauseDone \/ CutOff \/ ForkTooLate
    BY <2>3 DEF PopTooLate, ClauseDone, CutOff, ForkTooLate, SliceOver
  <2>4. CASE DeadlinePasses
    BY <2>4 DEF DeadlinePasses, inner
  <2>5. QED
    BY <2>1, <2>2, <2>3, <2>4 DEF QuietStep
<1>4. ControlInv'
  <2>1. CASE Loaded
    BY <1>1, <1>2, <2>1 DEF ControlInv, Loaded, Return
  <2>2. CASE TimeOut \/ ExpandDecides \/ Saturated \/ GiveUp
    BY <1>1, <1>2, <2>2 DEF ControlInv, TimeOut, ExpandDecides, Saturated, GiveUp, Return
  <2>3. CASE Expand \/ ExpandKnowsUnsat
    BY <1>1, <1>2, <2>3 DEF ControlInv, Expand, ExpandKnowsUnsat, StartSaturate
  <2>4. CASE PopTooLate \/ CutOff \/ ForkTooLate
    BY <1>1, <1>2, <2>4 DEF ControlInv, LoopInv, PopTooLate, Popping, CutOff, ForkTooLate, SliceOver
  <2>5. CASE EndPass \/ NextPass \/ ClauseDone \/ DeadlinePasses
    BY <1>1, <1>2, <2>5 DEF ControlInv, EndPass, NextPass, NothingToFork, Forking, ClauseDone, DeadlinePasses
  <2>6. QED
    BY <2>1, <2>2, <2>3, <2>4, <2>5 DEF QuietStep
<1>5. QED
  BY <1>1, <1>3, <1>4, QuietShape

\* What is gained keeps what there was, in a formula with one more variable too.
LEMMA GainsKeep ==
    ASSUME NEW h, NEW d, NEW e, NEW c, DbOK(h, d), Gains(h, d, e, c)
    PROVE  Kept(d, e) /\ e.processed = d.processed
BY DEF Gains, Grows, Kept

\* A database of clauses over h is one over a formula that declares more.
LEMMA DbLater ==
    ASSUME NEW h, NEW e, ClausesOver(h) \subseteq ClausesOver(e), NEW d, DbOK(h, d)
    PROVE  DbOK(e, d)
BY DEF DbOK

\* The clause that is read is one of the formula's.
LEMMA ReadFacts ==
    ASSUME ShapeInv, unread # << >>
    PROVE  Head(unread) \in ClausesOver(g) /\ Head(unread) \in f.clauses /\ Tail(unread) \in Seq(f.clauses)
<1>1. unread \in Seq(f.clauses) /\ IsFormula(g) /\ g.clauses = f.clauses
  BY DEF ShapeInv, ControlInv, PrefixInv
<1>2. Head(unread) \in f.clauses /\ Tail(unread) \in Seq(f.clauses)
  BY <1>1, HeadTailProperties
<1>3. QED
  BY <1>1, <1>2, FormulaClauses

\* The axiom of an input clause.
LEMMA AxiomFacts ==
    ASSUME NEW c \in SUBSET Int
    PROVE  /\ ProofStep(c, "axiom", << >>, None, None, {}, None) \in ProofSteps
           /\ ProofStep(c, "axiom", << >>, None, None, {}, None).clause = c
<1>1. << >> \in Seq(Int)
  OBVIOUS
<1>2. QED
  BY <1>1 DEF ProofStep, ProofSteps

\* LoadClause changes nothing, or gains the reduct of the clause that is read.
LEMMA LoadGains ==
    ASSUME ShapeInv, LoadClause
    PROVE  \/ db' = db
           \/ /\ ~ IsTautology(Head(unread))
              /\ Gains(g, db, db', RsReduce(g, Head(unread)))
<1> DEFINE c == Head(unread)
           s == ProofStep(c, "axiom", << >>, None, None, {}, None)
<1>1. c \in ClausesOver(g) /\ c \in SUBSET Int
  BY ReadFacts DEF LoadClause, ClausesOver
<1>2. s \in ProofSteps /\ s.clause = c
  BY <1>1, AxiomFacts
<1>3. db' = db \/ (~ IsTautology(c) /\ db' = AdmitReduced(g, db, s))
  BY DEF LoadClause
<1> HIDE DEF c, s
<1>4. Gains(g, db, AdmitReduced(g, db, s), RsReduce(g, c))
  BY <1>1, <1>2, AdmitReducedFacts DEF ShapeInv
<1>5. QED
  BY <1>3, <1>4 DEF c

\* Reading a clause keeps the shape of the state.
LEMMA LoadShape ==
    ASSUME ShapeInv, LoadClause
    PROVE  ShapeInv' /\ Advance
<1>0. PrefixInv /\ DbOK(g, db) /\ LoopInv /\ ControlInv
  BY DEF ShapeInv
<1>1. /\ UNCHANGED <<problem, g, forks, given, lits, partners, pc, result>>
      /\ pc = "loading" /\ unread' = Tail(unread) /\ unread # << >>
  BY DEF LoadClause, inner
<1>2. PrefixInv' /\ f' = f
  BY <1>0, <1>1, PrefixKept
<1>3. Kept(db, db') /\ DbOK(g', db')
  <2>1. CASE db' = db
    BY <1>0, <1>1, <2>1 DEF Kept
  <2>2. CASE Gains(g, db, db', RsReduce(g, Head(unread)))
    BY <1>0, <1>1, <2>2, GainsKeep DEF Gains
  <2>3. QED
    BY <2>1, <2>2, LoadGains
<1>4. LoopInv'
  BY <1>0, <1>1 DEF LoopInv
<1>5. ControlInv'
  <2>1. unread' \in Seq(f.clauses)
    BY <1>1, ReadFacts
  <2>2. QED
    BY <1>0, <1>1, <1>2, <2>1 DEF ControlInv
<1>6. QED
  BY <1>1, <1>2, <1>3, <1>4, <1>5 DEF ShapeInv, Advance

\* The literals of a clause are taken in order; its partners are in the database.
LEMMA NextLiteralFacts ==
    ASSUME ShapeInv, NextLiteral
    PROVE  /\ Min(lits) \in lits /\ lits' = lits \ {Min(lits)}
           /\ Min(lits) \in db.clauses[given]
           /\ partners' = Partners(Min(lits))
           /\ partners' \in Seq(db.clauses[given] \X DOMAIN db.clauses)
<1>1. given # 0 /\ lits # {} /\ partners' = Partners(Min(lits)) /\ lits' = lits \ {Min(lits)}
  BY DEF NextLiteral
<1>2. DbOK(g, db) /\ Counted(g) /\ given \in DOMAIN db.clauses /\ lits \subseteq db.clauses[given]
  BY <1>1 DEF ShapeInv, PrefixInv, LoopInv, DbOK
<1>3. db.clauses[given] \in ClausesOver(g) /\ db.clauses[given] \in SUBSET Int
  BY <1>2, DbFacts
<1>4. IsFiniteSet(db.clauses[given])
  BY <1>2, <1>3, FiniteClauses
<1>5. lits \in SUBSET Int /\ IsFiniteSet(lits)
  BY <1>2, <1>3, <1>4, FS_Subset
<1>6. Min(lits) \in lits
  BY <1>1, <1>5, MinIsLeast
<1> DEFINE l == Min(lits)
<1>7. Partners(l) \in Seq({l} \X Matching(l))
  BY <1>2, PartnersFacts
<1>8. l \in db.clauses[given] /\ Matching(l) \subseteq DOMAIN db.clauses
  BY <1>2, <1>6 DEF Matching, Occ
<1> HIDE DEF l
<1>9. Partners(l) \in Seq(db.clauses[given] \X DOMAIN db.clauses)
  <2>1. \A i \in 1..Len(Partners(l)) : Partners(l)[i] \in {l} \X Matching(l)
    BY <1>7, ElementOfSeq
  <2>2. {l} \X Matching(l) \subseteq db.clauses[given] \X DOMAIN db.clauses
    BY <1>8
  <2>3. QED
    BY <1>7, <2>1, <2>2
<1>10. QED
  BY <1>1, <1>6, <1>8, <1>9 DEF l

\* Listing the partners of a literal keeps the shape of the state.
LEMMA NextLiteralShape ==
    ASSUME ShapeInv, NextLiteral
    PROVE  ShapeInv' /\ Advance
<1>0. PrefixInv /\ DbOK(g, db) /\ LoopInv /\ ControlInv
  BY DEF ShapeInv
<1>1. /\ UNCHANGED <<problem, unread, g, db, forks, given, pc, result>> /\ given # 0
  BY DEF NextLiteral
<1>2. PrefixInv' /\ f' = f
  BY <1>0, <1>1, PrefixKept
<1>3. LoopInv'
  BY <1>0, <1>1, NextLiteralFacts DEF LoopInv
<1>4. ControlInv'
  BY <1>0, <1>1, <1>2 DEF ControlInv
<1>5. Kept(db, db')
  BY <1>1 DEF Kept
<1>6. QED
  BY <1>0, <1>1, <1>2, <1>3, <1>4, <1>5 DEF ShapeInv, Advance

\* A clause is taken off the queue, and processed if it is alive.
Popped(d, i) == [d EXCEPT !.queue = @ \ {i}]
Taken(d, i) == [d EXCEPT !.queue = @ \ {i}, !.processed = @ \cup {i}]

\* Taking a clause off the queue leaves the clauses, the dead and the seen alone.
LEMMA TakenFacts ==
    ASSUME NEW h, NEW d, DbOK(h, d), NEW i \in d.queue,
           NEW e, e = Popped(d, i) \/ e = Taken(d, i)
    PROVE  /\ DbOK(h, e)
           /\ e.clauses = d.clauses /\ e.dead = d.dead /\ e.seen = d.seen
           /\ e = Popped(d, i) => e.processed = d.processed
           /\ e = Taken(d, i) => e.processed = d.processed \cup {i}
           /\ Kept(d, e)
<1>1. d \in Databases /\ i \in Int /\ i \in DOMAIN d.clauses
  BY DEF DbOK, Databases
<1>2. e \in Databases
  <2>1. Popped(d, i) \in Databases
    BY <1>1 DEF Popped, Databases
  <2>2. Taken(d, i) \in Databases
    BY <1>1 DEF Taken, Databases
  <2>3. QED
    BY <2>1, <2>2
<1>3. /\ e.clauses = d.clauses /\ e.dead = d.dead /\ e.seen = d.seen /\ e.proof = d.proof
      /\ e.queue = d.queue \ {i}
      /\ e = Popped(d, i) => e.processed = d.processed
      /\ e = Taken(d, i) => e.processed = d.processed \cup {i}
  BY <1>1 DEF Popped, Taken, Databases
<1>4. e.processed \subseteq d.processed \cup {i}
  BY <1>3
<1>5. DbOK(h, e)
  BY <1>1, <1>2, <1>3, <1>4 DEF DbOK, HasIdx
<1>6. Kept(d, e)
  BY <1>3 DEF Kept
<1>7. QED
  BY <1>3, <1>5, <1>6

\* The two outcomes of Pop.
LEMMA PopFacts ==
    ASSUME ShapeInv, Pop
    PROVE  \E i \in db.queue :
              \/ db' = Popped(db, i) /\ given' = 0
              \/ db' = Taken(db, i) /\ given' = i /\ lits' = db.clauses[i] /\ partners' = << >>
<1>1. DbOK(g, db) /\ Counted(g) /\ db.queue # {} /\ given = 0
  BY DEF ShapeInv, PrefixInv, Pop, Popping
<1>2. db.queue \in SUBSET DOMAIN db.clauses
  BY <1>1 DEF DbOK
<1>3. First(db, db.queue) \in db.queue
  BY <1>1, <1>2, FirstIsOne
<1>4. QED
  BY <1>1, <1>3 DEF Pop, Popped, Taken, inner

\* Pop keeps the shape of the state, with the clause it takes as the given one.
LEMMA PopShape ==
    ASSUME ShapeInv, Pop
    PROVE  ShapeInv' /\ Advance
<1>0. PrefixInv /\ DbOK(g, db) /\ LoopInv /\ ControlInv
  BY DEF ShapeInv
<1>1. UNCHANGED <<problem, unread, g, forks, pc, result>> /\ pc = "saturating"
  BY DEF Pop, Popping
<1>2. PrefixInv' /\ f' = f
  BY <1>0, <1>1, PrefixKept
<1>3. PICK i \in db.queue :
         \/ db' = Popped(db, i) /\ given' = 0
         \/ db' = Taken(db, i) /\ given' = i /\ lits' = db.clauses[i] /\ partners' = << >>
  BY PopFacts
<1>4. /\ DbOK(g, db') /\ Kept(db, db') /\ db'.clauses = db.clauses
      /\ db' = Taken(db, i) => db'.processed = db.processed \cup {i}
  BY <1>0, <1>3, TakenFacts
<1>5. LoopInv'
  <2>1. CASE given' = 0
    BY <2>1 DEF LoopInv
  <2>2. CASE db' = Taken(db, i) /\ given' = i /\ lits' = db.clauses[i] /\ partners' = << >>
    <3>1. pc' = "saturating" /\ i \in db'.processed /\ db'.clauses = db.clauses
      BY <1>1, <1>4, <2>2
    <3>2. partners' \in Seq(db'.clauses[i] \X DOMAIN db'.clauses)
      BY <2>2
    <3>3. QED
      BY <2>2, <3>1, <3>2 DEF LoopInv
  <2>3. QED
    BY <1>3, <2>1, <2>2
<1>6. ControlInv'
  BY <1>0, <1>1, <1>2 DEF ControlInv
<1>7. QED
  BY <1>1, <1>2, <1>4, <1>5, <1>6 DEF ShapeInv, Advance

\* What TryPartner resolves the given clause with, on what, and the outcome.
Partner == db.clauses[partners[1][2]]

TriedOn == Var(partners[1][1])

Tried == RsReduce(g, RsResolvent(db.clauses[given], Partner, TriedOn))

\* There is no resolvent, or it has been seen, or it is gained.
TriedBefore ==
    /\ db' = db
    /\ RsResolves(db.clauses[given], Partner, TriedOn) => Tried \in db.seen

TriedNow ==
    /\ RsResolves(db.clauses[given], Partner, TriedOn)
    /\ Gains(g, db, db', Tried)

\* The partner is in the database.
LEMMA PartnerFacts ==
    ASSUME ShapeInv, given # 0, partners # << >>
    PROVE  /\ given \in DOMAIN db.clauses /\ partners[1][2] \in DOMAIN db.clauses
           /\ partners[1][1] \in db.clauses[given]
           /\ partners[1] = <<partners[1][1], partners[1][2]>>
           /\ db.clauses[given] \in ClausesOver(g) /\ db.clauses[given] \in db.seen
           /\ Partner \in ClausesOver(g) /\ Partner \in db.seen
           /\ TriedOn \in Int
           /\ Tail(partners) \in Seq(db.clauses[given] \X DOMAIN db.clauses)
           /\ partners \in Seq(db.clauses[given] \X DOMAIN db.clauses)
<1>1. /\ DbOK(g, db) /\ given \in db.processed
      /\ partners \in Seq(db.clauses[given] \X DOMAIN db.clauses)
  BY DEF ShapeInv, LoopInv
<1>2. given \in DOMAIN db.clauses
  BY <1>1 DEF DbOK
<1>3. partners[1] \in db.clauses[given] \X DOMAIN db.clauses
  <2>1. 1 \in 1..Len(partners)
    BY <1>1, EmptySeq, LenProperties
  <2>2. QED
    BY <1>1, <2>1, ElementOfSeq
<1>4. Tail(partners) \in Seq(db.clauses[given] \X DOMAIN db.clauses)
  BY <1>1, HeadTailProperties
<1>5. \A i \in DOMAIN db.clauses : db.clauses[i] \in ClausesOver(g) /\ db.clauses[i] \in db.seen
  BY <1>1, DbFacts
<1>6. TriedOn \in Int
  <2>1. partners[1][1] \in Int
    BY <1>2, <1>3, <1>5 DEF ClausesOver
  <2>2. QED
    BY <2>1, VarFacts DEF TriedOn
<1>7. QED
  BY <1>1, <1>2, <1>3, <1>4, <1>5, <1>6 DEF Partner

\* The two outcomes of TryPartner; the empty clause ends it.
LEMMA TryPartnerFacts ==
    ASSUME ShapeInv, TryPartner
    PROVE  /\ given # 0 /\ partners # << >>
           /\ TriedBefore \/ TriedNow
           /\ \/ /\ partners' = Tail(partners)
                 /\ UNCHANGED <<given, lits, pc, result>>
              \/ /\ TriedNow /\ Tried = {}
                 /\ given' = 0 /\ pc' = "returned" /\ result' = "UNSAT"
<1> DEFINE c == db.clauses[given]
           s == Resolution(Tried, c, Partner, TriedOn)
<1>1. given # 0 /\ partners # << >>
  BY DEF TryPartner
<1>2. /\ c \in ClausesOver(g) /\ c \in db.seen /\ Partner \in ClausesOver(g) /\ Partner \in db.seen
      /\ TriedOn \in Int
  BY <1>1, PartnerFacts
<1>3. DbOK(g, db) /\ PrefixOK(g)
  BY DEF ShapeInv, PrefixInv, IsFormula
<1>4. \/ db' = db /\ (~ RsResolves(c, Partner, TriedOn) \/ Tried \in db.seen)
      \/ RsResolves(c, Partner, TriedOn) /\ db' = Admit(db, s)
  BY DEF TryPartner, Partner, TriedOn, Tried
<1>5. \/ /\ partners' = Tail(partners)
         /\ UNCHANGED <<given, lits, pc, result>>
      \/ /\ RsResolves(c, Partner, TriedOn) /\ db' = Admit(db, s) /\ Tried = {}
         /\ given' = 0 /\ pc' = "returned" /\ result' = "UNSAT"
  BY DEF TryPartner, Partner, TriedOn, Tried, Return
<1> HIDE DEF c
<1>6. RsResolves(c, Partner, TriedOn) => Tried \in ClausesOver(g)
  BY <1>2, <1>3, RsResolventFacts DEF Tried, c
<1>7. ASSUME RsResolves(c, Partner, TriedOn)
      PROVE  Gains(g, db, Admit(db, s), Tried)
  <2>1. HasIdx(db, c) /\ HasIdx(db, Partner) /\ db \in Databases
    BY <1>2, <1>3 DEF DbOK
  <2>2. <<Idx(db, c)>> \in Seq(Int) /\ <<Idx(db, Partner)>> \in Seq(Int)
    BY <2>1, IdxIsInt
  <2>3. <<Idx(db, c), Idx(db, Partner)>> \in Seq(Int)
    <3>1. <<Idx(db, c)>>[1] \in Int /\ <<Idx(db, Partner)>>[1] \in Int
      BY <2>2
    <3>2. Idx(db, c) \in Int /\ Idx(db, Partner) \in Int
      BY <3>1
    <3>3. QED
      BY <3>2
  <2>4. Tried \in ClausesOver(g) /\ Tried \in SUBSET Int
    BY <1>6, <1>7 DEF ClausesOver
  <2>5. s \in ProofSteps /\ s.clause = Tried
    BY <1>2, <2>3, <2>4, StepTypes DEF Resolution
  <2> HIDE DEF s
  <2>6. QED
    BY <1>3, <2>4, <2>5, AdmitFacts
<1>8. QED
  BY <1>1, <1>4, <1>5, <1>7 DEF TriedBefore, TriedNow, c

\* The partners that are left are those of a database that keeps its clauses.
LEMMA TryPartnerShape ==
    ASSUME ShapeInv, TryPartner
    PROVE  ShapeInv' /\ Advance
<1>0. PrefixInv /\ DbOK(g, db) /\ LoopInv /\ ControlInv
  BY DEF ShapeInv
<1>1. UNCHANGED <<problem, unread, g, forks>>
  BY DEF TryPartner
<1>2. PrefixInv' /\ f' = f
  BY <1>0, <1>1, PrefixKept
<1>3. DbOK(g, db') /\ Kept(db, db') /\ db'.processed = db.processed
  <2>1. CASE TriedBefore
    BY <1>0, <2>1 DEF TriedBefore, Kept
  <2>2. CASE TriedNow
    BY <1>0, <2>2, GainsKeep DEF TriedNow, Gains
  <2>3. QED
    BY <2>1, <2>2, TryPartnerFacts
<1>4. CASE partners' = Tail(partners) /\ UNCHANGED <<given, lits, pc, result>>
  <2>1. LoopInv'
    <3>1. given # 0 /\ partners # << >>
      BY TryPartnerFacts
    <3>2. given \in DOMAIN db.clauses /\ Tail(partners) \in Seq(db.clauses[given] \X DOMAIN db.clauses)
      BY <3>1, PartnerFacts
    <3>3. db'.clauses[given] = db.clauses[given] /\ DOMAIN db.clauses \subseteq DOMAIN db'.clauses
      BY <1>3, <3>2 DEF Kept
    <3>4. Seq(db.clauses[given] \X DOMAIN db.clauses) \subseteq Seq(db.clauses[given] \X DOMAIN db'.clauses)
      <4>1. db.clauses[given] \X DOMAIN db.clauses \subseteq db.clauses[given] \X DOMAIN db'.clauses
        BY <3>3
      <4>2. QED
        BY <4>1
    <3>5. QED
      BY <1>0, <1>3, <1>4, <3>1, <3>2, <3>3, <3>4 DEF LoopInv
  <2>2. ControlInv'
    BY <1>0, <1>1, <1>2, <1>4 DEF ControlInv
  <2>3. QED
    BY <1>1, <1>2, <1>3, <2>1, <2>2 DEF ShapeInv, Advance
<1>5. CASE given' = 0 /\ pc' = "returned" /\ result' = "UNSAT"
  <2>1. LoopInv' /\ ControlInv'
    BY <1>0, <1>1, <1>2, <1>5 DEF LoopInv, ControlInv
  <2>2. QED
    BY <1>1, <1>2, <1>3, <2>1 DEF ShapeInv, Advance
<1>6. QED
  BY <1>4, <1>5, TryPartnerFacts

\* What a fork of c does: the formula grows, and the reducts of the halves are gained.
SplitFacts(c, part, c3) ==
    /\ g' = Forked(g, c, part, c3) /\ OneMore(g, g') /\ forks' = forks + 1
    /\ UNCHANGED <<problem, unread, result>>
    /\ pc = "forking" /\ given' = 0 /\ pc' \in {"saturating", "between"}
    /\ DbOK(g', db)
    /\ \E d : /\ Gains(g', db, d, RsReduce(g', LeftHalf(g, part, c3)))
              /\ Gains(g', d, db', RsReduce(g', RightHalf(g, c, part, c3)))

\* SplitClause does this to a clause of the database that may be forked.
LEMMA SplitClauseFacts ==
    ASSUME ShapeInv, pc = "forking", NEW c \in db.seen, NEW part, NEW c3, ForkOf(g, c, part, c3),
           SplitClause(c, part, c3)
    PROVE  SplitFacts(c, part, c3)
<1> DEFINE x == g.n_vars + 1
           h == Forked(g, c, part, c3)
           half(cl) == ProofStep(cl, IF c3 = {} THEN "fex" ELSE "sfex", <<Idx(db, c)>>, None, part, c3, x)
           sl == half(LeftHalf(g, part, c3))
           sr == half(RightHalf(g, c, part, c3))
           d == AdmitReduced(h, db, sl)
<1>1. /\ PrefixInv /\ DbOK(g, db) /\ LoopInv /\ ControlInv
      /\ IsFormula(g) /\ Counted(g) /\ c \in ClausesOver(g) /\ HasIdx(db, c) /\ db \in Databases
  BY DEF ShapeInv, PrefixInv, DbOK
<1>2. /\ OneMore(g, h) /\ LeftHalf(g, part, c3) \in ClausesOver(h)
      /\ RightHalf(g, c, part, c3) \in ClausesOver(h)
  BY <1>1, ForkedFacts
<1>3. part \in SUBSET Int /\ c3 \in SUBSET Int
  <2>1. part \in SUBSET c /\ c3 \in SUBSET g.universals /\ \A l \in g.universals : l \in Int
    BY <1>1, ForkOfFacts
  <2>2. QED
    BY <1>1, <2>1 DEF ClausesOver
<1>4. ASSUME NEW cl \in ClausesOver(h)
      PROVE  half(cl) \in ProofSteps /\ half(cl).clause = cl
  <2>1. cl \in SUBSET Int
    BY <1>4 DEF ClausesOver
  <2>2. <<Idx(db, c)>> \in Seq(Int)
    BY <1>1, IdxIsInt
  <2>3. x \in Int
    BY <1>1 DEF Counted
  <2> HIDE DEF x
  <2>4. QED
    BY <1>3, <2>1, <2>2, <2>3 DEF ProofStep, ProofSteps
<1>5. /\ sl \in ProofSteps /\ sl.clause = LeftHalf(g, part, c3)
      /\ sr \in ProofSteps /\ sr.clause = RightHalf(g, c, part, c3)
  BY <1>2, <1>4
<1>6. /\ g' = h /\ db' = AdmitReduced(h, d, sr)
      /\ forks' = forks + 1 /\ UNCHANGED <<problem, unread, result>>
      /\ \/ given' = 0 /\ pc' = "between"
         \/ UNCHANGED given /\ pc' = "saturating"
  BY DEF SplitClause, SliceOver, Forked, LeftHalf, RightHalf
<1>7. given = 0
  BY <1>1 DEF LoopInv
<1> HIDE DEF h, half
<1>8. DbOK(h, db)
  BY <1>1, <1>2, DbLater DEF OneMore
<1>9. Gains(h, db, d, RsReduce(h, LeftHalf(g, part, c3)))
  BY <1>2, <1>5, <1>8, AdmitReducedFacts
<1>10. DbOK(h, d)
  BY <1>9 DEF Gains
<1> HIDE DEF d
<1>11. Gains(h, d, AdmitReduced(h, d, sr), RsReduce(h, RightHalf(g, c, part, c3)))
  BY <1>2, <1>5, <1>10, AdmitReducedFacts
<1>12. \E e : /\ Gains(h, db, e, RsReduce(h, LeftHalf(g, part, c3)))
              /\ Gains(h, e, db', RsReduce(h, RightHalf(g, c, part, c3)))
  BY <1>6, <1>9, <1>11
<1>13. g' = Forked(g, c, part, c3)
  BY <1>6 DEF h
<1>14. QED
  BY <1>2, <1>6, <1>7, <1>8, <1>12, <1>13 DEF SplitFacts

\* The part that choose_sfork splits off is that of an existential of the clause.
LEMMA SmallestIsOne ==
    ASSUME NEW h, IsFormula(h), Counted(h), NEW c \in ClausesOver(h), Cardinality(ExLits(h, c)) >= 2
    PROVE  Smallest(h, c) \in {Var(l) : l \in ExLits(h, c)}
<1> DEFINE S == ExLits(h, c)
           size == [l \in S |-> Cardinality(h.dependencies[Var(l)])]
<1>1. S \in SUBSET c /\ c \in SUBSET Int /\ IsFiniteSet(c)
  BY FiniteClauses DEF ExLits, ClausesOver
<1>2. S \in SUBSET Int /\ IsFiniteSet(S)
  BY <1>1, FS_Subset
<1>3. S # {}
  BY FS_EmptySet
<1>4. ASSUME NEW l \in S PROVE size[l] \in Nat
  <2>1. Var(l) \in DOMAIN h.dependencies
    BY DEF ExLits, IsExistential
  <2>2. h.dependencies[Var(l)] \in SUBSET h.universals
    BY <2>1 DEF IsFormula
  <2>3. IsFiniteSet(h.dependencies[Var(l)])
    BY <2>2, FinitePrefix, FS_Subset
  <2>4. QED
    BY <2>3, FS_CardinalityType
<1>5. \A l, k \in S : size[l] = Cardinality(h.dependencies[Var(l)])
  OBVIOUS
<1> HIDE DEF size
<1>6. \E l \in S : \A k \in S : size[l] < size[k] \/ (size[l] = size[k] /\ l <= k)
  <2> HIDE DEF S
  <2>1. QED
    BY <1>2, <1>3, <1>4, LeastByKey
<1> DEFINE P(l) == \A k \in ExLits(h, c) :
                      \/ Cardinality(h.dependencies[Var(l)]) < Cardinality(h.dependencies[Var(k)])
                      \/ /\ Cardinality(h.dependencies[Var(l)]) = Cardinality(h.dependencies[Var(k)])
                         /\ l <= k
<1>7. \E l \in ExLits(h, c) : P(l)
  BY <1>5, <1>6
<1>8. Smallest(h, c) = Var(CHOOSE l \in ExLits(h, c) : P(l))
  BY DEF Smallest
<1> HIDE DEF P
<1>9. QED
  BY <1>7, <1>8

\* Which clause a fork splits, and how.
LEMMA ForkFacts ==
    ASSUME ShapeInv, Fork
    PROVE  \E c \in Range(db.clauses) : \E part : ForkOf(g, c, part, {}) /\ SplitFacts(c, part, {})
<1> DEFINE i == First(db, Forkable)
           c == db.clauses[i]
<1>1. pc = "forking" /\ Forkable # {} /\ SplitClause(c, ForkPart(g, c), {})
  BY DEF Fork, Forking
<1>2. DbOK(g, db) /\ Counted(g) /\ Forkable \in SUBSET DOMAIN db.clauses
  BY DEF ShapeInv, PrefixInv, Forkable, Live
<1>3. i \in DOMAIN db.clauses
  BY <1>1, <1>2, FirstIsOne
<1> HIDE DEF i
<1>4. c \in db.seen /\ c \in Range(db.clauses)
  BY <1>2, <1>3, DbFacts DEF Range
<1> HIDE DEF c
<1>5. ForkOf(g, c, ForkPart(g, c), {})
  BY DEF ForkOf, ForkPart, PartOf
<1>6. SplitFacts(c, ForkPart(g, c), {})
  BY <1>1, <1>4, <1>5, SplitClauseFacts
<1>7. QED
  BY <1>4, <1>5, <1>6

\* The clause that a strong fork splits, and the universal that both halves get.
StrongForked == db.clauses[First(db, StrongForkable)]

Shared == Min(Intersection(g, StrongForked, PartOf(g, StrongForked, Smallest(g, StrongForked))))

\* Which clause a strong fork splits, with the shared universal as third part.
LEMMA StrongForkFacts ==
    ASSUME ShapeInv, StrongFork
    PROVE  \E c \in Range(db.clauses) : \E part, c3 :
              ForkOf(g, c, part, c3) /\ SplitFacts(c, part, c3) /\ c = StrongForked /\ c3 = {Shared}
<1> DEFINE i == First(db, StrongForkable)
           c == db.clauses[i]
           part == PartOf(g, c, Smallest(g, c))
           both == Intersection(g, c, part)
<1>1. pc = "forking" /\ StrongForkable # {} /\ SplitClause(c, part, {Min(both)})
  BY DEF StrongFork, Forking
<1>2. DbOK(g, db) /\ Counted(g) /\ IsFormula(g) /\ StrongForkable \in SUBSET DOMAIN db.clauses
  BY DEF ShapeInv, PrefixInv, StrongForkable, Live
<1>3. i \in StrongForkable
  BY <1>1, <1>2, FirstIsOne
<1> HIDE DEF i
<1>4. c \in db.seen /\ c \in ClausesOver(g) /\ c \in Range(db.clauses)
  <2>1. i \in DOMAIN db.clauses
    BY <1>2, <1>3
  <2>2. QED
    BY <1>2, <2>1, DbFacts DEF Range
<1>5. CanStrongFork(g, c) /\ c = StrongForked /\ Min(both) = Shared
  BY <1>3 DEF StrongForkable, StrongForked, Shared, i
<1> HIDE DEF c
<1>6. Smallest(g, c) \in {Var(l) : l \in ExLits(g, c)}
  BY <1>2, <1>4, <1>5, SmallestIsOne DEF CanStrongFork
<1>7. Min(both) \in both
  <2>1. part \in SUBSET c
    BY DEF PartOf
  <2>2. both \in SUBSET g.universals
    BY <1>2, <1>4, <2>1, ClauseDepUniversal DEF Intersection
  <2>3. IsFiniteSet(g.universals) /\ g.universals \in SUBSET Int
    BY <1>2, FinitePrefix DEF IsFormula, PrefixOK
  <2>4. both \in SUBSET Int /\ IsFiniteSet(both) /\ both # {}
    BY <1>5, <2>2, <2>3, FS_Subset DEF CanStrongFork
  <2> HIDE DEF both
  <2>5. QED
    BY <2>4, MinIsLeast
<1>8. ForkOf(g, c, part, {Min(both)})
  BY <1>6, <1>7 DEF ForkOf
<1> HIDE DEF part, both
<1>9. SplitFacts(c, part, {Min(both)})
  BY <1>1, <1>4, <1>8, SplitClauseFacts
<1>10. QED
  BY <1>4, <1>5, <1>8, <1>9

\* A fork adds an existential and two clauses.
LEMMA SplitShape ==
    ASSUME ShapeInv, NEW c, NEW part, NEW c3, SplitFacts(c, part, c3)
    PROVE  ShapeInv' /\ Advance
<1>0. PrefixInv /\ DbOK(g, db) /\ LoopInv /\ ControlInv
  BY DEF ShapeInv
<1>1. /\ OneMore(g, g') /\ forks' = forks + 1 /\ UNCHANGED <<problem, unread, result>>
      /\ given' = 0 /\ pc' \in {"saturating", "between"} /\ DbOK(g', db)
  BY DEF SplitFacts
<1>2. f' = f
  BY <1>1 DEF f
<1>3. PrefixInv'
  <2>1. /\ IsFormula(g') /\ Counted(g') /\ g'.universals = f.universals /\ g'.clauses = f.clauses
        /\ f.n_vars <= g'.n_vars
    <3>1. g.n_vars \in Nat /\ g'.n_vars = g.n_vars + 1 /\ f.n_vars \in Nat
      BY <1>0, <1>1, ProblemFacts DEF OneMore, PrefixInv, Counted
    <3>2. QED
      BY <1>0, <1>1, <3>1 DEF OneMore, PrefixInv
  <2>2. \A y \in DOMAIN g'.dependencies \ DOMAIN f.dependencies : y > f.n_vars
    <3>1. DOMAIN g'.dependencies = DOMAIN g.dependencies \cup {g.n_vars + 1}
      BY <1>1 DEF OneMore
    <3>2. g.n_vars + 1 > f.n_vars
      BY <1>0, ProblemFacts DEF PrefixInv, Counted
    <3>3. QED
      BY <1>0, <3>1, <3>2 DEF PrefixInv
  <2>3. forks' = Cardinality(DOMAIN g'.dependencies) - Cardinality(DOMAIN f.dependencies)
    <3>1. Cardinality(DOMAIN g'.dependencies) = Cardinality(DOMAIN g.dependencies) + 1
      BY <1>1 DEF OneMore
    <3>2. Cardinality(DOMAIN g.dependencies) \in Nat /\ Cardinality(DOMAIN f.dependencies) \in Nat
      BY <1>0, ProblemFacts, FinitePrefix DEF PrefixInv
    <3>3. QED
      BY <1>0, <1>1, <3>1, <3>2 DEF PrefixInv
  <2>4. problem' \in Problems
    BY <1>0, <1>1 DEF PrefixInv
  <2>5. QED
    BY <1>2, <2>1, <2>2, <2>3, <2>4 DEF PrefixInv
<1>4. DbOK(g', db') /\ Kept(db, db')
  <2>1. PICK d : /\ Gains(g', db, d, RsReduce(g', LeftHalf(g, part, c3)))
                 /\ Gains(g', d, db', RsReduce(g', RightHalf(g, c, part, c3)))
    BY DEF SplitFacts
  <2>2. DbOK(g', d) /\ DbOK(g', db')
    BY <2>1 DEF Gains
  <2>3. Kept(db, d) /\ Kept(d, db')
    BY <1>1, <2>1, <2>2, GainsKeep
  <2>4. Kept(db, db')
    BY <2>3 DEF Kept
  <2>5. QED
    BY <2>2, <2>4
<1>5. LoopInv' /\ ControlInv'
  <2>1. result' = None
    BY <1>0, <1>1 DEF ControlInv, SplitFacts
  <2>2. QED
    BY <1>0, <1>1, <1>2, <2>1 DEF LoopInv, ControlInv
<1>6. QED
  BY <1>1, <1>2, <1>3, <1>4, <1>5 DEF ShapeInv, Advance

\* The clauses that elimination removes between two slices are dead from then on.
LEMMA NextSliceShape ==
    ASSUME ShapeInv, NextSlice
    PROVE  /\ ShapeInv' /\ Advance
           /\ UNCHANGED <<g, given, result>> /\ given = 0
           /\ db'.clauses = db.clauses /\ db'.seen = db.seen /\ db'.processed = db.processed
<1> DEFINE e == [db EXCEPT !.dead = @ \cup Eliminated]
<1>0. PrefixInv /\ DbOK(g, db) /\ LoopInv /\ ControlInv /\ db \in Databases
  BY DEF ShapeInv, DbOK
<1>1. /\ UNCHANGED <<problem, unread, g, forks, given, lits, partners, result>>
      /\ pc = "between" /\ pc' = "slice"
      /\ db' = db \/ db' = e
  BY DEF NextSlice, inner
<1>2. PrefixInv' /\ f' = f
  BY <1>0, <1>1, PrefixKept
<1>3. given = 0
  BY <1>0, <1>1 DEF LoopInv
<1>4. Eliminated \in SUBSET DOMAIN db.clauses
  BY DEF Eliminated, Live
<1>5. DOMAIN db.clauses \in SUBSET Int
  BY <1>0, DbFacts
<1>6. /\ e.clauses = db.clauses /\ e.seen = db.seen /\ e.processed = db.processed /\ e.proof = db.proof
      /\ e.queue = db.queue /\ e.dead = db.dead \cup Eliminated
  BY <1>0 DEF Databases
<1>7. e \in Databases
  <2>1. db.dead \cup Eliminated \in SUBSET Int
    BY <1>0, <1>4, <1>5 DEF Databases
  <2>2. QED
    BY <1>0, <2>1 DEF Databases
<1> HIDE DEF e
<1>8. DbOK(g, e)
  BY <1>0, <1>4, <1>6, <1>7 DEF DbOK, HasIdx
<1>9. DbOK(g', db') /\ Kept(db, db') /\ db'.clauses = db.clauses /\ db'.seen = db.seen
      /\ db'.processed = db.processed
  BY <1>0, <1>1, <1>6, <1>8 DEF Kept
<1>10. LoopInv' /\ ControlInv'
  <2>1. result = None
    BY <1>0, <1>1 DEF ControlInv
  <2>2. QED
    BY <1>0, <1>1, <1>2, <1>3, <2>1 DEF LoopInv, ControlInv
<1>11. QED
  BY <1>1, <1>2, <1>3, <1>9, <1>10 DEF ShapeInv, Advance

\* A step of the checker, or none, changes nothing of the search.
LEMMA StillShape ==
    ASSUME ShapeInv, UNCHANGED searchVars
    PROVE  ShapeInv' /\ Advance
<1>1. UNCHANGED <<problem, unread, g, db, forks, given, lits, partners, pc, result>>
  BY DEF searchVars, inner
<1>2. f' = f
  BY <1>1 DEF f
<1>3. ControlInv'
  BY <1>1, <1>2 DEF ShapeInv, ControlInv
<1>4. QED
  BY <1>1, <1>3, QuietShape

\* The steps of the pipeline, sorted by what they do to the database.
LEMMA Steps ==
    ASSUME [PipelineNext]_vars
    PROVE  \/ QuietStep \/ LoadClause \/ NextLiteral \/ Pop \/ TryPartner
           \/ Fork \/ StrongFork \/ NextSlice \/ UNCHANGED searchVars
BY DEF PipelineNext, Solve, SolveStep, Deadline, Verify, QuietStep, vars

\* Every step of the search or of the checker keeps the shape of the state.
LEMMA NextShape ==
    ASSUME ShapeInv, [PipelineNext]_vars
    PROVE  ShapeInv' /\ Advance
<1>1. CASE QuietStep
  BY <1>1, QuietStepShape
<1>2. CASE LoadClause
  BY <1>2, LoadShape
<1>3. CASE NextLiteral
  BY <1>3, NextLiteralShape
<1>4. CASE Pop
  BY <1>4, PopShape
<1>5. CASE TryPartner
  BY <1>5, TryPartnerShape
<1>6. CASE Fork
  BY <1>6, ForkFacts, SplitShape
<1>7. CASE StrongFork
  BY <1>7, StrongForkFacts, SplitShape
<1>8. CASE NextSlice
  BY <1>8, NextSliceShape
<1>9. CASE UNCHANGED searchVars
  BY <1>9, StillShape
<1>10. QED
  BY <1>1, <1>2, <1>3, <1>4, <1>5, <1>6, <1>7, <1>8, <1>9, Steps

\* So every state of the pipeline has that shape.
LEMMA ShapeAlways == PipelineSpec => []ShapeInv
<1>1. InitPipeline => ShapeInv
  BY InitShape DEF InitPipeline
<1>2. ShapeInv /\ [PipelineNext]_vars => ShapeInv'
  BY NextShape
<1>3. QED
  BY <1>1, <1>2, PTL DEF PipelineSpec

\* The state of frust keeps its shape: the formula is the problem's with one existential
\* for each fork, each stored clause is there once, over declared variables and with a
\* step of the proof that is saved, and the loop is over a clause that was processed.
THEOREM FrustTypeCorrect == PipelineSpec => []TypeOK
<1>1. ShapeInv => TypeOK
  <2>1. SUFFICES ASSUME ShapeInv PROVE TypeOK
    OBVIOUS
  <2>2. PrefixInv /\ DbOK(g, db) /\ LoopInv /\ ControlInv
    BY <2>1 DEF ShapeInv
  <2>3. \A c \in db.seen : \A l \in c : IsDeclared(g, Var(l))
    BY <2>2 DEF DbOK, ClausesOver
  <2>4. given \in {0} \cup db.processed
    BY <2>2 DEF LoopInv
  <2>5. QED
    BY <2>2, <2>3, <2>4 DEF TypeOK, PrefixInv, DbOK, ControlInv
<1>2. QED
  BY <1>1, ShapeAlways, PTL

-----------------------------------------------------------------------------
(* The given-clause loop leaves nothing out.                               *)

\* The clauses at i and j have been resolved on p, if they can be.
Resolved(h, d, i, j, p) ==
    RsResolves(d.clauses[i], d.clauses[j], p) =>
        RsReduce(h, RsResolvent(d.clauses[i], d.clauses[j], p)) \in d.seen

\* What the loop is through with, and alive.
Settled(d, i) == (d.processed \ d.dead) \ {i}

PairsDone ==
    \A i, j \in Settled(db, given) : i # j => \A p \in Nat : Resolved(g, db, i, j, p)

\* Of the given clause: the literals that were looked at are done, but for the partners
\* that are still to come.
GivenDone ==
    given # 0 =>
        \A k \in db.clauses[given] \ lits : \A j \in Settled(db, given) :
            -k \in db.clauses[j] =>
                Resolved(g, db, given, j, Var(k)) \/ <<k, j>> \in Range(partners)

\* Unless the loop can be cut off among the partners, or the empty clause has been found.
Thorough == ~ problem.manyPartners /\ result # "UNSAT"

SkipInv == Thorough => PairsDone /\ GivenDone

\* The order of the premises does not matter.
LEMMA ResolvedSymmetric ==
    ASSUME NEW h, NEW d, NEW i, NEW j, NEW p, Resolved(h, d, i, j, p)
    PROVE  Resolved(h, d, j, i, p)
<1>1. RsResolvent(d.clauses[i], d.clauses[j], p) = RsResolvent(d.clauses[j], d.clauses[i], p)
  BY DEF RsResolvent
<1>2. PivotsOn(d.clauses[i], d.clauses[j], p) <=> PivotsOn(d.clauses[j], d.clauses[i], p)
  BY DEF PivotsOn
<1>3. QED
  BY <1>1, <1>2 DEF Resolved, RsResolves

\* What was resolved stays so: clauses keep their places, what was seen stays seen, and
\* a fork does not change a reduct.
LEMMA ResolvedStays ==
    ASSUME ShapeInv, Advance, NEW i \in DOMAIN db.clauses, NEW j \in DOMAIN db.clauses, NEW p \in Nat,
           Resolved(g, db, i, j, p)
    PROVE  Resolved(g', db', i, j, p)
<1> DEFINE c == db.clauses[i]
           d == db.clauses[j]
           m == RsResolvent(c, d, p)
<1>1. c \in ClausesOver(g) /\ d \in ClausesOver(g)
  BY DbFacts DEF ShapeInv
<1>2. m \in ClausesOver(g)
  BY <1>1 DEF RsResolvent, ClausesOver
<1>3. db'.clauses[i] = c /\ db'.clauses[j] = d /\ db.seen \subseteq db'.seen
  BY DEF Advance, Kept
<1>4. RsReduce(g', m) = RsReduce(g, m)
  <2> HIDE DEF m
  <2>1. CASE g' = g
    BY <2>1
  <2>2. CASE OneMore(g, g')
    BY <1>2, <2>2, SameReduct
  <2>3. QED
    BY <2>1, <2>2 DEF Advance
<1>5. QED
  BY <1>3, <1>4 DEF Resolved

\* A clause that is alive was.
LEMMA SettledBefore ==
    ASSUME ShapeInv, Advance, NEW i, db'.processed = db.processed
    PROVE  Settled(db', i) \subseteq Settled(db, i) /\ Settled(db, i) \subseteq DOMAIN db.clauses
BY DEF ShapeInv, DbOK, Advance, Kept, Settled

\* As long as no clause is added to those that are settled, the pairs stay done.
LEMMA PairsStay ==
    ASSUME ShapeInv, Advance, PairsDone, Settled(db', given') \subseteq Settled(db, given)
    PROVE  PairsDone'
<1>1. ASSUME NEW i \in Settled(db', given'), NEW j \in Settled(db', given'), i # j, NEW p \in Nat
      PROVE  Resolved(g', db', i, j, p)
  <2>1. i \in Settled(db, given) /\ j \in Settled(db, given)
    OBVIOUS
  <2>2. i \in DOMAIN db.clauses /\ j \in DOMAIN db.clauses
    BY <2>1 DEF ShapeInv, DbOK, Settled
  <2>3. Resolved(g, db, i, j, p)
    BY <1>1, <2>1 DEF PairsDone
  <2>4. QED
    BY <2>2, <2>3, ResolvedStays
<1>2. QED
  BY <1>1 DEF PairsDone

\* Nothing is undone while the given clause, its literals and its partners stay.
LEMMA SameGiven ==
    ASSUME ShapeInv, Advance, PairsDone, GivenDone, db'.processed = db.processed,
           UNCHANGED <<given, lits, partners>>
    PROVE  PairsDone' /\ GivenDone'
<1>1. Settled(db', given) \subseteq Settled(db, given) /\ Settled(db, given) \subseteq DOMAIN db.clauses
  BY SettledBefore
<1>2. PairsDone'
  BY <1>1, PairsStay
<1>3. ASSUME given # 0, NEW k \in db'.clauses[given] \ lits, NEW j \in Settled(db', given),
             -k \in db'.clauses[j]
      PROVE  Resolved(g', db', given, j, Var(k)) \/ <<k, j>> \in Range(partners)
  <2>1. given \in DOMAIN db.clauses /\ j \in DOMAIN db.clauses /\ j \in Settled(db, given)
    BY <1>1, <1>3 DEF ShapeInv, LoopInv, DbOK
  <2>2. db'.clauses[given] = db.clauses[given] /\ db'.clauses[j] = db.clauses[j]
    BY <2>1 DEF Advance, Kept
  <2>3. Resolved(g, db, given, j, Var(k)) \/ <<k, j>> \in Range(partners)
    BY <1>3, <2>1, <2>2 DEF GivenDone
  <2>4. Var(k) \in Nat
    <3>1. k \in Int
      BY <1>3, <2>1, <2>2, DbFacts DEF ShapeInv
    <3>2. QED
      BY <3>1, VarFacts
  <2>5. QED
    BY <2>1, <2>3, <2>4, ResolvedStays
<1>4. QED
  BY <1>2, <1>3 DEF GivenDone

\* Nor when there is no given clause before or after.
LEMMA NoGiven ==
    ASSUME ShapeInv, Advance, PairsDone, db'.processed = db.processed, given = 0, given' = 0
    PROVE  PairsDone' /\ GivenDone'
<1>1. Settled(db', given') \subseteq Settled(db, given)
  BY SettledBefore
<1>2. QED
  BY <1>1, PairsStay DEF GivenDone

\* A clause that is taken from the queue has all its literals to come.
LEMMA PopSkips ==
    ASSUME ShapeInv, Advance, Pop, PairsDone
    PROVE  PairsDone' /\ GivenDone'
<1>0. DbOK(g, db) /\ given = 0
  BY DEF ShapeInv, Pop, Popping
<1>1. PICK i \in db.queue :
         \/ db' = Popped(db, i) /\ given' = 0
         \/ db' = Taken(db, i) /\ given' = i /\ lits' = db.clauses[i] /\ partners' = << >>
  BY PopFacts
<1>2. /\ db'.clauses = db.clauses /\ db'.dead = db.dead
      /\ db' = Popped(db, i) => db'.processed = db.processed
      /\ db' = Taken(db, i) => db'.processed = db.processed \cup {i}
  BY <1>0, <1>1, TakenFacts
<1>3. 0 \notin DOMAIN db.clauses
  BY <1>0, DbFacts
<1>4. Settled(db', given') \subseteq Settled(db, given)
  BY <1>0, <1>1, <1>2, <1>3 DEF Settled, DbOK
<1>5. PairsDone'
  BY <1>4, PairsStay
<1>6. GivenDone'
  BY <1>1, <1>2 DEF GivenDone
<1>7. QED
  BY <1>5, <1>6

\* The partners of the next literal are all there are.
LEMMA NextLiteralSkips ==
    ASSUME ShapeInv, Advance, NextLiteral, PairsDone, GivenDone
    PROVE  PairsDone' /\ GivenDone'
<1>1. given # 0 /\ partners = << >> /\ UNCHANGED <<given, db, g>>
  BY DEF NextLiteral
<1>2. PairsDone'
  BY <1>1 DEF PairsDone
<1> DEFINE m == Min(lits)
<1>3. lits' = lits \ {m} /\ partners' = Partners(m)
  BY NextLiteralFacts
<1>4. \A j \in Matching(m) : <<m, j>> \in Range(Partners(m))
  BY PartnersFacts DEF ShapeInv
<1> HIDE DEF m
<1>5. ASSUME NEW k \in db.clauses[given] \ lits', NEW j \in Settled(db, given), -k \in db.clauses[j]
      PROVE  Resolved(g, db, given, j, Var(k)) \/ <<k, j>> \in Range(partners')
  <2>1. CASE k = m
    <3>1. j \in Matching(m)
      BY <1>5, <2>1 DEF Matching, Occ, Settled, ShapeInv, DbOK
    <3>2. QED
      BY <1>3, <1>4, <2>1, <3>1
  <2>2. CASE k # m
    <3>1. k \in db.clauses[given] \ lits
      BY <1>3, <1>5, <2>2
    <3>2. <<k, j>> \notin Range(partners)
      BY <1>1 DEF Range
    <3>3. QED
      BY <1>1, <1>5, <3>1, <3>2 DEF GivenDone
  <2>3. QED
    BY <2>1, <2>2
<1>6. GivenDone'
  BY <1>1, <1>5 DEF GivenDone
<1>7. QED
  BY <1>2, <1>6

\* A clause is done when it has no literal and no partner left.
LEMMA ClauseDoneSkips ==
    ASSUME ShapeInv, Advance, ClauseDone, PairsDone, GivenDone
    PROVE  PairsDone' /\ GivenDone'
<1>1. given # 0 /\ partners = << >> /\ lits = {} /\ given' = 0 /\ UNCHANGED <<db, g>>
  BY DEF ClauseDone
<1>2. DbOK(g, db) /\ given \in DOMAIN db.clauses
  BY <1>1 DEF ShapeInv, LoopInv, DbOK
<1>3. ASSUME NEW j \in Settled(db, given), NEW p \in Nat
      PROVE  Resolved(g, db, given, j, p)
  <2>1. SUFFICES ASSUME RsResolves(db.clauses[given], db.clauses[j], p)
                 PROVE  Resolved(g, db, given, j, p)
    BY DEF Resolved
  <2>2. PICK k \in {p, -p} : k \in db.clauses[given] /\ -k \in db.clauses[j]
    BY <2>1 DEF RsResolves, PivotsOn
  <2>3. Var(k) = p
    BY <2>2 DEF Var
  <2>4. <<k, j>> \notin Range(partners)
    BY <1>1 DEF Range
  <2>5. QED
    BY <1>1, <2>2, <2>3, <2>4 DEF GivenDone
<1>4. ASSUME NEW i \in Settled(db, 0), NEW j \in Settled(db, 0), i # j, NEW p \in Nat
      PROVE  Resolved(g, db, i, j, p)
  <2>1. CASE i = given
    BY <1>3, <1>4, <2>1 DEF Settled
  <2>2. CASE j = given
    BY <1>3, <1>4, <2>2, ResolvedSymmetric DEF Settled
  <2>3. CASE i # given /\ j # given
    BY <1>4, <2>3 DEF PairsDone, Settled
  <2>4. QED
    BY <2>1, <2>2, <2>3
<1>5. QED
  BY <1>1, <1>4 DEF PairsDone, GivenDone

\* A partner that is struck off has been resolved with.
LEMMA TryPartnerSkips ==
    ASSUME ShapeInv, Advance, TryPartner, PairsDone, GivenDone, result' # "UNSAT"
    PROVE  PairsDone' /\ GivenDone'
<1>1. given # 0 /\ partners # << >> /\ (TriedBefore \/ TriedNow)
  BY TryPartnerFacts
<1>2. partners' = Tail(partners) /\ UNCHANGED <<given, lits>>
  BY TryPartnerFacts
<1>3. DbOK(g, db) /\ g' = g
  BY DEF ShapeInv, TryPartner
<1>4. db'.processed = db.processed
  BY <1>1, <1>3, GainsKeep DEF TriedBefore, TriedNow
<1>5. Settled(db', given) \subseteq Settled(db, given) /\ Settled(db, given) \subseteq DOMAIN db.clauses
  BY <1>4, SettledBefore
<1>6. PairsDone'
  BY <1>2, <1>5, PairsStay
<1> DEFINE k0 == partners[1][1]
           j0 == partners[1][2]
<1>7. /\ given \in DOMAIN db.clauses /\ j0 \in DOMAIN db.clauses
      /\ partners[1] = <<k0, j0>> /\ TriedOn = Var(k0) /\ Partner = db.clauses[j0]
      /\ partners \in Seq(db.clauses[given] \X DOMAIN db.clauses)
  BY <1>1, PartnerFacts DEF TriedOn, Partner
<1> HIDE DEF k0, j0
<1>8. \A i \in DOMAIN db.clauses : db'.clauses[i] = db.clauses[i]
  BY DEF Advance, Kept
<1>9. Resolved(g', db', given, j0, Var(k0))
  <2>1. RsResolves(db.clauses[given], Partner, TriedOn) => Tried \in db'.seen
    BY <1>1 DEF TriedBefore, TriedNow, Gains
  <2>2. QED
    BY <1>3, <1>7, <1>8, <2>1 DEF Tried, Resolved
<1>10. \A x \in Range(partners) : x = partners[1] \/ x \in Range(Tail(partners))
  <2>1. SUFFICES ASSUME NEW n \in DOMAIN partners, n # 1
                 PROVE  partners[n] \in Range(Tail(partners))
    BY DEF Range
  <2>2. /\ DOMAIN partners = 1..Len(partners) /\ Len(partners) \in Nat
        /\ Len(Tail(partners)) = Len(partners) - 1
        /\ \A i \in 1..Len(Tail(partners)) : Tail(partners)[i] = partners[i + 1]
        /\ Tail(partners) \in Seq(db.clauses[given] \X DOMAIN db.clauses)
    BY <1>1, <1>7, HeadTailProperties, LenProperties
  <2>3. n - 1 \in 1..Len(Tail(partners)) /\ (n - 1) + 1 = n
    BY <2>1, <2>2
  <2>4. DOMAIN Tail(partners) = 1..Len(Tail(partners))
    BY <2>2, LenProperties
  <2>5. Tail(partners)[n - 1] = partners[n] /\ n - 1 \in DOMAIN Tail(partners)
    BY <2>2, <2>3, <2>4
  <2>6. QED
    BY <2>5 DEF Range
<1>11. ASSUME NEW k \in db'.clauses[given] \ lits, NEW j \in Settled(db', given), -k \in db'.clauses[j]
       PROVE  Resolved(g', db', given, j, Var(k)) \/ <<k, j>> \in Range(Tail(partners))
  <2>1. j \in DOMAIN db.clauses /\ j \in Settled(db, given)
    BY <1>5, <1>11
  <2>2. k \in db.clauses[given] \ lits /\ -k \in db.clauses[j]
    BY <1>7, <1>8, <1>11, <2>1
  <2>3. CASE Resolved(g, db, given, j, Var(k))
    <3>1. k \in Int
      BY <1>3, <1>7, <2>2, DbFacts
    <3>2. Var(k) \in Nat
      BY <3>1, VarFacts
    <3>3. QED
      BY <1>7, <2>1, <2>3, <3>2, ResolvedStays
  <2>4. CASE <<k, j>> = partners[1]
    BY <1>7, <1>9, <2>4
  <2>5. QED
    BY <1>1, <1>10, <2>1, <2>2, <2>3, <2>4 DEF GivenDone
<1>12. GivenDone'
  BY <1>2, <1>11 DEF GivenDone
<1>13. QED
  BY <1>6, <1>12

\* Once it has returned, the search changes nothing.
LEMMA ReturnedStays ==
    ASSUME ShapeInv, [PipelineNext]_vars, pc = "returned"
    PROVE  UNCHANGED searchVars
<1>1. given = 0
  BY DEF ShapeInv, LoopInv
<1>2. ~ SolveStep /\ ~ DeadlinePasses
  BY <1>1 DEF SolveStep, LoadClause, Loaded, TimeOut, Expand, ExpandDecides, ExpandKnowsUnsat, PopTooLate,
         Popping, EndPass, Pop, NextLiteral, ClauseDone, CutOff, TryPartner, ForkTooLate, Fork, StrongFork,
         Forking, NextPass, NothingToFork, Saturated, GiveUp, NextSlice, DeadlinePasses
<1>3. QED
  BY <1>2 DEF PipelineNext, Solve, Deadline, Verify, vars

\* An answer is an answer only after the search has returned.
LEMMA AnswerReturned ==
    ASSUME ShapeInv, result # None
    PROVE  pc = "returned"
BY DEF ShapeInv, ControlInv

\* A loop that is thorough after a step was so before: an UNSAT answer stays.
LEMMA ThoroughBefore ==
    ASSUME ShapeInv, [PipelineNext]_vars, Thorough'
    PROVE  Thorough
<1>1. problem' = problem
  <2>1. CASE UNCHANGED searchVars
    BY <2>1 DEF searchVars
  <2>2. CASE Fork \/ StrongFork
    BY <2>2, ForkFacts, StrongForkFacts DEF SplitFacts
  <2>3. CASE QuietStep
    BY <2>3 DEF QuietStep, Loaded, TimeOut, Expand, ExpandDecides, ExpandKnowsUnsat, PopTooLate, EndPass,
         ClauseDone, CutOff, ForkTooLate, NextPass, Saturated, GiveUp, DeadlinePasses, StartSaturate
  <2>4. CASE LoadClause \/ NextLiteral \/ Pop \/ TryPartner \/ NextSlice
    BY <2>4 DEF LoadClause, NextLiteral, Pop, TryPartner, NextSlice
  <2>5. QED
    BY <2>1, <2>2, <2>3, <2>4, Steps
<1>2. SUFFICES ASSUME result = "UNSAT" PROVE FALSE
  BY <1>1 DEF Thorough
<1>3. pc = "returned"
  BY <1>2, AnswerReturned, NoneAssumption
<1>4. result' = "UNSAT"
  BY <1>2, <1>3, ReturnedStays DEF searchVars
<1>5. QED
  BY <1>4 DEF Thorough

\* The steps that neither process a clause nor look at the given one.
LEMMA QuietSkips ==
    ASSUME ShapeInv, Advance, QuietStep, ~ ClauseDone, ~ problem.manyPartners, PairsDone, GivenDone
    PROVE  PairsDone' /\ GivenDone'
<1>1. db' = db
  BY DEF QuietStep, Loaded, TimeOut, Expand, ExpandDecides, ExpandKnowsUnsat, PopTooLate, EndPass,
         ClauseDone, CutOff, ForkTooLate, NextPass, Saturated, GiveUp, DeadlinePasses, StartSaturate
<1>2. UNCHANGED <<given, lits, partners>> \/ (given = 0 /\ given' = 0)
  <2>1. CASE Loaded \/ TimeOut \/ ExpandDecides \/ EndPass \/ NextPass \/ Saturated \/ GiveUp \/ DeadlinePasses
    BY <2>1 DEF Loaded, TimeOut, ExpandDecides, EndPass, NextPass, Saturated, GiveUp, DeadlinePasses, inner
  <2>2. CASE Expand \/ ExpandKnowsUnsat
    BY <2>2 DEF Expand, ExpandKnowsUnsat, StartSaturate
  <2>3. CASE PopTooLate \/ ForkTooLate
    BY <2>3 DEF ShapeInv, LoopInv, PopTooLate, Popping, ForkTooLate, SliceOver
  <2>4. ~ CutOff
    BY DEF CutOff
  <2>5. QED
    BY <2>1, <2>2, <2>3, <2>4 DEF QuietStep
<1>3. CASE UNCHANGED <<given, lits, partners>>
  BY <1>1, <1>3, SameGiven
<1>4. CASE given = 0 /\ given' = 0
  BY <1>1, <1>4, NoGiven
<1>5. QED
  BY <1>2, <1>3, <1>4

\* Every step leaves the pairs and the given clause as far done as they should be.
LEMMA NextSkips ==
    ASSUME ShapeInv, SkipInv, [PipelineNext]_vars
    PROVE  SkipInv'
<1>1. SUFFICES ASSUME Thorough' PROVE PairsDone' /\ GivenDone'
  BY DEF SkipInv
<1>2. PairsDone /\ GivenDone /\ ~ problem.manyPartners
  BY <1>1, ThoroughBefore DEF SkipInv, Thorough
<1>3. Advance
  BY NextShape
<1>4. CASE QuietStep /\ ~ ClauseDone
  BY <1>2, <1>3, <1>4, QuietSkips
<1>5. CASE ClauseDone
  BY <1>2, <1>3, <1>5, ClauseDoneSkips
<1>6. CASE LoadClause
  <2>1. db'.processed = db.processed
    <3>1. CASE db' = db
      BY <3>1
    <3>2. CASE Gains(g, db, db', RsReduce(g, Head(unread)))
      BY <3>2, GainsKeep DEF ShapeInv
    <3>3. QED
      BY <1>6, <3>1, <3>2, LoadGains
  <2>2. UNCHANGED <<given, lits, partners>>
    BY <1>6 DEF LoadClause, inner
  <2>3. QED
    BY <1>2, <1>3, <2>1, <2>2, SameGiven
<1>7. CASE NextLiteral
  BY <1>2, <1>3, <1>7, NextLiteralSkips
<1>8. CASE Pop
  BY <1>2, <1>3, <1>8, PopSkips
<1>9. CASE TryPartner
  <2>1. result' # "UNSAT"
    BY <1>1 DEF Thorough
  <2>2. QED
    BY <1>2, <1>3, <1>9, <2>1, TryPartnerSkips
<1>10. ASSUME NEW c, NEW part, NEW c3, SplitFacts(c, part, c3)
       PROVE  PairsDone' /\ GivenDone'
  <2>1. given = 0 /\ given' = 0
    BY <1>10 DEF SplitFacts, ShapeInv, LoopInv
  <2>2. PICK d : /\ Gains(g', db, d, RsReduce(g', LeftHalf(g, part, c3)))
                 /\ Gains(g', d, db', RsReduce(g', RightHalf(g, c, part, c3)))
    BY <1>10 DEF SplitFacts
  <2>3. db'.processed = db.processed
    BY <2>2 DEF Gains, Grows
  <2>4. QED
    BY <1>2, <1>3, <2>1, <2>3, NoGiven
<1>11. CASE Fork
  BY <1>10, <1>11, ForkFacts
<1>12. CASE StrongFork
  BY <1>10, <1>12, StrongForkFacts
<1>13. CASE NextSlice
  BY <1>2, <1>3, <1>13, NextSliceShape, NoGiven
<1>14. CASE UNCHANGED searchVars
  <2>1. UNCHANGED <<db, given, lits, partners>>
    BY <1>14 DEF searchVars, inner
  <2>2. QED
    BY <1>2, <1>3, <2>1, SameGiven
<1>15. QED
  BY <1>4, <1>5, <1>6, <1>7, <1>8, <1>9, <1>11, <1>12, <1>13, <1>14, Steps

\* Two clauses that are processed and alive have been resolved on every variable,
\* whatever was interrupted, subsumed, forked or eliminated in between.
THEOREM FrustNothingSkipped == PipelineSpec => []NothingSkipped
<1>1. InitPipeline => SkipInv
  BY DEF InitPipeline, Init, SkipInv, PairsDone, GivenDone, Settled, EmptyDb
<1>2. ShapeInv /\ SkipInv /\ [PipelineNext]_vars => SkipInv'
  BY NextSkips
<1>3. ShapeInv /\ SkipInv => NothingSkipped
  <2>1. SUFFICES ASSUME ShapeInv, PairsDone,
                        NEW i \in Settled(db, given), NEW j \in Settled(db, given),
                        NEW l \in db.clauses[i], i # j
                 PROVE  Resolved(g, db, i, j, Var(l))
    BY DEF SkipInv, Thorough, NothingSkipped, Resolved, Settled
  <2>2. l \in Int
    <3>1. i \in DOMAIN db.clauses
      BY <2>1 DEF ShapeInv, DbOK, Settled
    <3>2. QED
      BY <2>1, <3>1, DbFacts DEF ShapeInv
  <2>3. Var(l) \in Nat
    BY <2>2, VarFacts
  <2>4. QED
    BY <2>1, <2>3 DEF PairsDone
<1>4. QED
  BY <1>1, <1>2, <1>3, ShapeAlways, PTL DEF PipelineSpec

-----------------------------------------------------------------------------
(* What saturation derives follows from the formula.                       *)

\* No clause that is stored has a literal and its negation.
NoTautology == \A c \in Range(db.clauses) : ~ IsTautology(c)

\* Each model of h0 has an extension to h in which everything that was seen is true.
Survive(h0, h, d) ==
    \A sk \in SkolemTuples(h0) : IsModel(h0, sk) =>
        \E sx \in SkolemTuples(h) : Keeps(h0, sk, h, sx) /\ AllTrue(h, sx, d.seen)

ModelsSurvive == Survive(f, g, db)

\* What expansion was fed was seen, and is over the variables of the input.
FedInv ==
    /\ fedUpto \in Nat
    /\ \A c \in fed : c \in db.seen /\ \A l \in c : Var(l) <= f.n_vars

AnswerInv ==
    /\ knownUnsat => ~ IsTrue(f)
    /\ NoTautology => (result = "UNSAT" => ~ IsTrue(f))

SoundInv == FedInv /\ AnswerInv /\ (NoTautology => ModelsSurvive)

\* The empty clause refutes the formula.
LEMMA EmptyRefutes ==
    ASSUME NEW h0, NEW h, NEW d, Survive(h0, h, d), {} \in d.seen
    PROVE  ~ IsTrue(h0)
<1>1. SUFFICES ASSUME NEW sk \in SkolemTuples(h0), IsModel(h0, sk) PROVE FALSE
  BY DEF IsTrue
<1>2. PICK sx \in SkolemTuples(h) : AllTrue(h, sx, d.seen)
  BY <1>1 DEF Survive
<1>3. QED
  BY <1>2, EmptyNeverTrue

\* The table of the truth values is brute force.
LEMMA TruthIsTrue ==
    ASSUME ShapeInv
    PROVE  Truth[f] = IsTrue(f)
BY DEF ShapeInv, PrefixInv, Truth, f

\* A gained clause that is true where the others are excludes no model.
LEMMA GainSurvives ==
    ASSUME NEW h0, NEW h, NEW d, NEW e, NEW c, Survive(h0, h, d), Gains(h, d, e, c),
           \A sk \in SkolemTuples(h0), sx \in SkolemTuples(h) :
              IsModel(h0, sk) /\ Keeps(h0, sk, h, sx) /\ AllTrue(h, sx, d.seen) => AllTrue(h, sx, {c})
    PROVE  Survive(h0, h, e)
<1>1. e.seen = d.seen \cup {c}
  BY DEF Gains
<1>2. ASSUME NEW sk \in SkolemTuples(h0), IsModel(h0, sk)
      PROVE  \E sx \in SkolemTuples(h) : Keeps(h0, sk, h, sx) /\ AllTrue(h, sx, e.seen)
  <2>1. PICK sx \in SkolemTuples(h) : Keeps(h0, sk, h, sx) /\ AllTrue(h, sx, d.seen)
    BY <1>2 DEF Survive
  <2>2. AllTrue(h, sx, {c})
    BY <1>2, <2>1
  <2>3. AllTrue(h, sx, e.seen)
    BY <1>1, <2>1, <2>2 DEF AllTrue
  <2>4. QED
    BY <2>1, <2>3
<1>3. QED
  BY <1>2 DEF Survive

\* The reduct of a clause of the input, which is no tautology.
LEMMA LoadSurvives ==
    ASSUME ShapeInv, LoadClause, ModelsSurvive
    PROVE  ModelsSurvive'
<1> DEFINE c == Head(unread)
           r == RsReduce(g, c)
<1>1. f' = f /\ g' = g
  BY LoadShape DEF LoadClause, Advance
<1>2. CASE db' = db
  BY <1>1, <1>2 DEF ModelsSurvive
<1>3. CASE ~ IsTautology(c) /\ Gains(g, db, db', r)
  <2>1. c \in ClausesOver(g) /\ c \in f.clauses /\ c \in SUBSET Int
    BY ReadFacts DEF LoadClause, ClausesOver
  <2>2. PrefixOK(g)
    BY DEF ShapeInv, PrefixInv, IsFormula
  <2> HIDE DEF c
  <2>3. \A l \in c \ r : -l \notin c
    BY <1>3, <2>1, <2>2, NoClash
  <2>4. ASSUME NEW sk \in SkolemTuples(f), NEW sx \in SkolemTuples(g),
               IsModel(f, sk) /\ Keeps(f, sk, g, sx) /\ AllTrue(g, sx, db.seen)
        PROVE  AllTrue(g, sx, {r})
    <3>1. AllTrue(f, sk, {c})
      BY <2>1, <2>4 DEF IsModel, AllTrue
    <3>2. AllTrue(g, sx, {c})
      BY <2>4, <3>1, KeepsMore
    <3>3. QED
      BY <2>1, <2>2, <2>3, <3>2, RsReduceTrue
  <2> HIDE DEF r
  <2>5. Survive(f, g, db')
    BY <1>3, <2>4, GainSurvives DEF ModelsSurvive
  <2>6. QED
    BY <1>1, <2>5 DEF ModelsSurvive
<1>4. QED
  BY <1>2, <1>3, LoadGains

\* The reduct of a resolvent of two stored clauses.
LEMMA TrySurvives ==
    ASSUME ShapeInv, TryPartner, ModelsSurvive, NoTautology
    PROVE  ModelsSurvive'
<1> DEFINE c == db.clauses[given]
<1>1. f' = f /\ g' = g /\ PrefixOK(g)
  BY TryPartnerShape DEF TryPartner, Advance, ShapeInv, PrefixInv, IsFormula
<1>2. /\ c \in ClausesOver(g) /\ c \in db.seen /\ c \in Range(db.clauses)
      /\ Partner \in ClausesOver(g) /\ Partner \in db.seen /\ Partner \in Range(db.clauses)
      /\ TriedOn \in Int
  BY PartnerFacts, TryPartnerFacts DEF Range, Partner
<1>3. ~ IsTautology(c) /\ ~ IsTautology(Partner)
  BY <1>2 DEF NoTautology
<1>4. CASE TriedBefore
  BY <1>1, <1>4 DEF TriedBefore, ModelsSurvive
<1>5. CASE TriedNow
  <2>1. Tried = RsReduce(g, RsResolvent(c, Partner, TriedOn))
    BY DEF Tried
  <2>2. RsResolves(c, Partner, TriedOn) /\ Gains(g, db, db', Tried)
    BY <1>5 DEF TriedNow
  <2> HIDE DEF c
  <2>3. \A sx : AllTrue(g, sx, {c, Partner}) => AllTrue(g, sx, {Tried})
    BY <1>1, <1>2, <1>3, <2>1, <2>2, RsResolventFacts
  <2>4. \A sx : AllTrue(g, sx, db.seen) => AllTrue(g, sx, {c, Partner})
    BY <1>2 DEF AllTrue
  <2>5. Survive(f, g, db')
    BY <2>2, <2>3, <2>4, GainSurvives DEF ModelsSurvive
  <2>6. QED
    BY <1>1, <2>5 DEF ModelsSurvive
<1>6. QED
  BY <1>4, <1>5, TryPartnerFacts

\* The reducts of the two halves, with a table for the fresh variable.
LEMMA SplitSurvives ==
    ASSUME ShapeInv, ModelsSurvive, NoTautology,
           NEW c \in Range(db.clauses), NEW part, NEW c3, ForkOf(g, c, part, c3), SplitFacts(c, part, c3)
    PROVE  ModelsSurvive'
<1> DEFINE l == RsReduce(g', LeftHalf(g, part, c3))
           r == RsReduce(g', RightHalf(g, c, part, c3))
<1>1. f' = f /\ IsFormula(g) /\ Counted(g)
  BY SplitShape DEF Advance, ShapeInv, PrefixInv
<1>2. c \in ClausesOver(g) /\ c \in db.seen /\ ~ IsTautology(c)
  BY DEF ShapeInv, DbOK, NoTautology
<1>3. g' = Forked(g, c, part, c3)
  BY DEF SplitFacts
<1>4. PICK d : Gains(g', db, d, l) /\ Gains(g', d, db', r)
  BY DEF SplitFacts
<1>5. db'.seen = db.seen \cup {l, r}
  BY <1>4 DEF Gains
<1>6. ASSUME NEW sk \in SkolemTuples(f), IsModel(f, sk)
      PROVE  \E st \in SkolemTuples(g') : Keeps(f, sk, g', st) /\ AllTrue(g', st, db'.seen)
  <2>1. PICK sx \in SkolemTuples(g) : Keeps(f, sk, g, sx) /\ AllTrue(g, sx, db.seen)
    BY <1>6 DEF ModelsSurvive, Survive
  <2>2. AllTrue(g, sx, {c})
    BY <1>2, <2>1 DEF AllTrue
  <2>3. PICK st \in SkolemTuples(g') :
           /\ Keeps(g, sx, g', st)
           /\ AllTrue(g', st, {LeftHalf(g, part, c3), RightHalf(g, c, part, c3)})
    BY <1>1, <1>2, <1>3, <2>2, ForkExtends
  <2>4. AllTrue(g', st, {LeftHalf(g, part, c3)}) /\ AllTrue(g', st, {RightHalf(g, c, part, c3)})
    BY <2>3 DEF AllTrue
  <2>5. AllTrue(g', st, {l})
    BY <1>1, <1>2, <1>3, <2>4, HalvesReduce
  <2>6. AllTrue(g', st, {r})
    BY <1>1, <1>2, <1>3, <2>4, HalvesReduce
  <2>7. AllTrue(g', st, db.seen) /\ Keeps(f, sk, g', st)
    BY <2>1, <2>3, KeepsMore
  <2> HIDE DEF l, r
  <2>8. AllTrue(g', st, db'.seen)
    BY <1>5, <2>5, <2>6, <2>7 DEF AllTrue
  <2>9. QED
    BY <2>7, <2>8
<1>7. QED
  BY <1>1, <1>6 DEF ModelsSurvive, Survive

\* Where an UNSAT answer comes from, and what changes what was fed.
Sources ==
    /\ knownUnsat' => knownUnsat \/ ~ IsTrue(f)
    /\ result' = "UNSAT" => result = "UNSAT" \/ knownUnsat \/ ~ IsTrue(f) \/ {} \in db'.seen
    /\ UNCHANGED <<fed, fedUpto>> \/ NextSlice

\* These are the only sources of an UNSAT answer and of what is fed.
LEMMA NextSources ==
    ASSUME ShapeInv, [PipelineNext]_vars
    PROVE  Sources
<1>1. Truth[f] = IsTrue(f)
  BY TruthIsTrue
<1>2. CASE Loaded
  BY <1>2 DEF Sources, Loaded, Return
<1>3. CASE ExpandDecides \/ TimeOut \/ Saturated \/ GiveUp
  <2>1. UNCHANGED <<knownUnsat, fed, fedUpto, db>>
    BY <1>3 DEF ExpandDecides, TimeOut, Saturated, GiveUp, scheduling
  <2>2. result' = "UNSAT" => knownUnsat \/ ~ IsTrue(f)
    BY <1>1, <1>3 DEF ExpandDecides, TimeOut, Saturated, GiveUp, Return
  <2>3. QED
    BY <2>1, <2>2 DEF Sources
<1>4. CASE Expand \/ ExpandKnowsUnsat
  BY <1>1, <1>4 DEF Sources, Expand, ExpandKnowsUnsat, StartSaturate
<1>5. CASE PopTooLate \/ EndPass \/ ClauseDone \/ CutOff \/ ForkTooLate \/ NextPass \/ DeadlinePasses
  BY <1>5 DEF Sources, PopTooLate, EndPass, ClauseDone, CutOff, ForkTooLate, NextPass, DeadlinePasses, scheduling
<1>6. CASE LoadClause \/ NextLiteral \/ Pop
  BY <1>6 DEF Sources, LoadClause, NextLiteral, Pop, scheduling
<1>7. CASE TryPartner
  <2>1. UNCHANGED <<knownUnsat, fed, fedUpto>>
    BY <1>7 DEF TryPartner, scheduling
  <2>2. result' = "UNSAT" => result = "UNSAT" \/ {} \in db'.seen
    BY <1>7, TryPartnerFacts DEF TriedNow, Gains
  <2>3. QED
    BY <2>1, <2>2 DEF Sources
<1>8. CASE Fork \/ StrongFork
  <2>1. UNCHANGED <<knownUnsat, fed, fedUpto>>
    BY <1>8 DEF Fork, StrongFork, SplitClause, scheduling
  <2>2. result' = result
    BY <1>8, ForkFacts, StrongForkFacts DEF SplitFacts
  <2>3. QED
    BY <2>1, <2>2 DEF Sources
<1>9. CASE NextSlice
  BY <1>9 DEF Sources, NextSlice
<1>10. CASE UNCHANGED searchVars
  BY <1>10 DEF Sources, searchVars, scheduling
<1>11. QED
  BY <1>2, <1>3, <1>4, <1>5, <1>6, <1>7, <1>8, <1>9, <1>10, Steps DEF QuietStep

\* Every step excludes no model, as long as there is no tautology.
LEMMA NextSurvives ==
    ASSUME ShapeInv, [PipelineNext]_vars, ModelsSurvive, NoTautology
    PROVE  ModelsSurvive'
<1>1. f' = f
  BY NextShape DEF Advance
<1>2. CASE g' = g /\ db'.seen = db.seen
  BY <1>1, <1>2 DEF ModelsSurvive, Survive
<1>3. CASE QuietStep
  <2>1. UNCHANGED <<g, db>>
    BY <1>3 DEF QuietStep, Loaded, TimeOut, Expand, ExpandDecides, ExpandKnowsUnsat, PopTooLate, EndPass,
         ClauseDone, CutOff, ForkTooLate, NextPass, Saturated, GiveUp, DeadlinePasses, StartSaturate
  <2>2. QED
    BY <1>2, <2>1
<1>4. CASE NextLiteral \/ UNCHANGED searchVars
  BY <1>2, <1>4 DEF NextLiteral, searchVars
<1>5. CASE Pop
  <2>1. PICK i \in db.queue : db' = Popped(db, i) \/ db' = Taken(db, i)
    BY <1>5, PopFacts
  <2>2. db'.seen = db.seen
    BY <2>1, TakenFacts DEF ShapeInv
  <2>3. QED
    BY <1>2, <1>5, <2>2 DEF Pop
<1>6. CASE NextSlice
  BY <1>2, <1>6, NextSliceShape
<1>7. CASE LoadClause
  BY <1>7, LoadSurvives
<1>8. CASE TryPartner
  BY <1>8, TrySurvives
<1>9. CASE Fork
  BY <1>9, ForkFacts, SplitSurvives
<1>10. CASE StrongFork
  BY <1>10, StrongForkFacts, SplitSurvives
<1>11. QED
  BY <1>3, <1>4, <1>5, <1>6, <1>7, <1>8, <1>9, <1>10, Steps

\* A tautology stays where it is.
LEMMA TautologyBefore ==
    ASSUME Advance, NoTautology'
    PROVE  NoTautology
<1>1. ASSUME NEW i \in DOMAIN db.clauses PROVE ~ IsTautology(db.clauses[i])
  <2>1. i \in DOMAIN db'.clauses /\ db'.clauses[i] = db.clauses[i]
    BY DEF Advance, Kept
  <2>2. db'.clauses[i] \in Range(db'.clauses)
    BY <2>1 DEF Range
  <2>3. QED
    BY <2>1, <2>2 DEF NoTautology
<1>2. QED
  BY <1>1 DEF NoTautology, Range

\* Every step is sound as long as no tautology is stored.
LEMMA NextSound ==
    ASSUME ShapeInv, SoundInv, [PipelineNext]_vars
    PROVE  SoundInv'
<1>1. Advance /\ Sources
  BY NextShape, NextSources
<1>2. f' = f /\ (NoTautology' => NoTautology)
  BY <1>1, TautologyBefore DEF Advance
<1>3. NoTautology' => ModelsSurvive'
  BY <1>2, NextSurvives DEF SoundInv
<1>4. FedInv'
  <2>1. db.seen \subseteq db'.seen
    BY <1>1 DEF Advance, Kept
  <2>2. CASE UNCHANGED <<fed, fedUpto>>
    BY <1>2, <2>1, <2>2 DEF SoundInv, FedInv
  <2>3. CASE NextSlice
    <3>1. ASSUME NEW j \in fedUpto + 1..Len(db.clauses), Feedable(j)
          PROVE  db.clauses[j] \in db'.seen /\ \A l \in db.clauses[j] : Var(l) <= f.n_vars
      <4>1. j \in DOMAIN db.clauses
        BY DbFacts DEF ShapeInv, SoundInv, FedInv
      <4>2. db.clauses[j] \in db.seen
        BY <4>1, DbFacts DEF ShapeInv
      <4>3. QED
        BY <2>1, <3>1, <4>2 DEF Feedable
    <3>2. fedUpto' \in Nat
      BY <2>3, DbFacts DEF NextSlice, ShapeInv
    <3>3. QED
      BY <1>2, <2>1, <2>3, <3>1, <3>2 DEF SoundInv, FedInv, NextSlice
  <2>4. QED
    BY <1>1, <2>2, <2>3 DEF Sources
<1>5. AnswerInv'
  <2>1. knownUnsat' => ~ IsTrue(f)
    BY <1>1 DEF Sources, SoundInv, AnswerInv
  <2>2. ASSUME NoTautology', result' = "UNSAT"
        PROVE  ~ IsTrue(f)
    <3>1. CASE {} \in db'.seen
      <4>1. Survive(f', g', db')
        BY <1>3, <2>2 DEF ModelsSurvive
      <4>2. QED
        BY <1>2, <3>1, <4>1, EmptyRefutes
    <3>2. CASE result = "UNSAT" \/ knownUnsat \/ ~ IsTrue(f)
      BY <1>2, <2>2, <3>2 DEF SoundInv, AnswerInv
    <3>3. QED
      BY <1>1, <2>2, <3>1, <3>2 DEF Sources
  <2>3. QED
    BY <1>2, <2>1, <2>2 DEF AnswerInv
<1>6. QED
  BY <1>3, <1>4, <1>5 DEF SoundInv

\* Before anything was seen, every table is its own extension.
LEMMA InitSound ==
    ASSUME Init
    PROVE  SoundInv
<1>1. db.seen = {} /\ g = f /\ fed = {} /\ fedUpto = 0 /\ knownUnsat = FALSE /\ result = None
  BY DEF Init, EmptyDb
<1>2. \A sk : Keeps(f, sk, f, sk) /\ AllTrue(f, sk, {})
  BY DEF Keeps, AllTrue
<1>3. ModelsSurvive
  BY <1>1, <1>2 DEF ModelsSurvive, Survive
<1>4. result # "UNSAT"
  BY <1>1, NoneAssumption
<1>5. QED
  BY <1>1, <1>3, <1>4 DEF SoundInv, FedInv, AnswerInv

\* The pipeline keeps its shape and, without tautologies, is sound.
LEMMA SoundAlways == PipelineSpec => [](ShapeInv /\ SoundInv)
<1>1. InitPipeline => SoundInv
  BY InitSound DEF InitPipeline
<1>2. ShapeInv /\ SoundInv /\ [PipelineNext]_vars => SoundInv'
  BY NextSound
<1>3. QED
  BY <1>1, <1>2, ShapeAlways, PTL DEF PipelineSpec

\* What was fed is over the variables of the input: those of forks have higher numbers.
LEMMA FedOver ==
    ASSUME ShapeInv, FedInv, NEW c \in fed
    PROVE  c \in ClausesOver(f)
<1>1. c \in ClausesOver(g) /\ \A l \in c : Var(l) <= f.n_vars
  BY DEF FedInv, ShapeInv, DbOK
<1>2. f.n_vars \in Nat
  BY ProblemFacts DEF ShapeInv, PrefixInv, Counted
<1>3. ASSUME NEW l \in c PROVE l \in Int /\ IsDeclared(f, Var(l))
  <2>1. l \in Int /\ IsDeclared(g, Var(l)) /\ Var(l) <= f.n_vars /\ Var(l) \in Nat
    BY <1>1, VarFacts DEF ClausesOver
  <2>2. CASE IsUniversal(g, Var(l))
    BY <2>1, <2>2 DEF ShapeInv, PrefixInv, IsDeclared, IsUniversal
  <2>3. CASE IsExistential(g, Var(l))
    <3>1. ~ (Var(l) > f.n_vars)
      BY <1>2, <2>1
    <3>2. Var(l) \in DOMAIN f.dependencies
      BY <2>3, <3>1 DEF ShapeInv, PrefixInv, IsExistential
    <3>3. QED
      BY <2>1, <3>2 DEF IsDeclared, IsExistential
  <2>4. QED
    BY <2>1, <2>2, <2>3 DEF IsDeclared
<1>4. QED
  BY <1>3 DEF ClausesOver

\* An UNSAT answer is right as long as no tautology is stored.
THEOREM FrustUnsatSound == PipelineSpec => [](NoTautology => UnsatSound)
<1>1. ShapeInv /\ SoundInv => (NoTautology => UnsatSound)
  BY TruthIsTrue DEF SoundInv, AnswerInv, UnsatSound
<1>2. QED
  BY <1>1, SoundAlways, PTL

\* What saturation hands to the expansion holds for every Skolem function of the input,
\* as long as no tautology is stored.
THEOREM FrustFedIsImplied == PipelineSpec => [](NoTautology => FedIsImplied)
<1>1. ASSUME ShapeInv, SoundInv, NoTautology
      PROVE  FedIsImplied
  <2>1. Models[f] = {sk \in SkolemTuples(f) : IsModel(f, sk)}
    BY <1>1 DEF ShapeInv, PrefixInv, Models, f
  <2>2. PrefixOK(f) /\ PrefixOK(g)
    BY <1>1, ProblemFacts DEF ShapeInv, PrefixInv, IsFormula
  <2>3. ASSUME NEW sk \in SkolemTuples(f), IsModel(f, sk), NEW a \in Rows(f), NEW c \in fed
        PROVE  EvalClause(f, sk, a, c)
    <3>1. PICK sx \in SkolemTuples(g) : Keeps(f, sk, g, sx) /\ AllTrue(g, sx, db.seen)
      BY <1>1, <2>3 DEF SoundInv, ModelsSurvive, Survive
    <3>2. c \in db.seen /\ c \in ClausesOver(f)
      BY <1>1, FedOver DEF SoundInv, FedInv
    <3>3. a \in Rows(g)
      BY <1>1 DEF ShapeInv, PrefixInv, Rows
    <3>4. EvalClause(g, sx, a, c)
      BY <3>1, <3>2, <3>3 DEF AllTrue
    <3>5. QED
      BY <2>2, <3>1, <3>2, <3>4, KeptBack
  <2>4. QED
    BY <2>1, <2>3 DEF FedIsImplied
<1>2. ShapeInv /\ SoundInv => (NoTautology => FedIsImplied)
  BY <1>1
<1>3. QED
  BY <1>2, SoundAlways, PTL

-----------------------------------------------------------------------------
(* Where a tautology can come from.                                        *)

\* A clause that is gained without being a tautology adds none.
LEMMA GainNoTautology ==
    ASSUME NEW h, NEW d, NEW e, NEW c, Gains(h, d, e, c), ~ IsTautology(c),
           \A x \in Range(d.clauses) : ~ IsTautology(x)
    PROVE  \A x \in Range(e.clauses) : ~ IsTautology(x)
BY DEF Gains

\* A fork adds none, if no universal that both halves get clashes with the clause.
LEMMA SplitNoTautology ==
    ASSUME ShapeInv, NoTautology, NEW c \in Range(db.clauses), NEW part, NEW c3,
           ForkOf(g, c, part, c3), SplitFacts(c, part, c3), \A u \in c3 : -u \notin c
    PROVE  NoTautology'
<1>1. /\ IsFormula(g) /\ Counted(g) /\ c \in ClausesOver(g) /\ ~ IsTautology(c)
      /\ g' = Forked(g, c, part, c3)
  BY DEF ShapeInv, PrefixInv, DbOK, NoTautology, SplitFacts
<1>2. ASSUME NEW half \in {LeftHalf(g, part, c3), RightHalf(g, c, part, c3)}
      PROVE  ~ IsTautology(RsReduce(g', half))
  <2>1. SUFFICES ASSUME NEW l \in RsReduce(g', half), -l \in RsReduce(g', half) PROVE FALSE
    BY DEF IsTautology
  <2>2. l \in half /\ -l \in half
    BY <2>1 DEF RsReduce
  <2>3. \E u \in c3 : -u \in c
    BY <1>1, <2>2, HalvesClash
  <2>4. QED
    BY <2>3
<1>3. PICK d : /\ Gains(g', db, d, RsReduce(g', LeftHalf(g, part, c3)))
               /\ Gains(g', d, db', RsReduce(g', RightHalf(g, c, part, c3)))
  BY DEF SplitFacts
<1>4. \A x \in Range(d.clauses) : ~ IsTautology(x)
  BY <1>2, <1>3, GainNoTautology DEF NoTautology
<1>5. \A x \in Range(db'.clauses) : ~ IsTautology(x)
  BY <1>2, <1>3, <1>4, GainNoTautology
<1>6. QED
  BY <1>5 DEF NoTautology

\* The shared universal of a strong fork stands negated in the clause.
Clashes == -Shared \in StrongForked

\* No step stores a tautology, unless it is a strong fork that clashes.
LEMMA NextNoTautology ==
    ASSUME ShapeInv, NoTautology, [PipelineNext]_vars, [StrongFork => ~ Clashes]_vars
    PROVE  NoTautology'
<1>1. CASE db'.clauses = db.clauses
  BY <1>1 DEF NoTautology
<1>2. CASE QuietStep
  <2>1. UNCHANGED db
    BY <1>2 DEF QuietStep, Loaded, TimeOut, Expand, ExpandDecides, ExpandKnowsUnsat, PopTooLate, EndPass,
         ClauseDone, CutOff, ForkTooLate, NextPass, Saturated, GiveUp, DeadlinePasses, StartSaturate
  <2>2. QED
    BY <1>1, <2>1
<1>3. CASE NextLiteral \/ UNCHANGED searchVars
  BY <1>1, <1>3 DEF NextLiteral, searchVars
<1>4. CASE Pop
  BY <1>1, <1>4, PopFacts, TakenFacts DEF ShapeInv
<1>5. CASE NextSlice
  BY <1>1, <1>5, NextSliceShape
<1>6. CASE LoadClause
  <2>1. CASE db' = db
    BY <1>1, <2>1
  <2>2. CASE ~ IsTautology(Head(unread)) /\ Gains(g, db, db', RsReduce(g, Head(unread)))
    <3>1. ~ IsTautology(RsReduce(g, Head(unread)))
      BY <2>2 DEF RsReduce, IsTautology
    <3>2. QED
      BY <2>2, <3>1, GainNoTautology DEF NoTautology
  <2>3. QED
    BY <1>6, <2>1, <2>2, LoadGains
<1>7. CASE TryPartner
  <2>1. CASE TriedBefore
    BY <1>1, <2>1 DEF TriedBefore
  <2>2. CASE TriedNow
    <3>1. /\ db.clauses[given] \in ClausesOver(g) /\ Partner \in ClausesOver(g) /\ TriedOn \in Int
          /\ PrefixOK(g)
      BY <1>7, TryPartnerFacts, PartnerFacts DEF ShapeInv, PrefixInv, IsFormula
    <3>2. ~ IsTautology(Tried)
      BY <2>2, <3>1, RsResolventFacts DEF TriedNow, Tried
    <3>3. QED
      BY <2>2, <3>2, GainNoTautology DEF TriedNow, NoTautology
  <2>3. QED
    BY <1>7, <2>1, <2>2, TryPartnerFacts
<1>8. CASE Fork
  BY <1>8, ForkFacts, SplitNoTautology
<1>9. CASE StrongFork
  <2>1. PICK c, part, c3 :
           c \in Range(db.clauses) /\ ForkOf(g, c, part, c3) /\ SplitFacts(c, part, c3) /\ c = StrongForked /\ c3 = {Shared}
    BY <1>9, StrongForkFacts
  <2>2. ~ Clashes \/ UNCHANGED vars
    BY <1>9
  <2>3. CASE ~ Clashes
    <3>1. \A u \in c3 : -u \notin c
      BY <2>1, <2>3 DEF Clashes
    <3>2. QED
      BY <2>1, <3>1, SplitNoTautology
  <2>4. CASE UNCHANGED vars
    BY <1>1, <2>4 DEF vars, searchVars
  <2>5. QED
    BY <2>2, <2>3, <2>4
<1>10. QED
  BY <1>2, <1>3, <1>4, <1>5, <1>6, <1>7, <1>8, <1>9, Steps

\* Only a strong fork on a clause that has the shared universal negated puts a tautology
\* into the database: the input is screened, resolution and the plain fork make none.
THEOREM FrustTautologySource == PipelineSpec /\ [][StrongFork => ~ Clashes]_vars => []NoTautology
<1>1. InitPipeline => NoTautology
  BY DEF InitPipeline, Init, EmptyDb, NoTautology, Range
<1>2. ShapeInv /\ NoTautology /\ [PipelineNext]_vars /\ [StrongFork => ~ Clashes]_vars => NoTautology'
  BY NextNoTautology
<1>3. QED
  BY <1>1, <1>2, ShapeAlways, PTL DEF PipelineSpec

\* So without such a fork both are right throughout.
THEOREM FrustSoundWithoutClash ==
    PipelineSpec /\ [][StrongFork => ~ Clashes]_vars => [](UnsatSound /\ FedIsImplied)
BY FrustTautologySource, FrustUnsatSound, FrustFedIsImplied, PTL
=============================================================================
