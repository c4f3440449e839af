----------------------------- MODULE FrustRules -----------------------------
(***************************************************************************)
(* provers/frust/src/rules.rs and bce.rs: the inference rules of frust and *)
(* the elimination of blocked clauses.  A clause is a sorted vector there: *)
(* where the order of its literals matters, it is that of the integers.    *)
(***************************************************************************)
EXTENDS Dqbf, FiniteSetsExt

\* resolve: the merge drops both literals of the pivot from both clauses.
RsResolvent(c1, c2, p) == (c1 \cup c2) \ {p, -p}

RsResolves(c1, c2, p) == PivotsOn(c1, c2, p) /\ ~ IsTautology(RsResolvent(c1, c2, p))

\* Mutant: the dependencies are not looked at.
RsReduceAll(f, c) == {l \in c : ~ IsUniversal(f, Var(l))}

\* universal_reduce, which does not ask whether -l is in the clause.
RsReduce(f, c) == {l \in c : ~ (IsUniversal(f, Var(l)) /\ Var(l) \notin ExDeps(f, c))}

ExLits(f, c) == {l \in c : IsExistential(f, Var(l))}

Nested(f, a, b) ==
    f.dependencies[a] \subseteq f.dependencies[b] \/ f.dependencies[b] \subseteq f.dependencies[a]

\* find_information_fork: the literals that come first in a pair of incomparable ones.
FirstOfFork(f, c) == {l \in ExLits(f, c) : \E k \in ExLits(f, c) : l < k /\ ~ Nested(f, Var(l), Var(k))}

\* A part of c: what variable a and the universals it depends on say of it.
PartOf(f, c, a) == {l \in c : Var(l) = a \/ Dep(f, Var(l)) \subseteq f.dependencies[a]}

Intersection(f, c, part) == ClauseDep(f, part) \cap ClauseDep(f, c \ part)

\* choose_fork: the part it splits off, and whether it forks at all.  With
\* requireShrink only if the fresh variable sees less than either side.
ForkPart(f, c) == PartOf(f, c, Var(Min(FirstOfFork(f, c))))

CanFork(f, c, requireShrink) ==
    /\ FirstOfFork(f, c) # {}
    /\ requireShrink =>
          LET part == ForkPart(f, c)
          IN  Intersection(f, c, part) \notin {ClauseDep(f, part), ClauseDep(f, c \ part)}

\* choose_sfork: an existential with the fewest dependencies, the first such.
Smallest(f, c) ==
    LET size(l) == Cardinality(f.dependencies[Var(l)])
    IN  Var(CHOOSE l \in ExLits(f, c) : \A k \in ExLits(f, c) :
                size(l) < size(k) \/ (size(l) = size(k) /\ l <= k))

CanStrongFork(f, c) ==
    /\ Cardinality(ExLits(f, c)) >= 2
    /\ LET a    == Smallest(f, c)
           part == PartOf(f, c, a)
           both == Intersection(f, c, part)
       IN  /\ part # c
           /\ both # {}
           /\ Cardinality(both) - 1 < Cardinality(f.dependencies[a])

-----------------------------------------------------------------------------
(* bce.rs                                                                  *)

\* dep_subset, by masks: a variable the prefix does not have has mask 0.
Mask(f, v) == IF IsExistential(f, v) THEN f.dependencies[v] ELSE {}

DepSubset(f, w, y) ==
    IF IsUniversal(f, w) THEN w \in f.dependencies[y] ELSE Mask(f, w) \subseteq Mask(f, y)

\* c is blocked on l: every partner has a literal that clashes with c elsewhere.
BlockedOn(f, live, c, l) ==
    \A d \in live \ {c} :
        -l \in d => \E q \in d : Var(q) # Var(l) /\ -q \in c /\ DepSubset(f, Var(q), Var(l))

Blocked(f, live, c) == \E l \in ExLits(f, c) : BlockedOn(f, live, c, l)

\* The queue of dqbf_bce checks a clause again when a partner is gone, and fewer
\* partners only block more: whatever the order, this is what is left.  Its budgets
\* (20 000 clauses, 200 000 steps) are out of reach of a model.
Unblocked(f, matrix) ==
    LET round[n \in 0..Cardinality(matrix)] ==
            IF n = 0 THEN matrix
            ELSE LET live == round[n - 1] IN {c \in live : ~ Blocked(f, live, c)}
    IN  round[Cardinality(matrix)]

\* hte_pass: the literals that the negation of c and the binary clauses contradict.
HiddenLits(live, c) ==
    LET pairs == {p \in UNION {d \X d : d \in {e \in live : Cardinality(e) = 2}} : p[1] # p[2]}
        ala[n \in 0..Cardinality(pairs)] ==
            IF n = 0 THEN c
            ELSE LET known == ala[n - 1] IN known \cup {-p[2] : p \in {q \in pairs : q[1] \in known}}
    IN  ala[Cardinality(pairs)]

HiddenTautology(live, c) ==
    /\ Cardinality(c) > 2
    /\ \E d \in live : Cardinality(d) = 2 /\ d \subseteq HiddenLits(live, c)

\* dqbf_bce
Bce(f, matrix) ==
    LET live == Unblocked(f, matrix)
    IN  {c \in live : ~ HiddenTautology(live, c)}
=============================================================================
