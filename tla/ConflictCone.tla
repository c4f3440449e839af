---------------------------- MODULE ConflictCone ----------------------------
(***************************************************************************)
(* experiments/cdcl_multi_learn/conflict_analysis.py: what can be learned  *)
(* from one conflict, and the hooks that choose from it.  A cone is a      *)
(* record with the fields of the class ConflictCone: the conflict clause,  *)
(* the reasons (a function from current-level trail literals to clauses),  *)
(* the decision, the seeds, the frontier (lower levels), the roots (level  *)
(* 0) and the order of the current-level literals on the trail.  Clauses   *)
(* are sets of literals; they become tuples where they are learned.        *)
(***************************************************************************)
EXTENDS CnfGenerators, Functions

Neg(S) == {-l : l \in S}
Vars(C) == {Var(l) : l \in UNION C}

\* The numbers of S in increasing order, and the entries of s at these places.
Ascending(S) == [k \in 1 .. Cardinality(S) |-> CHOOSE i \in S : Cardinality({j \in S : j < i}) = k - 1]
Select(s, S) == LET at == Ascending(S) IN [k \in DOMAIN at |-> s[at[k]]]

\* sorted(c, key=abs): the literals of a clause in the order of their variables.
Key(l) == IF l > 0 THEN 2 * l ELSE 1 - 2 * l
Tuple(c) ==
    LET keys == Ascending({Key(l) : l \in c})
    IN  [i \in DOMAIN keys |-> CHOOSE l \in c : Key(l) = keys[i]]

ConeClauses(cone) == {cone.conflict} \union Range(cone.reasons)
Current(cone) == DOMAIN cone.reasons \union {cone.decision}
Latest(cone, S) == CHOOSE t \in S : \A u \in S :
                      \E i, j \in 1 .. Len(cone.order) : cone.order[i] = u /\ cone.order[j] = t /\ i <= j

\* Every clause without its root literals, those that a root makes true left out.
WithoutRoots(cone, c) == c \ Neg(cone.roots)
Kernel(cone) == {WithoutRoots(cone, c) : c \in {d \in ConeClauses(cone) : d \intersect cone.roots = {}}}

----------------------------------------------------------------------------
\* all_uip_cuts: resolve the current-level literals away, the latest first, and
\* stop wherever one is left.
Widen(cone, s, lits) ==
    LET new == WithoutRoots(cone, lits)
    IN  [s EXCEPT !.pending = @ \union {t \in Neg(new) : t \in Current(cone)},
                  !.learned = @ \union {l \in new : -l \notin Current(cone)}]

SweepStep(cone, s) ==
    LET t == Latest(cone, s.pending)
        s1 == IF Cardinality(s.pending) > 1 THEN s
              ELSE [s EXCEPT !.out = Append(@, [uip |-> t, clause |-> s.learned \union {-t}])]
        s2 == [s1 EXCEPT !.pending = @ \ {t}]
    IN  IF t \in DOMAIN cone.reasons THEN Widen(cone, s2, cone.reasons[t] \ {t})
        ELSE [s2 EXCEPT !.pending = {}]

Sweep(cone) ==
    LET start == Widen(cone, [learned |-> {}, pending |-> {}, out |-> <<>>], cone.conflict)
        step[i \in 0 .. Len(cone.order)] ==
            IF i = 0 THEN start
            ELSE LET s == step[i-1] IN IF s.pending = {} THEN s ELSE SweepStep(cone, s)
    IN  step

UipCuts(cone) == Sweep(cone)[Len(cone.order)].out

\* enumerate_cuts, without the cap: all that is reached by resolving on one
\* current-level literal after the other, in any order.
\* Mutant: the literal resolved on stays.
ResolventKept(cone, cl, t) == cl \union WithoutRoots(cone, cone.reasons[t] \ {t})

Resolvent(cone, cl, t) == (cl \ {-t}) \union WithoutRoots(cone, cone.reasons[t] \ {t})

Cuts(cone) ==
    LET lits == UNION ConeClauses(cone)
        Below(S) == {Resolvent(cone, x[1], x[2]) :
                        x \in {y \in S \X DOMAIN cone.reasons : -y[2] \in y[1]}}
        close[S \in SUBSET SUBSET lits] ==
            LET T == S \union {c \in Below(S) : \A l \in c : -l \notin c}
            IN  IF T = S THEN S ELSE close[T]
    IN  close[{WithoutRoots(cone, cone.conflict)}]

FilterSubsumed(C) == {c \in C : \A d \in C : d \subseteq c => d = c}

----------------------------------------------------------------------------
\* _cone_topology.
Antecedents(cone, t) ==
    IF t \in DOMAIN cone.reasons THEN Neg(cone.reasons[t] \ {t}) \intersect Current(cone) ELSE {}
Sharing(cone) ==
    Cardinality({t \in Current(cone) :
        Cardinality({u \in Current(cone) : t \in Antecedents(cone, u)}) > 1})
Width(cone) ==
    LET s == Sweep(cone) IN Max({Cardinality(s[i].pending) : i \in DOMAIN s})
Depth(cone) ==
    LET depth[t \in Current(cone)] == 1 + Max({0} \union {depth[u] : u \in Antecedents(cone, t)})
    IN  Max(Range(depth))

\* classify_cone.
VarsChain(C) ==
    LET close[S \in SUBSET C] ==
            LET T == {c \in C : \E d \in S : Vars({c}) \intersect Vars({d}) # {}}
            IN  IF T = S THEN S ELSE close[T]
    IN  close[{CHOOSE c \in C : TRUE}] = C

Classify(cone) ==
    LET C == ConeClauses(cone)
        n == Cardinality(C)
        n2 == Cardinality({c \in C : Cardinality(c) = 2})
        n3 == Cardinality({c \in C : Cardinality(c) = 3})
        nw == Cardinality({c \in C : Cardinality(c) > 3})
        pos == FoldSet(LAMBDA c, s : s + Cardinality({l \in c : l > 0}), 0, C)
        neg == FoldSet(LAMBDA c, s : s + Cardinality({l \in c : l < 0}), 0, C)
    IN  CASE 10 * n3 >= 8 * n /\ nw = 0 /\ n >= 2 /\ VarsChain(C) -> "xor"
          [] n2 = n /\ n >= 2 -> "eq"
          [] 10 * n2 >= 6 * n /\ nw <= 1 /\ n >= 3 -> "card"
          [] 4 * Max({pos, neg}) > 3 * (pos + neg) -> "and_or"
          [] OTHER -> "unstructured"

----------------------------------------------------------------------------
\* cone_prime_implicates: Quine and McCluskey, with clauses for cubes.  The
\* full clauses that exclude one assignment each are merged as long as two
\* differ in the sign of one literal; what merges with nothing is prime.
Satisfying(C) == {A \in SUBSET Vars(C) : \A c \in C : \E l \in c : Holds(l, A)}
Excluding(V, A) == {IF v \in A THEN -v ELSE v : v \in V}
Flip(c, l) == (c \ {l}) \union {-l}

PrimesOf(full, V) ==
    LET level[i \in 0 .. Cardinality(V)] ==
            IF i = 0 THEN full
            ELSE LET S == level[i-1]
                 IN  UNION {{c \ {l} : l \in {x \in c : Flip(c, x) \in S}} : c \in S}
        Kept(S) == {c \in S : \A l \in c : Flip(c, l) \notin S}
    IN  UNION {Kept(level[i]) : i \in DOMAIN level}

PrimeImplicates(cone) ==
    LET V == Vars(Kernel(cone))
        blocked == SUBSET V \ Satisfying(Kernel(cone))
        trail == cone.frontier \union Current(cone)
    IN  FilterSubsumed({c \in PrimesOf({Excluding(V, A) : A \in blocked}, V) : c \subseteq Neg(trail)})

----------------------------------------------------------------------------
\* MultiLearn: the 1-UIP clause and the k - 1 shortest of the other cuts.
\* The search for cuts stops at 4k of them; when there are more, any k - 1 or
\* fewer may come of it.
Shortest(S, m) ==
    {R \in SUBSET S : /\ Cardinality(R) = Min({m, Cardinality(S)})
                      /\ \A c \in R, d \in S \ R : Cardinality(c) <= Cardinality(d)}

ByLength(R) == {q \in SetToSeqs(R) : \A i, j \in DOMAIN q : i < j => Cardinality(q[i]) <= Cardinality(q[j])}

MultiLearn(k, h, cone, uip) ==
    LET cuts == Cuts(cone)
        picks == IF Cardinality(cuts) <= 4 * k THEN Shortest(FilterSubsumed(cuts) \ {uip}, k - 1)
                 ELSE UNION {kSubset(j, cuts \ {uip}) : j \in 0 .. k - 1}
    IN  IF k <= 1 THEN {[learn |-> <<Tuple(uip)>>, hook |-> h]}
        ELSE {[learn |-> <<Tuple(uip)>> \o [i \in DOMAIN q |-> Tuple(q[i])], hook |-> h] :
                 q \in UNION {ByLength(R) : R \in picks}}

\* ExtLearn: name a pair of frontier literals that occurs in a clause of some
\* cone so far.  The code counts how often, takes the pair that occurs most
\* often, and none below m.min_pair_freq.  Here it is any pair, and any pair
\* may be below a limit that is more than 1.  The state of the hook is the
\* pairs, the gates and the next free variable; m is its parameters.
PairsIn(C) == UNION {{Neg({x[1], x[2]}) : x \in {y \in c \X c : y[1] # y[2]}} : c \in C}

\* Mutant: z or one of a and b, instead of z unless one of them is false.
ExtDefinitionOr(z, a, b) == << <<-z, a>>, <<-z, b>>, <<z, a, b>> >>

ExtDefinition(z, a, b) == << <<-z, a>>, <<-z, b>>, <<z, -a, -b>> >>

Put(gates, p, z) == [q \in DOMAIN gates \union {p} |-> IF q = p THEN z ELSE gates[q]]

ExtLearn(m, h, cone, uip) ==
    LET seen == [h EXCEPT !.pairs = @ \union PairsIn(ConeClauses(cone))]
        candidates == uip \intersect Neg(cone.frontier)
        best == {p \in seen.pairs : Neg(p) \subseteq candidates}
        tooRare == best = {} \/ m.min_pair_freq > 1
        Shortened(p, z) == Tuple((uip \ Neg(p)) \union {-z})
        Named(p) ==
            LET ab == Tuple(p)
            IN  [learn |-> <<Shortened(p, h.next)>> \o ExtDefinition(h.next, ab[1], ab[2]),
                 hook  |-> [seen EXCEPT !.next = @ + 1, !.gates = Put(@, p, h.next)]]
    IN  IF (m.structured /\ Classify(cone) = "unstructured") \/ Cardinality(uip) < 4
        THEN {[learn |-> <<Tuple(uip)>>, hook |-> h]}
        ELSE (IF tooRare THEN {[learn |-> <<Tuple(uip)>>, hook |-> seen]} ELSE {}) \union
             {IF p \in DOMAIN seen.gates
              THEN [learn |-> <<Shortened(p, seen.gates[p])>>, hook |-> seen]
              ELSE Named(p) : p \in best}

----------------------------------------------------------------------------
\* detect_input_xor_clauses: all four clauses of a parity over three variables.
Negatives(c) == Cardinality({l \in c : l < 0})

InputXors(clauses) ==
    {c \in clauses : /\ Cardinality(c) = 3
                     /\ Cardinality({d \in clauses : /\ Cardinality(d) = 3
                                                     /\ Vars({d}) = Vars({c})
                                                     /\ Negatives(d) % 2 = Negatives(c) % 2}) = 4}

\* _cone_parity: the sum of the gates, where a clause with an even number of
\* negative literals stands for an odd sum.  Detected offline, the clauses must
\* be clauses of the input, otherwise they must be ternary without the roots.
NoParity == [vars |-> {}, parity |-> 0]

ConeParity(offline, xors, cone) ==
    LET C == ConeClauses(cone)
        Rest(c) == IF offline THEN c ELSE WithoutRoots(cone, c)
        gates == IF offline THEN C ELSE {c \in C : c \intersect cone.roots = {}}
        odd == {v \in Vars(C) : Cardinality({c \in gates : v \in Vars({Rest(c)})}) % 2 = 1}
        even == Cardinality({c \in gates : Negatives(Rest(c)) % 2 = 0})
        rooted == odd \intersect Vars({cone.roots})
        isGate(c) == IF offline THEN c \in xors ELSE Cardinality(Rest(c)) = 3
    IN  IF odd = {} \/ \E c \in gates : ~isGate(c) THEN NoParity
        ELSE [vars |-> odd \ rooted,
              parity |-> (even + Cardinality(rooted \intersect cone.roots)) % 2]

\* Cones of more than 14 variables are not verified.
EntailsParity(cone, V, p) ==
    /\ Cardinality(Vars(Kernel(cone))) <= 14
    /\ \A A \in Satisfying(Kernel(cone)) : Cardinality(V \intersect A) % 2 = p

\* The sum of vars is p, as gates over fresh variables.
EncodeXorChain(vars, p, fresh) ==
    LET Gate(z, a, b) == << <<-z, a, b>>, <<-z, -a, -b>>, <<z, -a, b>>, <<z, a, -b>> >>
        n == Len(vars)
        Prev(i) == IF i = 1 THEN vars[1] ELSE fresh + i - 2
        Chain(i) == Gate(fresh + i - 1, Prev(i), vars[i + 1])
        a == Prev(n - 1)
        b == vars[n]
    IN  [j \in 1 .. 4 * (n - 2) |-> Chain((j + 3) \div 4)[((j - 1) % 4) + 1]]
          \o (IF p = 1 THEN << <<a, b>>, <<-a, -b>> >> ELSE << <<a, -b>>, <<-a, b>> >>)

XorLearn(offline, xors, h, cone, uip) ==
    LET q == ConeParity(offline, xors, cone)
        m == Cardinality(q.vars)
    IN  IF m < 2 \/ m > 10 \/ (~offline /\ ~EntailsParity(cone, q.vars, q.parity))
        THEN {[learn |-> <<Tuple(uip)>>, hook |-> h]}
        ELSE {[learn |-> <<Tuple(uip)>> \o EncodeXorChain(Tuple(q.vars), q.parity, h.next),
               hook |-> [h EXCEPT !.next = @ + m - 2]]}
=============================================================================
