-------------------------------- MODULE Dqbf --------------------------------
(***************************************************************************)
(* The formula every part of the repository works on (core/formula.py) and *)
(* its meaning by brute force (core/semantics.py).                         *)
(*                                                                         *)
(* A variable is a positive integer, a literal a non-zero integer whose    *)
(* sign is its polarity, a clause a set of literals.  A formula is a       *)
(* record; the order of its universals and of its clauses is never         *)
(* observed by the operators below, so both are sets.                      *)
(***************************************************************************)
EXTENDS Integers, FiniteSets

Var(lit) == IF lit < 0 THEN -lit ELSE lit

IsUniversal(f, v) == v \in f.universals

IsExistential(f, v) == v \in DOMAIN f.dependencies

\* A variable of the formula: one that is quantified.
IsDeclared(f, v) == IsUniversal(f, v) \/ IsExistential(f, v)

\* What Formula.__post_init__ demands of the prefix, for positive variables.
PrefixOK(f) ==
    /\ f.n_vars \in Nat
    /\ f.universals \subseteq Nat \ {0}
    /\ DOMAIN f.dependencies \subseteq Nat \ {0}
    /\ f.dependencies \in [DOMAIN f.dependencies -> SUBSET Int]
    /\ f.universals \cap DOMAIN f.dependencies = {}

\* A closed formula: the whole check, and "every variable ... is either
\* universal or existential".
IsFormula(f) ==
    /\ PrefixOK(f)
    /\ \A y \in DOMAIN f.dependencies : f.dependencies[y] \subseteq f.universals
    /\ f.clauses \subseteq SUBSET Int
    /\ \A c \in f.clauses : \A l \in c : Var(l) <= f.n_vars /\ IsDeclared(f, Var(l))

Dep(f, v) == IF IsExistential(f, v) THEN f.dependencies[v] ELSE {v}

ClauseDep(f, c) == UNION {Dep(f, Var(l)) : l \in c}

\* The dependencies of the existential literals of c alone.
ExDeps(f, c) == UNION {f.dependencies[Var(l)] : l \in {k \in c : IsExistential(f, Var(k))}}

AddExistential(f, y, deps) ==
    [n_vars       |-> IF y > f.n_vars THEN y ELSE f.n_vars,
     universals   |-> f.universals,
     dependencies |-> [z \in DOMAIN f.dependencies \cup {y} |->
                          IF z = y THEN deps ELSE f.dependencies[z]],
     clauses      |-> f.clauses]

WithClauses(f, clauses) ==
    [n_vars |-> f.n_vars, universals |-> f.universals,
     dependencies |-> f.dependencies, clauses |-> clauses]

IsTautology(c) == \E l \in c : l > 0 /\ -l \in c

\* resolve(c1, c2, pivot) for p = |pivot|: None unless the pivot clashes and the
\* resolvent is no tautology.  Nothing asks that the pivot be existential.
PivotsOn(c1, c2, p) == (p \in c1 /\ -p \in c2) \/ (-p \in c1 /\ p \in c2)

Resolvent(c1, c2, p) ==
    IF p \in c1 /\ -p \in c2
    THEN (c1 \ {p}) \cup (c2 \ {-p})
    ELSE (c2 \ {p}) \cup (c1 \ {-p})

Resolves(c1, c2, p) == PivotsOn(c1, c2, p) /\ ~ IsTautology(Resolvent(c1, c2, p))

-----------------------------------------------------------------------------
(* core/semantics.py: Skolem tables and rows.                              *)

Rows(f) == [f.universals -> BOOLEAN]

\* The key under which a row looks a table up: the row cut down to deps.
Key(a, deps) == [u \in deps \cap DOMAIN a |-> a[u]]

Tables(f, y) == [[f.dependencies[y] \cap f.universals -> BOOLEAN] -> BOOLEAN]

SkolemTuples(f) ==
    {sk \in [DOMAIN f.dependencies -> UNION {Tables(f, y) : y \in DOMAIN f.dependencies}] :
        \A y \in DOMAIN f.dependencies : sk[y] \in Tables(f, y)}

\* Literal l is true in row a under sk.  A literal on an undeclared variable,
\* which only a proof file can bring in, is never true.
LitTrue(f, sk, a, l) ==
    \/ IsUniversal(f, Var(l)) /\ (a[Var(l)] <=> l > 0)
    \/ IsExistential(f, Var(l)) /\ (sk[Var(l)][Key(a, f.dependencies[Var(l)])] <=> l > 0)

EvalClause(f, sk, a, c) == \E l \in c : LitTrue(f, sk, a, l)

\* verify_skolem: sk satisfies the matrix in every row.
IsModel(f, sk) == \A a \in Rows(f) : \A c \in f.clauses : EvalClause(f, sk, a, c)

\* is_true, without its budget.
IsTrue(f) == \E sk \in SkolemTuples(f) : IsModel(f, sk)
=============================================================================
