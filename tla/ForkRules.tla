----------------------------- MODULE ForkRules ------------------------------
(***************************************************************************)
(* provers/forkres/rules.py: the inference rules of fork resolution.       *)
(* Tautologies and resolution are in Dqbf.                                 *)
(***************************************************************************)
EXTENDS Dqbf, FiniteSetsExt

\* Mutant: only the other universals of the clause are asked to go first.
UniversalReduceAll(f, c) == {l \in c : ~ (IsUniversal(f, Var(l)) /\ -l \notin c)}

\* Exhaustive reduction.  The loop of the code is left after two passes: dropping
\* a universal literal changes neither the dependencies of the existential ones
\* nor, since l and -l are only ever kept together, who else may be dropped.
UniversalReduce(f, c) ==
    {l \in c : ~ (/\ IsUniversal(f, Var(l))
                  /\ Var(l) \notin ExDeps(f, c)
                  /\ -l \notin c)}

\* The variables that find_information_fork may return first for c: the order in
\* which it meets the literals of a set is arbitrary.
Incomparable(f, a, b) ==
    ~ (f.dependencies[a] \subseteq f.dependencies[b] \/ f.dependencies[b] \subseteq f.dependencies[a])

ForkVars(f, c) ==
    LET exs == {Var(l) : l \in {k \in c : IsExistential(f, Var(k))}}
    IN  {a \in exs : \E b \in exs : Incomparable(f, a, b)}

\* Mutant: the last variable of the formula is taken for a new one.
LastVar(f) == f.n_vars

\* fork_extend (c3 = {}) and strong_fork_extend: the formula with the fresh
\* variable, and the two clauses.
Fresh(f) == f.n_vars + 1

CommonDeps(f, c, part) == ClauseDep(f, part) \cap ClauseDep(f, c \ part)

ForkFormula(f, c, part, c3) ==
    AddExistential(f, Fresh(f), CommonDeps(f, c, part) \ {Var(l) : l \in c3})

LeftHalf(f, part, c3) == c3 \cup part \cup {Fresh(f)}

RightHalf(f, c, part, c3) == c3 \cup (c \ part) \cup {-Fresh(f)}
=============================================================================
