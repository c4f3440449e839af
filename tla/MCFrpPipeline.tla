--------------------------- MODULE MCFrpPipeline ----------------------------
(***************************************************************************)
(* Instances of FrpPipeline for TLC.                                       *)
(***************************************************************************)
EXTENDS FrpPipeline

\* Formulas over the universals 1 and 2 with 3(1) and 4(2), and with 5(1, 2).
Deps == [y \in {3, 4, 5} |-> CASE y = 3 -> {1} [] y = 4 -> {2} [] y = 5 -> {1, 2}]

WithMatrix(n, m) == [n_vars |-> n, universals |-> {1, 2},
                     dependencies |-> [y \in 3..n |-> Deps[y]], clauses |-> m]

Problem(n, m, maxClauses, maxForks, anyOrder) ==
    [formula |-> WithMatrix(n, m), maxClauses |-> maxClauses, maxForks |-> maxForks,
     anyOrder |-> anyOrder]

\* 3 copies 1: true.
Copy == {{-1, 3}, {1, -3}}
\* 3 would have to copy 2: false, by resolution and reduction alone.
WrongDep == {{-2, 3}, {2, -3}}
\* Two forks in a row, each of which resolution undoes: true, never decided.
Split == {{3, 4}, {-3, -4}}
\* False only because 3 and 4 see different universals: needs a fork.
Parity == {{-1, -2, 3, 4}, {-1, -2, -3, -4}, {1, 3, -4}, {1, -3, 4}, {2, 3, -4}, {2, -3, 4}}
\* A strong fork whose left half is a tautology: the parent is gone for good.
Strong == {{-5, -4, -3, -2}, {1, -3}}

\* Every matrix of up to three clauses of a pool that mixes copies, clashes, forks
\* and clauses of universals only.
Pool == {{-1, 3}, {1, -3}, {2, -4}, {-2, 3, 4}, {1, -2}, {3, 4, 5}, {-3, -5}, {-1, 4, -5}, {-4}, {2, 5}}

Small == {m \in SUBSET Pool : Cardinality(m) <= 3}

Chosen == {
    Problem(4, {}, 10, 2, TRUE),
    Problem(4, {{1, -1}, {3, 1}}, 10, 2, TRUE),
    Problem(4, {{1, -2}, {-1, 3}}, 10, 2, TRUE),
    Problem(4, Copy, 10, 2, TRUE),
    Problem(4, WrongDep, 10, 2, TRUE),
    Problem(4, {{3, 4}, {-3}}, 10, 2, TRUE),
    Problem(4, {{-1, 3, 4}}, 10, 1, TRUE),
    Problem(4, {{1, 3, 4}}, 10, 3, TRUE),
    Problem(4, Split, 12, 2, FALSE),
    Problem(4, Parity, 12, 2, FALSE),
    Problem(4, Parity, 40, 2, FALSE),
    Problem(5, Strong, 10, 2, TRUE) }

MCProblems == Chosen \cup {Problem(5, m, 20, 2, FALSE) : m \in Small}
=============================================================================
