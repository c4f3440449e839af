------------------------------ MODULE MCFrust -------------------------------
(***************************************************************************)
(* Instances of FrustPipeline for TLC.                                     *)
(***************************************************************************)
EXTENDS FrustPipeline

\* Inputs over the universals 1 and 2 and those of 3(1), 4(2), 5(1, 2) that they use.
WithInput(input) ==
    [n_vars |-> 5, universals |-> {1, 2},
     dependencies |-> [y \in {v \in 3..5 : \E c \in Range(input) : v \in c \/ -v \in c} |->
                          CASE y = 3 -> {1} [] y = 4 -> {2} [] y = 5 -> {1, 2}],
     clauses |-> Range(input)]

Problem(input, expand, maxClauses, maxForks, n) ==
    [formula |-> WithInput(input), input |-> input, expand |-> expand,
     manyPartners |-> FALSE, maxClauses |-> maxClauses, maxForks |-> maxForks, slices |-> n]

\* True and false inputs: some are decided before the first slice, by elimination or
\* by reduction alone; most need forks, strong forks or several passes.
Inputs == {
    << >>,
    <<{-1, 3}, {1, -3}>>,
    <<{5}, {-2}>>,
    <<{1, -1}, {2, 3, 4}, {3}, {-3, -4}>>,
    <<{2, 4}, {-3, 4}, {-4, 2, 3}>>,
    <<{-4, -3}, {2, 3, 4}, {3}>>,
    <<{-4, -1, 3}, {-4, -3}, {3, 4}>>,
    <<{-5, -3, 2}, {-1, 5}, {-1, 3}>>,
    <<{-4, -1, 5}, {4, 5}, {-5}>>,
    <<{-4, 2}, {1, 4, 5}, {-5, 2}>>,
    <<{-5, -4}, {2, 5}, {-2, 4}>> }

\* These are interrupted and pruned in between.
Resumed == {
    <<{-3, 2}, {-3, -2, 4}, {3, 4}, {-4}>>,
    <<{-3, -2, 4}, {-4}, {-4, 3}>>,
    <<{-4, 2}, {4, 5}, {-5, 1, 4}>>,
    <<{-4, -3, -2, 5}, {-2, 1, 3, 4}, {-5, -3}, {-4}>>,
    <<{-1, 5}, {-5, -3}, {-4, -1, 3}, {-5, -1, 4}>> }

\* Expansion knows, and saturation looks for the proof.
Known == {
    <<{-5, 2, 4}, {-3, -2, 1}, {3, 5}, {-5, -4}>>,
    <<{-4}, {-3, 1, 4}, {-2, 1, 3, 4}>>,
    <<{3, 4}, {-4, -1}, {-3, -2, 4, 5}, {-5}>>,
    <<{1, -3}, {-1, 3}, {3, 4}>> }

\* False because 3 and 4 see different universals.
Parity == <<{-1, -2, 3, 4}, {-1, -2, -3, -4}, {1, 3, -4}, {1, -3, 4}, {2, 3, -4}, {2, -3, 4}>>

MCProblems ==
    {Problem(input, FALSE, 25, 3, 1) : input \in Inputs}
    \cup {Problem(input, FALSE, 25, 3, 2) : input \in Resumed}
    \cup {Problem(input, TRUE, 12, 3, 2) : input \in Known}
    \cup {Problem(Parity, FALSE, 40, 2, 1)}
    \cup {[Problem(<<{-4, -1, 3}, {-4, -3}, {3, 4}>>, FALSE, 25, 3, 2) EXCEPT !.manyPartners = TRUE]}

\* The inner loop looks at the clock and finds that the time is over.
CutProblems ==
    {[Problem(<<{-3, 1, 2}, {1, 3}>>, FALSE, 25, 3, 2) EXCEPT !.manyPartners = TRUE]}

\* A strong fork on a clause with -1 adds 1 to both halves: one is a tautology, which
\* is resolved with itself.
StrongInput ==
    <<{-3, -1, 5}, {-5, -3, 1}, {-1, 3}, {-4, 5}, {-3, -2, 1, 4}, {3, 4}, {-4, -1, 3}, {-3, 1, 4, 5},
      {-4, -1, 2}, {-5, -4, -1, 2}>>

TautProblems ==
    {[Problem(StrongInput, FALSE, 80, 2, 1) EXCEPT
        !.formula.dependencies = [y \in 3..5 |-> IF y = 5 THEN {1, 2} ELSE {1}]]}
=============================================================================
