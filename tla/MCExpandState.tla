--------------------------- MODULE MCExpandState ---------------------------
(***************************************************************************)
(* Instances of ExpandState for TLC.                                       *)
(***************************************************************************)
EXTENDS ExpandState

\* Formulas over 3(1), 4(2) and the universals 1 and 2.
WithMatrix(m) == [n_vars |-> 4, universals |-> {1, 2},
                  dependencies |-> [y \in {3, 4} |-> IF y = 3 THEN {1} ELSE {2}],
                  clauses |-> m]

\* True, but the free pass can hardly guess it.
Xor == {{3, 4}, {-3, -4}}
\* 3 copies 1 (true) and 3 copies 2 (false).
Copies == {{-1, 3}, {1, -3}}
WrongDep == {{-2, 3}, {2, -3}}
\* False in one row.
RowFalse == {{-1, 3}, {-1, -3, -2}}
\* False because 3 and 4 see different universals; every row has models.
Parity == {{-1, -2, 3, 4}, {-1, -2, -3, -4}, {1, 3, -4}, {1, -3, 4}, {2, 3, -4}, {2, -3, 4}}

Scenario(fm, budget, rows, cegis, fuzz, n) ==
    [formula |-> fm, budgetHits |-> budget, batchRows |-> rows, cegisRows |-> cegis,
     fuzzRows |-> fuzz, cells |-> 0, widest |-> 0, trust |-> TRUE, slices |-> n]

Slot(m, budget, rows, n) == Scenario(WithMatrix(m), budget, rows, 0, 4, n)

\* Outer existentials 5 and 6, and 7, which sees 1 and 2 and is not there in Wide.
Outer2(m) == [n_vars |-> 7, universals |-> {1, 2},
              dependencies |-> [y \in {5, 6, 7} |-> IF y = 7 THEN {1, 2} ELSE {}],
              clauses |-> m]
\* 7 is 1 if 5, and 2 if not 5; only 5 and not 6 will do in every row.
Select == {{-5, -1, 7}, {-5, 1, -7}, {5, -2, 7}, {5, 2, -7}, {-2, 5, -7}, {2, 5, 7}, {-6, 1, 7}}
\* Each choice is refuted by a row of its own.
EachRefuted == {{1, 2, 5, 6, 7}, {1, 2, 5, 6, -7}, {1, -2, 5, -6, 7}, {1, -2, 5, -6, -7},
                {-1, 2, -5, 6, 7}, {-1, 2, -5, 6, -7}, {-1, -2, -5, -6, 7}, {-1, -2, -5, -6, -7}}
\* One row is false whatever is chosen, and its copy is left out.
RowEmpty == {{1, 2}, {5, 6, 7}}
\* 5 alone refutes rows, 6 does not matter.
Refuted5 == {{-5, 1, 7}, {-5, 1, -7}, {5, 2, 7}, {6, -2, 7}}

Wide(m) == [n_vars |-> 6, universals |-> {1, 2, 3},
            dependencies |-> [y \in {5, 6} |-> IF y = 5 THEN {} ELSE {1, 2, 3}], clauses |-> m]
Wide3 == {{-5, -1, 2, 6}, {-5, -1, 2, -6}, {5, 3, 6}, {3, -6}}
WideTrue == {{-5, -1, 2, 6}, {-5, -1, 2, -6}, {5, 3, 6}, {-3, -6}}

\* Copies for none, one or all of the rows; rows at random or not; undecided rows.
OuterScenarios ==
    {Scenario(Outer2(Select), FALSE, 4, cegis, 4, 1) : cegis \in {0, 4}}
    \cup {Scenario(Outer2(EachRefuted), FALSE, 4, cegis, 4, 0) : cegis \in {0, 4}}
    \cup {Scenario(Outer2(m), FALSE, 4, 1, 2, 1) : m \in {Select, RowEmpty, Refuted5}}
    \cup {Scenario(Outer2(Select), TRUE, 4, 2, 2, 0), Scenario(Outer2(RowEmpty), TRUE, 4, 2, 4, 0)}

\* Three universals, of which the existentials see two and one: only partial rows
\* are solved.
Narrow(m) == [n_vars |-> 6, universals |-> {1, 2, 3},
              dependencies |-> [y \in {5, 6} |-> IF y = 5 THEN {1, 2} ELSE {3}], clauses |-> m]
PartialScenarios ==
    {Scenario(Narrow(m), b, 4, 0, 4, 2) :
        m \in {{{-1, 5}, {-1, -5, -3}}, {{-1, -3, 5}, {-1, -5}}, {{1, 5}, {1, 6, -5}, {-3, 6}},
               {{-3, 1, 6}, {-3, 1, -6}, {1, 2, 3, 5}}},
        b \in BOOLEAN}

\* Definability: at most cells cells, for tables over at most widest universals.
Arb(fm, budget, cells, widest, trust, n) ==
    [Scenario(fm, budget, 4, 0, 4, n) EXCEPT !.cells = cells, !.widest = widest, !.trust = trust]

\* Both existentials are their argument.
Own == {{-1, 3}, {1, -3}, {-2, 4}, {2, -4}}
\* They are equal where the arguments are.
Coupled(m) == m \cup {{1, 2, -3, 4}, {1, 2, 3, -4}, {-1, -2, -3, 4}, {-1, -2, 3, -4}}
\* True, but not with equal values in all rows.
Apart == Coupled({{-1, 3}, {2, -4}})
\* A cell for both whole tables is 0 in every row.
NotBoth == Coupled({{-3, -4}})
\* One existential has an argument, one has none.
OneXor == [n_vars |-> 4, universals |-> {1, 2},
           dependencies |-> [y \in {3, 4} |-> IF y = 3 THEN {1} ELSE {}],
           clauses |-> {{3, 4}, {-3, -4}}]
\* 4 has one value, and may get the other one first.
OneSided == [OneXor EXCEPT !.clauses = @ \cup {{-1, 3}}]
\* 3 sees both universals.
Sees2(m) == [n_vars |-> 4, universals |-> {1, 2},
             dependencies |-> [y \in {3, 4} |-> IF y = 3 THEN {1, 2} ELSE {1}], clauses |-> m]
\* 4 is 1; 3 is determined by its arguments, but no value is right if 2 and not 1.
NoValue == {{4}, {1, 3}, {-2, -3}, {-1, 2, 3}}

\* Tables in full or not, enough cells or not; interpolants for all or not.
DefScenarios ==
    {Arb(WithMatrix(m), FALSE, 8, 2, TRUE, 0) : m \in {Parity, RowFalse, Own}}
    \cup {Arb(WithMatrix(m), FALSE, 8, 2, TRUE, 1) : m \in {Copies, Coupled({})}}
    \cup {Arb(WithMatrix(m), FALSE, 8, 0, TRUE, 0) : m \in {Xor, Apart, NotBoth}}
    \cup {Arb(WithMatrix(m), TRUE, 8, 2, TRUE, 0) : m \in {Copies, RowFalse}}
    \cup {Arb(WithMatrix(Apart), FALSE, 8, 0, FALSE, 0), Arb(WithMatrix(Xor), FALSE, 2, 2, TRUE, 0),
           Arb(OneXor, FALSE, 8, 2, TRUE, 0), Arb(OneXor, TRUE, 8, 2, TRUE, 0),
           Arb(OneSided, TRUE, 8, 2, TRUE, 0),
           Arb(Sees2({{1, 3}, {-1, -3}, {3, 4}}), TRUE, 8, 2, TRUE, 0),
           Arb(Sees2(NoValue), TRUE, 2, 0, TRUE, 0),
           Arb(Sees2({{1, 3}, {-1, 2, -3}}), FALSE, 8, 1, TRUE, 0),
           Arb(WithMatrix({{4}, {-4}, {-1, 3}}), FALSE, 8, 2, TRUE, 0),
           Arb(Narrow({{-1, 5}, {-1, -5, -3}}), FALSE, 16, 0, TRUE, 0)}

\* Time runs out, in a batch or not, or the SAT solver does.
MCScenarios ==
    {Slot(m, FALSE, 4, 1) : m \in {Xor, Copies, WrongDep, RowFalse}}
    \cup {Slot(m, FALSE, 3, 2) : m \in {Xor, WrongDep}}
    \cup {Slot(m, TRUE, 4, 0) : m \in {Xor, WrongDep}}
    \cup {Slot(Parity, FALSE, 4, 0)}
    \cup OuterScenarios
    \cup {Scenario(Wide(m), FALSE, 4, cegis, 8, 2) : m \in {Wide3, WideTrue}, cegis \in {0, 2, 8}}
    \cup PartialScenarios
    \cup DefScenarios

MCLevels == <<1, 2, 4>>

\* Both do.
BothScenarios == {Slot(Xor, TRUE, 4, 1)}

\* One cell for the tables of two partners.
LinkScenarios == {Arb(WithMatrix(Apart), FALSE, 8, 0, TRUE, 0)}
=============================================================================
