------------------------------- MODULE MCCdcl -------------------------------
EXTENDS Cdcl

Plain == [kind |-> "none"]
Multi(k) == [kind |-> "multi", k |-> k]
Ext(b, n) == [kind |-> "ext", structured |-> b, min_pair_freq |-> n]
Xor(b) == [kind |-> "xor", offline |-> b]

Instance(fs, hooks, budgets) ==
    {[n |-> f.n, cls |-> f.cls, hook |-> h, budget |-> b] : f \in fs, h \in hooks, b \in budgets}

\* Five parities over nine variables.
Parities ==
    With(Inputs(9), XorClauses(-1, 6, 8) \o XorClauses(-7, 5, 2) \o XorClauses(9, 4, 7)
                      \o XorClauses(-8, 5, 3) \o XorClauses(4, 9, 6))

\* A formula without its last clause or two is satisfiable.
Dropped(f, k) == [f EXCEPT !.cls = SubSeq(@, 1, Len(@) - k)]

\* On five variables ExtLearn names a pair and meets it again; with a limit on how
\* often a pair must occur it may also pass it by (ext1 and ext4 of the experiment).
Shared ==
    With(Inputs(5), << {-2, -3, 4}, {1, 2, -4, 5}, {1, 4, -5}, {1, -3, 4}, {1, 2, 3, 4, 5},
                       {-2, -3, 4, 5}, {1, -2, 3, 4, -5}, {-1, -2, 3, 4, -5}, {-1, -3, 4, -5},
                       {1, -2, 3, 4, 5}, {-1, -2, 4, 5}, {-3, 4}, {-1, -2, -3, -4, -5},
                       {-2, 3, 5}, {-2, -3, -4, -5}, {-4, -5}, {-2, -4, 5} >>)

\* Nothing to search: the empty clause, two units that clash, a tautology.
Degenerate == {With(Inputs(1), << {1}, {} >>), With(Inputs(2), << {1}, {-1}, {1, 2} >>),
               With(Inputs(2), << {1, -1}, {2}, {2} >>)}

\* The hooks that look for structure get the formulas that have it; a budget
\* of conflicts is given where the search is long.
MCInstances ==
    Instance(Degenerate, {Plain}, {0})
      \union Instance({EqualityChain(3), EqualityGrid(2, 2), Php(1), Php(2), Dropped(Php(2), 1)},
             {Plain, Multi(2), Multi(3)}, {0})
      \union Instance({TseitinXorChain(3), ParityTree(3, 1), Dropped(ParityTree(3, 1), 1)},
                      {Plain, Multi(2), Xor(TRUE), Xor(FALSE), Ext(TRUE, 1), Ext(FALSE, 1)}, {0})
      \union Instance({Parities, TseitinXorChain(4)}, {Xor(TRUE)}, {3})
      \union Instance({Shared}, {Plain, Ext(FALSE, 1), Ext(FALSE, 4)}, {4})
      \union Instance({AtMostVsAtLeast(3, 1), AdderMiter(1), MultiplierMiter(1)}, {Plain}, {3})
=============================================================================
