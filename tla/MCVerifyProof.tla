--------------------------- MODULE MCVerifyProof ----------------------------
(***************************************************************************)
(* Instance of VerifyProof for TLC: universals 1, 2; existentials 3(1) and *)
(* 4(2), whose dependencies are incomparable; 5 is free for a fork.        *)
(***************************************************************************)
EXTENDS VerifyProof

Prefix == [n_vars |-> 4, universals |-> {1, 2},
           dependencies |-> [y \in {3, 4} |-> IF y = 3 THEN {1} ELSE {2}],
           clauses |-> {}]

\* An information fork; a copy constraint (true, and false as soon as a
\* dependency is ignored); and a clash that needs a reduction.
MCFormulas == {WithClauses(Prefix, m) : m \in {
    {{3, 4}},
    {{1, 3}, {-1, -3}},
    {{2, 3}, {-3, -2}} }}

Clauses ==
    {{}} \cup {{l} : l \in {1, 3, -3, 5}}
         \cup {{1, 3}, {-1, -3}, {2, 3}, {-3, -2}, {3, 4}, {1, 5}, {3, 5}, {4, -5}, {3, 4, 1}}

Step(rule, clause, premises, pivot, part, c3, fresh) ==
    [rule |-> rule, clause |-> clause, premises |-> premises, pivot |-> pivot,
     part |-> part, c3 |-> c3, fresh |-> fresh]

AxiomSteps == {Step("axiom", c, << >>, None, None, {}, None) : c \in Clauses}

UredSteps == {Step("ured", c, <<i>>, None, None, {}, None) : c \in Clauses, i \in -1..2}

ResSteps == {Step("res", c, <<i, j>>, p, None, {}, None) :
                c \in Clauses, i \in 0..2, j \in 0..2, p \in {3, -5}}

ForkSteps == {Step(rule, c, <<i>>, None, {l}, c3, x) :
                rule \in {"fex", "sfex"},
                c \in {{3, 5}, {4, -5}, {3, 5, 1}, {4, -5, 1}, {1, 5}, {3, -5}, {1, 3}, {3, 4}},
                i \in 0..2, l \in {1, 3}, c3 \in {{}, {1}, {4}}, x \in {1, 4, 5}}

\* Steps no proof should hold: a missing field, too few premises, no such rule.
BadSteps == {Step("res", {}, <<0>>, 3, None, {}, None),
             Step("res", {}, <<0, 1>>, None, None, {}, None),
             Step("fex", {3, 5}, <<0>>, None, None, {}, 5),
             Step("cut", {}, << >>, None, None, {}, None)}

MCSteps == AxiomSteps \cup UredSteps \cup ResSteps \cup ForkSteps \cup BadSteps
=============================================================================
