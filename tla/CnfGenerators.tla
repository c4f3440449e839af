--------------------------- MODULE CnfGenerators ---------------------------
(***************************************************************************)
(* experiments/cdcl_multi_learn/generators.py: the families of formulas on *)
(* which the learning strategies are compared.  A literal is a variable or *)
(* its negation as an integer, a clause a set of literals, and a formula   *)
(* has its number of variables in field n and its clauses in field cls.    *)
(* A builder takes a formula and returns it with a gate added, the output  *)
(* of which is the last variable (_VarPool.new).                           *)
(***************************************************************************)
EXTENDS Integers, Sequences, FiniteSets, SequencesExt, FiniteSetsExt

Var(l) == IF l < 0 THEN -l ELSE l

Inputs(k) == [n |-> k, cls |-> <<>>]
With(f, cs) == [f EXCEPT !.cls = @ \o cs]
New(f) == [f EXCEPT !.n = @ + 1]

\* z = a xor b, z = a and b, and a constant.
XorClauses(z, a, b) == << {-z, a, b}, {-z, -a, -b}, {z, -a, b}, {z, a, -b} >>
XorGate(f, a, b) == With(New(f), XorClauses(f.n + 1, a, b))
AndGate(f, a, b) ==
    LET z == f.n + 1 IN With(New(f), << {-z, a}, {-z, b}, {z, -a, -b} >>)
ConstFalse(f) == With(New(f), << {-(f.n + 1)} >>)

\* A full adder: the sum is variable n + 2, the carry the last.
Xor3(f, a, b, c) == LET g == XorGate(f, a, b) IN XorGate(g, g.n, c)
Maj3(f, a, b, c) ==
    LET m == f.n + 1
    IN  With(New(f), << {-m, a, b}, {-m, a, c}, {-m, b, c}, {m, -a, -b}, {m, -a, -c}, {m, -b, -c} >>)
FullAdder(f, a, b, c) ==
    LET g == Xor3(f, a, b, c) IN [sum |-> g.n, f |-> Maj3(g, a, b, c)]

----------------------------------------------------------------------------
\* A chain of gates over the inputs and a unit for its output, twice.
TseitinXorChain(n) ==
    LET Gates(f) == FoldLeft(LAMBDA s, x : LET g == XorGate(s.f, s.prev, x) IN [f |-> g, prev |-> g.n],
                             [f |-> f, prev |-> 1], [i \in 1 .. n - 1 |-> i + 1])
        Chain(f, sign) == LET s == Gates(f) IN With(s.f, << {sign * s.prev} >>)
    IN  Chain(Chain(Inputs(n), 1), -1)

\* The same as a balanced tree: a round joins the literals two by two.
Join(s) ==
    LET k == Len(s.lits) \div 2
        Pair(r, i) == LET g == XorGate(r.f, s.lits[2*i - 1], s.lits[2*i])
                      IN  [f |-> g, lits |-> Append(r.lits, g.n)]
        r == FoldLeft(Pair, [f |-> s.f, lits |-> <<>>], [i \in 1 .. k |-> i])
    IN  [r EXCEPT !.lits = @ \o SubSeq(s.lits, 2*k + 1, Len(s.lits))]

ParityTree(n, parity) ==
    LET Reduce(f) ==
            LET round[i \in 0 .. n] ==
                    IF i = 0 THEN [f |-> f, lits |-> [j \in 1 .. n |-> j]] ELSE Join(round[i-1])
            IN  round[n]
        Tree(f, sign) == LET s == Reduce(f) IN With(s.f, << {sign * s.lits[1]} >>)
    IN  Tree(Tree(Inputs(n), IF parity = 1 THEN 1 ELSE -1), IF parity = 1 THEN -1 ELSE 1)

Equal(a, b) == << {a, -b}, {-a, b} >>
Differ(a, b) == << {a, b}, {-a, -b} >>

EqualityChain(n) ==
    With(Inputs(n), FlattenSeq([i \in 1 .. n - 1 |-> Equal(i, i + 1)]) \o Differ(1, n))

EqualityGrid(rows, cols) ==
    LET Cell(i) == LET r == (i - 1) \div cols
                       c == (i - 1) % cols
                   IN  (IF c + 1 < cols THEN Equal(i, i + 1) ELSE <<>>)
                         \o (IF r + 1 < rows THEN Equal(i, i + cols) ELSE <<>>)
    IN  With(Inputs(rows * cols), FlattenSeq([i \in 1 .. rows * cols |-> Cell(i)]) \o Differ(1, rows * cols))

----------------------------------------------------------------------------
\* At least one pair of outputs differs.
Miter(f, outs1, outs2) ==
    LET Diff(g, i) == XorGate(g, outs1[i], outs2[i])
        m == FoldLeft(Diff, f, [i \in 1 .. Len(outs1) |-> i])
    IN  With(m, << {f.n + i : i \in 1 .. Len(outs1)} >>)

\* Variables 1..w are one operand, w+1..2w the other.
Ripple(s, w) ==
    LET c0 == ConstFalse(s)
        Cell(r, i) == LET fa == FullAdder(r.f, i, w + i, r.f.n)
                      IN  [f |-> fa.f, out |-> Append(r.out, fa.sum)]
        r == FoldLeft(Cell, [f |-> c0, out |-> <<>>], [i \in 1 .. w |-> i])
    IN  [r EXCEPT !.out = Append(@, r.f.n)]

AdderMiter(w) ==
    LET one == Ripple(Inputs(2 * w), w)
        two == Ripple(one.f, w)
    IN  Miter(two.f, one.out, two.out)

\* One row of the shift-and-add multiplier: acc plus row i of the partial
\* products; the carry then runs through the rest of acc.
AddRow(s, w, i) ==
    LET start == s.f.n
        ands == FoldLeft(LAMBDA f, j : AndGate(f, j, w + i + 1), s.f, [j \in 1 .. w |-> j])
        zero == ConstFalse(ands)
        Cell(r, j) ==
            LET fa == FullAdder(r.f, r.acc[i + j], start + j, r.f.n)
            IN  [f |-> fa.f, acc |-> [r.acc EXCEPT ![i + j] = fa.sum]]
        Carry(r, pos) ==
            LET g == XorGate(r.f, r.acc[pos], r.f.n)
            IN  [f |-> AndGate(g, r.acc[pos], r.f.n), acc |-> [r.acc EXCEPT ![pos] = g.n]]
        added == FoldLeft(Cell, [f |-> zero, acc |-> s.acc], [j \in 1 .. w |-> j])
    IN  FoldLeft(Carry, added, [j \in 1 .. w - i |-> i + w + j])

Multiply(f, w) ==
    LET zeros == FoldLeft(LAMBDA g, j : ConstFalse(g), f, [j \in 1 .. 2 * w |-> j])
    IN  FoldLeft(LAMBDA s, i : AddRow(s, w, i - 1),
                 [f |-> zeros, acc |-> [j \in 1 .. 2 * w |-> f.n + j]], [i \in 1 .. w |-> i])

MultiplierMiter(w) ==
    LET one == Multiply(Inputs(2 * w), w)
        two == Multiply(one.f, w)
    IN  Miter(two.f, one.acc, two.acc)

----------------------------------------------------------------------------
\* n + 1 pigeons, n holes.
Php(n) ==
    LET InHole(i, j) == (i - 1) * n + j
        Clash(j) == FlattenSeq([i \in 1 .. n + 1 |->
                        [k \in 1 .. n + 1 - i |-> {-InHole(i, j), -InHole(i + k, j)}]])
    IN  With(Inputs((n + 1) * n),
             [i \in 1 .. n + 1 |-> {InHole(i, j) : j \in 1 .. n}]
               \o FlattenSeq([j \in 1 .. n |-> Clash(j)]))

\* At most k of x_1..x_n are true, by the counter s[i][j] (at least j of
\* x_1..x_i); at least k + 1 are, by t[i][j] (at least j of x_i..x_n).
AtMostVsAtLeast(n, k) ==
    LET s(i, j) == n + (i - 1) * k + j
        t(i, j) == n + (n - 1) * k + (i - 1) * (k + 1) + j
        Seq1(N, F(_)) == FlattenSeq([i \in 1 .. N |-> F(i)])
        First == << {-1, s(1, 1)} >> \o [j \in 1 .. k - 1 |-> {-s(1, j + 1)}]
        Count(i) == << {-i, s(i, 1)}, {-s(i-1, 1), s(i, 1)} >>
                      \o Seq1(k - 1, LAMBDA j : << {-i, -s(i-1, j), s(i, j+1)}, {-s(i-1, j+1), s(i, j+1)} >>)
        Over(i) == {-i, -s(i-1, k)}
        Bottom == << {-t(n, 1), n} >> \o [j \in 1 .. k |-> {-t(n, j + 1)}]
        Down(i) == Seq1(k + 1, LAMBDA j :
                      << {-t(i, j), t(i+1, j), i} >>
                        \o (IF j > 1 THEN << {-t(i, j), t(i+1, j), t(i+1, j-1)} >> ELSE <<>>))
    IN  With([Inputs(n) EXCEPT !.n = n + (n - 1) * k + n * (k + 1)],
             First \o Seq1(n - 2, LAMBDA i : Count(i + 1)) \o [i \in 1 .. n - 1 |-> Over(i + 1)]
               \o Bottom \o Seq1(n - 1, LAMBDA i : Down(n - i)) \o << {t(1, k + 1)} >>)

----------------------------------------------------------------------------
\* The models of a formula, as sets of true variables: variable by variable,
\* keeping what violates no clause over the variables so far.
Holds(l, A) == IF l > 0 THEN l \in A ELSE -l \notin A
Top(c) == IF c = {} THEN 0 ELSE Max({Var(l) : l \in c})

Models(n, clauses) ==
    LET over[v \in 0 .. n] ==
            {A \in IF v = 0 THEN {{}} ELSE UNION {{B, B \union {v}} : B \in over[v-1]} :
                \A c \in clauses : Top(c) = v => \E l \in c : Holds(l, A)}
    IN  over[n]
=============================================================================
