---------------------------- MODULE CbmcCircuits ----------------------------
(***************************************************************************)
(* tools/cbmc2dqbf/circuits.py: loops of small C programs as machines, each*)
(* with a correct and a faulty variant.  The first cycle loads the inputs  *)
(* (init rises), then one loop iteration runs per cycle; bad is the        *)
(* negated assertion.  BugDepth and ExpectedAt are the labels that the     *)
(* benchmark generator writes.                                             *)
(***************************************************************************)
EXTENDS Words

\* A machine whose latches are loaded from the inputs in cycle 0.  A reset
\* latch vector is 0 unless the circuit says otherwise.
RunningAtOnce(s, cond) == cond                                         \* a mutant
Running(s, cond) == s.init /\ cond

Popcounter(n, bug) ==
    LET Sampled(x) == IF bug THEN Bit(Shr1(x), 0) ELSE Bit(x, 0)
        Nxt(s, in) ==
            [init |-> TRUE,
             x    |-> IF s.init THEN (IF s.x # 0 THEN Shr1(s.x) ELSE s.x) ELSE in,
             c    |-> IF Running(s, s.x # 0) THEN Add(n, s.c, Sampled(s.x)) ELSE s.c,
             seed |-> IF s.init THEN s.seed ELSE in]
        Bad(s, in) == s.init /\ s.x = 0 /\ s.c # Const(n, Popcount(s.seed, n))
    IN  Machine([init : BOOLEAN, x : Word(n), c : Word(n), seed : Word(n)], Word(n),
                [init |-> FALSE, x |-> 0, c |-> 0, seed |-> 0], Nxt, Bad)

ParityLoop(n, bug) ==
    LET Nxt(s, in) ==
            [init |-> TRUE,
             p    |-> IF ~s.init THEN AsBit(bug)
                      ELSE IF s.x # 0 THEN Xor(s.p, Bit(s.x, 0)) ELSE s.p,
             x    |-> IF s.init THEN (IF s.x # 0 THEN Shr1(s.x) ELSE s.x) ELSE in,
             seed |-> IF s.init THEN s.seed ELSE in]
        Bad(s, in) == s.init /\ s.x = 0 /\ s.p # Parity(s.seed, n)
    IN  Machine([init : BOOLEAN, p : {0, 1}, x : Word(n), seed : Word(n)], Word(n),
                [init |-> FALSE, p |-> 0, x |-> 0, seed |-> 0], Nxt, Bad)

Reversed(n, x) == FromBits(n, LAMBDA i : Bit(x, n - 1 - i))

BitRev(n, bug) ==
    LET Cont(s) == Ult(n, s.i, n)
        Shifted(y) == IF bug THEN Shr1(y) ELSE Shl1(n, y)
        \* the new low bit is or-ed with the one that the shift leaves there
        Body(s) == LET y == Shifted(s.y) IN IF Bit(y, 0) = 1 THEN y ELSE y + Bit(s.x, 0)
        Nxt(s, in) ==
            [init |-> TRUE,
             x    |-> IF ~s.init THEN in ELSE IF Cont(s) THEN Shr1(s.x) ELSE s.x,
             y    |-> IF Running(s, Cont(s)) THEN Body(s) ELSE s.y,
             i    |-> IF Running(s, Cont(s)) THEN Inc(n, s.i) ELSE s.i,
             seed |-> IF s.init THEN s.seed ELSE in]
        Bad(s, in) == s.init /\ ~Cont(s) /\ s.y # Reversed(n, s.seed)
    IN  Machine([init : BOOLEAN, x : Word(n), y : Word(n), i : Word(n), seed : Word(n)], Word(n),
                [init |-> FALSE, x |-> 0, y |-> 0, i |-> 0, seed |-> 0], Nxt, Bad)

MulShiftAdd(n, bug) ==
    LET W == 2 * n
        Cont(s) == Ult(n, s.i, n)
        Nxt(s, in) ==
            [init |-> TRUE,
             aw |-> IF ~s.init THEN in.a ELSE IF Cont(s) THEN Shl1(W, s.aw) ELSE s.aw,
             br |-> IF ~s.init THEN in.b ELSE IF Cont(s) THEN Shr1(s.br) ELSE s.br,
             p  |-> IF Running(s, Cont(s)) /\ (bug \/ Bit(s.br, 0) = 1)
                    THEN Add(W, s.p, s.aw) ELSE s.p,
             i  |-> IF Running(s, Cont(s)) THEN Inc(n, s.i) ELSE s.i,
             a0 |-> IF s.init THEN s.a0 ELSE in.a,
             b0 |-> IF s.init THEN s.b0 ELSE in.b]
        Bad(s, in) == s.init /\ ~Cont(s) /\ s.p # s.a0 * s.b0
    IN  Machine([init : BOOLEAN, aw : Word(W), br : Word(n), p : Word(W), i : Word(n),
                 a0 : Word(n), b0 : Word(n)],
                [a : Word(n), b : Word(n)],
                [init |-> FALSE, aw |-> 0, br |-> 0, p |-> 0, i |-> 0, a0 |-> 0, b0 |-> 0], Nxt, Bad)

\* Restoring division: the dividend's bits are fed from the top of `work'.
DivMod(n, bug) ==
    LET Cont(s) == Ult(n, s.i, n)
        RIn(s) == Add(n, Shl1(n, s.r), Bit(s.work, n - 1))
        Take(s) == ~Ult(n, RIn(s), s.d) /\ ~(bug /\ RIn(s) = s.d)
        Nxt(s, in) ==
            [init |-> TRUE,
             r  |-> IF ~Running(s, Cont(s)) THEN s.r
                    ELSE IF Take(s) THEN Sub(n, RIn(s), s.d) ELSE RIn(s),
             q  |-> IF Running(s, Cont(s)) THEN Add(n, Shl1(n, s.q), AsBit(Take(s))) ELSE s.q,
             i  |-> IF Running(s, Cont(s)) THEN Inc(n, s.i) ELSE s.i,
             d  |-> IF s.init THEN s.d ELSE in.d,
             n0 |-> IF s.init THEN s.n0 ELSE in.n,
             work |-> IF ~s.init THEN in.n ELSE IF Cont(s) THEN Shl1(n, s.work) ELSE s.work]
        Bad(s, in) == s.init /\ ~Cont(s) /\ s.d # 0 /\ ~Ult(n, s.r, s.d)
    IN  Machine([init : BOOLEAN, r : Word(n), q : Word(n), i : Word(n), d : Word(n), n0 : Word(n),
                 work : Word(n)],
                [n : Word(n), d : Word(n)],
                [init |-> FALSE, r |-> 0, q |-> 0, i |-> 0, d |-> 0, n0 |-> 0, work |-> 0], Nxt, Bad)

GcdSub(n, bug) ==
    LET FromA(s) == s.a # s.b /\ Ult(n, s.b, s.a) # bug      \* the fault swaps the branches
        FromB(s) == s.a # s.b /\ Ult(n, s.b, s.a) = bug
        Nxt(s, in) ==
            [init |-> TRUE,
             a  |-> IF ~s.init THEN in.a ELSE IF FromA(s) THEN Sub(n, s.a, s.b) ELSE s.a,
             b  |-> IF ~s.init THEN in.b ELSE IF FromB(s) THEN Sub(n, s.b, s.a) ELSE s.b,
             a0 |-> IF s.init THEN s.a0 ELSE in.a,
             b0 |-> IF s.init THEN s.b0 ELSE in.b]
        Larger(s) == IF Ult(n, s.a0, s.b0) THEN s.b0 ELSE s.a0
        Bad(s, in) == s.init /\ s.a0 # 0 /\ s.b0 # 0 /\ Ult(n, Larger(s), s.a)
    IN  Machine([init : BOOLEAN, a : Word(n), b : Word(n), a0 : Word(n), b0 : Word(n)],
                [a : Word(n), b : Word(n)],
                [init |-> FALSE, a |-> 0, b |-> 0, a0 |-> 0, b0 |-> 0], Nxt, Bad)

StreamMin(n, bug) ==
    LET Keep(s, x) == Ult(n, x, s.m) = bug      \* the fault swaps the arms
        Nxt(s, x) == [init |-> TRUE, m |-> IF s.init /\ Keep(s, x) THEN s.m ELSE x, prev |-> x]
        Bad(s, x) == s.init /\ Ult(n, s.prev, s.m)
    IN  Machine([init : BOOLEAN, m : Word(n), prev : Word(n)], Word(n),
                [init |-> FALSE, m |-> 0, prev |-> 0], Nxt, Bad)

SatCtr(n, bug) ==
    LET Down(c) == IF c = 0 /\ ~bug THEN c ELSE Sub(n, c, 1)
        Up(c) == IF c = Ones(n) THEN c ELSE Inc(n, c)
        Nxt(s, dec) == [init |-> TRUE, c |-> IF dec THEN Down(s.c) ELSE Up(s.c),
                        pc |-> s.c, pdec |-> dec]
        Bad(s, dec) == s.init /\ s.pdec /\ s.pc = 0 /\ s.c = Ones(n)
    IN  Machine([init : BOOLEAN, c : Word(n), pc : Word(n), pdec : BOOLEAN], BOOLEAN,
                [init |-> FALSE, c |-> 0, pc |-> 0, pdec |-> FALSE], Nxt, Bad)

Clz(n, bug) ==
    LET More(s) == s.init /\ Bit(s.x, n - 1) = 0 /\ (bug \/ s.x # 0)
        Nxt(s, in) ==
            [init |-> TRUE,
             x    |-> IF ~s.init THEN in ELSE IF More(s) THEN Shl1(n, s.x) ELSE s.x,
             c    |-> IF More(s) THEN Inc(n, s.c) ELSE s.c,
             seed |-> IF s.init THEN s.seed ELSE in]
        Bad(s, in) == s.init /\ Ult(n, n, s.c)
    IN  Machine([init : BOOLEAN, x : Word(n), c : Word(n), seed : Word(n)], Word(n),
                [init |-> FALSE, x |-> 0, c |-> 0, seed |-> 0], Nxt, Bad)

Fib(n, bug) ==
    LET Cont(s) == Ult(n, s.i, n)
        Nxt(s, in) == IF Cont(s) THEN [a |-> s.b, b |-> Add(n, s.a, s.b), i |-> Inc(n, s.i)] ELSE s
        Bad(s, in) == Cont(s) /\ Ult(n, s.b, s.a)
    IN  Machine([a : Word(n), b : Word(n), i : Word(n)], NoInput,
                [a |-> AsBit(bug), b |-> AsBit(~bug), i |-> 0], Nxt, Bad)

TokenBucket(n, bug) ==
    LET Added(t) == IF t = Ones(n) /\ ~bug THEN t ELSE Inc(n, t)
        Taken(t, take) == IF take /\ t # 0 THEN Sub(n, t, 1) ELSE t
        Nxt(s, take) == [init |-> TRUE, tok |-> Taken(Added(s.tok), take),
                         ptok |-> s.tok, ptake |-> take]
        Bad(s, take) == s.init /\ ~s.ptake /\ Ult(n, s.tok, s.ptok)
    IN  Machine([init : BOOLEAN, tok : Word(n), ptok : Word(n), ptake : BOOLEAN], BOOLEAN,
                [init |-> FALSE, tok |-> 0, ptok |-> 0, ptake |-> FALSE], Nxt, Bad)

\* Bits of 0 .. n-1, at least two.
OnehotRt(n, bug) ==
    LET m == IF CeilLog2(n) < 2 THEN 2 ELSE CeilLog2(n)
        Hot(i) == {k \in 0 .. n - 1 : k = i \/ (bug /\ k = 0)}
        Decoded(h) == IF h = {} THEN 0 ELSE CHOOSE k \in h : \A j \in h : k <= j
        Nxt(s, in) == [i |-> IF s.i = n - 1 THEN 0 ELSE Inc(m, s.i)]
        Bad(s, in) == Decoded(Hot(s.i)) # s.i
    IN  Machine([i : Word(m)], NoInput, [i |-> 0], Nxt, Bad)

----------------------------------------------------------------------------
CbmcNames == {"popcount", "parity", "bitrev", "mul_shiftadd", "divmod", "gcd_sub", "stream_min",
              "sat_ctr", "clz", "fib", "token_bucket", "onehot_rt"}

CbmcCircuit(name, n, bug) ==
    CASE name = "popcount" -> Popcounter(n, bug)   [] name = "parity" -> ParityLoop(n, bug)
      [] name = "bitrev" -> BitRev(n, bug)         [] name = "mul_shiftadd" -> MulShiftAdd(n, bug)
      [] name = "divmod" -> DivMod(n, bug)         [] name = "gcd_sub" -> GcdSub(n, bug)
      [] name = "stream_min" -> StreamMin(n, bug)  [] name = "sat_ctr" -> SatCtr(n, bug)
      [] name = "clz" -> Clz(n, bug)               [] name = "fib" -> Fib(n, bug)
      [] name = "token_bucket" -> TokenBucket(n, bug)
      [] name = "onehot_rt" -> OnehotRt(n, bug)

BugDepth(name, n) ==
    CASE name \in {"popcount", "bitrev", "mul_shiftadd", "divmod"} -> 1 + n
      [] name \in {"parity", "sat_ctr", "onehot_rt"} -> 1
      [] name \in {"gcd_sub", "stream_min"} -> 2
      [] name = "clz" -> 2 + n
      [] name = "fib" -> 0
      [] name = "token_bucket" -> 2^n

ExpectedAt(name, n, bug, k) ==
    IF ~bug THEN "unsat" ELSE IF k >= BugDepth(name, n) THEN "sat" ELSE "unknown"
=============================================================================
