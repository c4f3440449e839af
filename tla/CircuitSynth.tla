---------------------------- MODULE CircuitSynth ----------------------------
(***************************************************************************)
(* tools/circuitsynth2dqbf: is there a circuit of k two-input gates, or of *)
(* d layers, for a given function?  A wire carries a function of the       *)
(* inputs, and is the set of the rows of inputs for which it is 1; row x   *)
(* gives input j the value of bit j of x.                                  *)
(*                                                                         *)
(* spec_functions.py lists the functions, with what is known about the     *)
(* size and depth of their circuits; encode.py builds each of them a       *)
(* second time, out of gates, for the clauses.                             *)
(***************************************************************************)
EXTENDS Words, FiniteSets, FiniteSetsExt

\* --- spec_functions.py ---------------------------------------------------

CeilLog2Of(n) == IF n < 2 THEN 1 ELSE CeilLog2(n)
BitLength(n) == CeilLog2(n + 1)

NInputs(name, n) ==
    CASE name \in {"eq", "lt", "add", "mul", "feistel"} -> 2 * n
      [] name = "mux" -> n + 2^n
      [] name \in {"fpadd23", "fpadd32"} -> 10
      [] OTHER -> n

NOutputs(name, n) ==
    CASE name \in {"add", "inc"} -> n + 1
      [] name \in {"mul", "feistel"} -> 2 * n
      [] name \in {"popcnt", "lzc"} -> BitLength(n)
      [] name = "prienc" -> BitLength(n) + 1
      [] name = "onehot" -> 2^n
      [] name \in {"fpadd23", "fpadd32"} -> 5
      [] OTHER -> 1

\* One round: (L, R) becomes (R, L xor F(R)) with a quadratic F.
FeistelBox(n, R) == FromBits(n, LAMBDA i : Bit(R, i) * Bit(R, (i + 1) % n))
XorBits(n, x, y) == FromBits(n, LAMBDA i : Xor(Bit(x, i), Bit(y, i)))

\* Operands of e exponent and m mantissa bits, the one with the larger exponent first.
FpAdd(e, m, x) ==
    LET a == x % 2^(e + m)
        b == x \div 2^(e + m)
        Exponent(v) == v \div 2^m
        Mantissa(v) == (v % 2^m) + 2^m
        big == IF Exponent(a) < Exponent(b) THEN b ELSE a
        small == IF Exponent(a) < Exponent(b) THEN a ELSE b
        s == Mantissa(big) + Mantissa(small) \div 2^(Exponent(big) - Exponent(small))
        over == s >= 2^(m + 1)
        E == Min({Exponent(big) + AsBit(over), Ones(e)})
    IN  ((IF over THEN s \div 2 ELSE s) % 2^m) + 2^m * E

\* Spec.eval, with output o as bit o.
Eval(name, n, x) ==
    LET A == x % 2^n
        B == x \div 2^n
    IN  CASE name = "and" -> AsBit(x = Ones(n))
          [] name = "or" -> AsBit(x # 0)
          [] name = "xor" -> Parity(x, n)
          [] name = "maj" -> AsBit(Popcount(x, n) > n \div 2)
          [] name = "exact1" -> AsBit(Popcount(x, n) = 1)
          [] name = "exacthalf" -> AsBit(Popcount(x, n) = n \div 2)
          [] name = "thresh2" -> AsBit(Popcount(x, n) >= 2)
          [] name = "eq" -> AsBit(A = B)
          [] name = "lt" -> AsBit(A < B)
          [] name = "add" -> A + B
          [] name = "inc" -> x + 1
          [] name = "mul" -> A * B
          [] name = "popcnt" -> Popcount(x, n)
          [] name = "lzc" -> IF x = 0 THEN n ELSE n - 1 - Max(BitSet(x, n))
          [] name = "mux" -> Bit(x, n + A)
          [] name = "prienc" -> IF x = 0 THEN 0 ELSE Max(BitSet(x, n)) + 2^BitLength(n)
          [] name = "onehot" -> 2^x
          [] name = "feistel" -> B + 2^n * XorBits(n, A, FeistelBox(n, B))
          [] name = "fpadd23" -> FpAdd(2, 3, x)
          [] name = "fpadd32" -> FpAdd(3, 2, x)

Unknown == -1
KnownGates(name, n) ==
    CASE name \in {"and", "or", "xor"} -> n - 1
      [] name = "maj" /\ n \in {3, 5, 7} -> (CASE n = 3 -> 4 [] n = 5 -> 10 [] n = 7 -> 19)
      [] name = "eq" -> 2 * n - 1
      [] name = "add" /\ n = 1 -> 2
      [] name = "mux" /\ n = 1 -> 3
      [] OTHER -> Unknown

KnownDepth(name, n) ==
    CASE name \in {"and", "or", "xor"} -> CeilLog2Of(n)
      [] name = "eq" -> CeilLog2Of(n) + 1
      [] name = "mux" /\ n = 1 -> 2
      [] OTHER -> Unknown

UpperGates(name, n) ==
    CASE KnownGates(name, n) # Unknown -> KnownGates(name, n)
      [] name \in {"maj", "lzc", "prienc"} -> 4 * n
      [] name \in {"exact1", "exacthalf", "thresh2", "lt", "popcnt"} -> 5 * n
      [] name = "add" -> 5 * n - 3
      [] name \in {"inc", "feistel"} -> 2 * n
      [] name = "mul" -> 6 * n * n
      [] name = "mux" -> 3 * (2^n - 1)
      [] name = "onehot" -> 2 * 2^n
      [] OTHER -> 100

UpperDepth(name, n) ==
    CASE KnownDepth(name, n) # Unknown -> KnownDepth(name, n)
      [] name \in {"maj", "lt", "popcnt", "lzc", "prienc"} -> 2 * CeilLog2Of(n)
      [] name \in {"exact1", "exacthalf", "thresh2"} -> 2 * CeilLog2Of(n) + 2
      [] name \in {"add", "mux"} -> 2 * n
      [] name = "inc" -> n
      [] name = "mul" -> 4 * n
      [] name = "onehot" -> CeilLog2Of(n) + 1
      [] name = "feistel" -> 2
      [] OTHER -> 20

----------------------------------------------------------------------------
\* --- encode.py -----------------------------------------------------------

Rows(name, n) == 0 .. 2^NInputs(name, n) - 1
InputWires(name, n) == {{x \in Rows(name, n) : Bit(x, j) = 1} : j \in 0 .. NInputs(name, n) - 1}

GateAnd(a, b) == a * b
GateOr(a, b) == IF a + b > 0 THEN 1 ELSE 0
GateNot(a) == 1 - a

\* The left fold of a gate over the bits of x, as the and, or, xor cases do it.
Chain(gate, x, n) ==
    LET Gated(a, b) == CASE gate = "and" -> GateAnd(a, b) [] gate = "or" -> GateOr(a, b)
                         [] gate = "xor" -> Xor(a, b)
        acc[i \in 1 .. n] == IF i = 1 THEN Bit(x, 0) ELSE Gated(acc[i-1], Bit(x, i-1))
    IN  acc[n]

LessFromTop(n, A, B) ==                                                \* a mutant
    LET bw[i \in 1 .. n] ==
            LET a == Bit(A, n-i)
                b == Bit(B, n-i)
                nlt == GateAnd(GateNot(a), b)
            IN  IF i = 1 THEN nlt ELSE GateOr(nlt, GateAnd(GateNot(Xor(a, b)), bw[i-1]))
    IN  bw[n]

\* Borrow chain of `lt', from the low bits up.
Less(n, A, B) ==
    LET bw[i \in 1 .. n] ==
            LET a == Bit(A, i-1)
                b == Bit(B, i-1)
                nlt == GateAnd(GateNot(a), b)
            IN  IF i = 1 THEN nlt ELSE GateOr(nlt, GateAnd(GateNot(Xor(a, b)), bw[i-1]))
    IN  bw[n]
\* Half adders on the carry that starts as 1: the low bit is negated.
Increment(n, x) ==
    LET c[i \in 1 .. n] == IF i = 1 THEN Bit(x, 0) ELSE GateAnd(Bit(x, i-1), c[i-1])
        Out(i) == IF i = 0 THEN GateNot(Bit(x, 0)) ELSE IF i = n THEN c[n] ELSE Xor(Bit(x, i), c[i])
    IN  FromBits(n + 1, Out)

SumChain(n, A, B) ==
    LET c[i \in 1 .. n] ==
            LET a == Bit(A, i-1)
                b == Bit(B, i-1)
            IN  IF i = 1 THEN GateAnd(a, b) ELSE GateOr(GateAnd(a, b), GateAnd(Xor(a, b), c[i-1]))
        Out(i) == IF i = n THEN c[n]
                  ELSE LET t == Xor(Bit(A, i), Bit(B, i)) IN IF i = 0 THEN t ELSE Xor(t, c[i])
    IN  FromBits(n + 1, Out)

\* The outputs that _spec_clauses defines; a truth table for all other names.
SpecClauses(name, n, x) ==
    LET A == x % 2^n
        B == x \div 2^n
    IN  CASE name \in {"and", "or", "xor"} -> Chain(name, x, n)
          [] name = "eq"  -> Chain("and", Ones(n) - XorBits(n, A, B), n)
          [] name = "feistel" -> FromBits(2 * n, LAMBDA i :
                IF i < n THEN Bit(B, i) ELSE Xor(Bit(A, i - n), GateAnd(Bit(B, i - n), Bit(B, (i - n + 1) % n))))
          [] name = "inc" -> Increment(n, x)
          [] name = "lt"  -> Less(n, A, B)
          [] name = "add" -> SumChain(n, A, B)
          [] OTHER -> Eval(name, n, x)

SpecWires(name, n) ==
    {{x \in Rows(name, n) : Bit(SpecClauses(name, n, x), o) = 1} : o \in 0 .. NOutputs(name, n) - 1}

\* A gate reads any two wires and computes any function of them, given by the
\* pairs of values for which it is 1.
Ops == SUBSET (BOOLEAN \X BOOLEAN)
GateRowTooMany(name, n, op, a, b) ==                                   \* a mutant
    {x \in 0 .. 2^NInputs(name, n) : <<x \in a, x \in b>> \in op}
Gate(name, n, op, a, b) == {x \in Rows(name, n) : <<x \in a, x \in b>> \in op}
Gates(name, n, pool) == {Gate(name, n, op, a, b) : op \in Ops, a \in pool, b \in pool}

\* encode_gates: the wires after one more gate.
AddGate(name, n, pool) == {pool \union {g} : g \in Gates(name, n, pool)}

\* encode_depth: all that a further layer can compute.  The generator gives
\* the encoder layers of max(n_inputs, n_outputs) gates; for two layers and up
\* to four inputs that is as good as any width for the functions at hand.
AddLayer(name, n, pool) == {pool \union Gates(name, n, pool)}

\* Every output is one of the wires.
Computes(name, n, pool) == SpecWires(name, n) \subseteq pool
=============================================================================
