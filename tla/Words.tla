------------------------------- MODULE Words -------------------------------
(***************************************************************************)
(* The combinational vocabulary of the benchmark circuits: words of n bits *)
(* as naturals below 2^n, and the arithmetic that the builders put         *)
(* together from AND gates (tools/bmc2dqbf/circuits.py, circuits_v2.py,    *)
(* tools/cbmc2dqbf/circuits.py).  A circuit is a machine: its states, its  *)
(* inputs, the reset state, the next-state function and the bad signal.    *)
(***************************************************************************)
EXTENDS Integers, Sequences

Word(n) == 0 .. 2^n - 1
Ones(n) == 2^n - 1

Bit(x, i) == (x \div 2^i) % 2
BitSet(x, n) == {i \in 0 .. n - 1 : Bit(x, i) = 1}

\* The word whose bit i is B(i).
FromBits(n, B(_)) ==
    LET upto[i \in 0 .. n] == IF i = 0 THEN 0 ELSE upto[i-1] + 2^(i-1) * B(i-1)
    IN  upto[n]

AsBit(p) == IF p THEN 1 ELSE 0
Const(n, v) == v % 2^n

----------------------------------------------------------------------------
\* One full adder of B.gXOR, B.gAND and B.gOR, as _ripple_add chains it.
Xor(a, b) == (a + b) % 2
CarryNoPropagate(a, b, c) == a * b                     \* a mutant
CarryOut(a, b, c) == IF a * b = 1 \/ c * Xor(a, b) = 1 THEN 1 ELSE 0

RippleAdd(n, x, y, cin) ==
    LET carry[i \in 0 .. n] ==
            IF i = 0 THEN cin ELSE CarryOut(Bit(x, i-1), Bit(y, i-1), carry[i-1])
        Sum(i) == Xor(Xor(Bit(x, i), Bit(y, i)), carry[i])
    IN  [sum |-> FromBits(n, Sum), carry |-> carry[n]]

RippleSub(n, x, y) == RippleAdd(n, x, Ones(n) - y, 1)

Add(n, x, y) == RippleAdd(n, x, y, 0).sum
Sub(n, x, y) == RippleSub(n, x, y).sum
Ult(n, x, y) == RippleSub(n, x, y).carry = 0
Inc(n, x) == RippleAdd(n, x, 0, 1).sum
Shl1(n, x) == (2 * x) % 2^n
Shr1(x) == x \div 2

Popcount(x, n) ==
    LET ones[i \in 0 .. n] == IF i = 0 THEN 0 ELSE ones[i-1] + Bit(x, i-1)
    IN  ones[n]
Parity(x, n) == Popcount(x, n) % 2

\* Bits to count up to n, and the bits of a counter (circuits_v3._bits).
CeilLog2(m) == CHOOSE c \in 0 .. m : 2^c >= m /\ (c = 0 \/ 2^(c-1) < m)
Bits(n) == IF n <= 1 THEN 1 ELSE CeilLog2(n + 1)

----------------------------------------------------------------------------
NoInput == {0}

Machine(State, Input, reset, Next(_, _), Bad(_, _)) ==
    [state |-> State,
     input |-> Input,
     reset |-> reset,
     next  |-> [s \in State, i \in Input |-> Next(s, i)],
     bad   |-> [s \in State, i \in Input |-> Bad(s, i)]]
=============================================================================
