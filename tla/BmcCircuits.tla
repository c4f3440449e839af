---------------------------- MODULE BmcCircuits ----------------------------
(***************************************************************************)
(* The circuits of tools/bmc2dqbf/circuits.py and circuits_v2.py, and the  *)
(* fault-injected variants of tools/hwmc2dqbf_indinv/circuits_buggy.py, as *)
(* machines.  A vector of latches that the code treats as a number is a    *)
(* word, one that it treats as flags is the set of the flags that are up.  *)
(***************************************************************************)
EXTENDS Words, FiniteSets

\* --- circuits.py ---------------------------------------------------------

Counter(n) ==
    LET Nxt(s, i) == [v |-> Inc(n, s.v)]
        Bad(s, i) == s.v = Ones(n)
    IN  Machine([v : Word(n)], NoInput, [v |-> 0], Nxt, Bad)

GrayBit(n, v, i) == IF i = n - 1 THEN Bit(v, i) ELSE Xor(Bit(v, i + 1), Bit(v, i))

Gray(n) ==
    LET Nxt(s, i) == [v |-> Inc(n, s.v)]
        Bad(s, i) == \A b \in 0 .. n - 1 : GrayBit(n, s.v, b) = 1
    IN  Machine([v : Word(n)], NoInput, [v |-> 0], Nxt, Bad)

\* grant[i]' = req[i] and no request below i
Granted(req) == {i \in req : \A j \in req : j >= i}
TwoGrants(grant) == \E i, j \in grant : i < j

Mutex(n) ==
    LET Nxt(s, req) == [grant |-> Granted(req)]
        Bad(s, req) == TwoGrants(s.grant)
        Flags == SUBSET (0 .. n - 1)
    IN  Machine([grant : Flags], Flags, [grant |-> {}], Nxt, Bad)

ShiftReg(n) ==
    LET Nxt(s, d) == [r |-> Add(n, Shl1(n, s.r), d)]
        Bad(s, d) == Bit(s.r, n - 1) = 1
    IN  Machine([r : Word(n)], {0, 1}, [r |-> 0], Nxt, Bad)

Written(we, d, old) == IF we THEN d ELSE old

Fifo1(n) ==
    LET Nxt(s, i) == [r |-> Written(i.we, i.d, s.r), sd |-> Written(i.we, i.d, s.sd)]
        Bad(s, i) == s.r # s.sd
    IN  Machine([r : Word(n), sd : Word(n)], [we : BOOLEAN, d : Word(n)],
                [r |-> 0, sd |-> 0], Nxt, Bad)

AluAdd(n) ==
    LET Nxt(s, i) == [out |-> Add(n, i.a, i.c), sa |-> i.a, sc |-> i.c]
        Bad(s, i) == s.out # Add(n, s.sa, s.sc)
    IN  Machine([out : Word(n), sa : Word(n), sc : Word(n)], [a : Word(n), c : Word(n)],
                [out |-> 0, sa |-> 0, sc |-> 0], Nxt, Bad)

\* --- circuits_buggy.py ---------------------------------------------------

\* Line 1 is granted whenever it asks.
MutexBuggy(n) ==
    LET Nxt(s, req) == [grant |-> Granted(req) \union ({1} \intersect req)]
        Bad(s, req) == TwoGrants(s.grant)
        Flags == SUBSET (0 .. n - 1)
    IN  Machine([grant : Flags], Flags, [grant |-> {}], Nxt, Bad)

FlipBit0(x) == IF x % 2 = 0 THEN x + 1 ELSE x - 1

Fifo1Buggy(n) ==
    LET Nxt(s, i) == [r |-> Written(i.we, i.d, s.r), sd |-> Written(i.we, FlipBit0(i.d), s.sd)]
        Bad(s, i) == s.r # s.sd
    IN  Machine([r : Word(n), sd : Word(n)], [we : BOOLEAN, d : Word(n)],
                [r |-> 0, sd |-> 0], Nxt, Bad)

\* Bit 0 of the sum is a[0]; the carry chain is the right one.
AluAddBuggy(n) ==
    LET Sum(a, c) == Add(n, a, c) - Bit(Add(n, a, c), 0) + Bit(a, 0)
        Nxt(s, i) == [out |-> Sum(i.a, i.c), sa |-> i.a, sc |-> i.c]
        Bad(s, i) == s.out # Add(n, s.sa, s.sc)
    IN  Machine([out : Word(n), sa : Word(n), sc : Word(n)], [a : Word(n), c : Word(n)],
                [out |-> 0, sa |-> 0, sc |-> 0], Nxt, Bad)

\* --- circuits_v2.py ------------------------------------------------------

Bitwise1(n, x, y, Op(_, _)) == FromBits(n, LAMBDA i : Op(Bit(x, i), Bit(y, i)))
AndWord(n, x, y) == Bitwise1(n, x, y, LAMBDA a, b : a * b)
OrWord(n, x, y) == Bitwise1(n, x, y, LAMBDA a, b : IF a + b > 0 THEN 1 ELSE 0)

\* op counts 0, 1, 2, 3 and the result of this cycle is in out the next.
Alu4op(n) ==
    LET Result(op, a, c) == CASE op = 0 -> Add(n, a, c)     [] op = 1 -> Sub(n, a, c)
                              [] op = 2 -> AndWord(n, a, c) [] op = 3 -> OrWord(n, a, c)
        Nxt(s, i) == [op |-> Inc(2, s.op), out |-> Result(s.op, i.a, i.c)]
        Bad(s, i) == s.out = Ones(n) /\ s.op = 1
    IN  Machine([op : Word(2), out : Word(n)], [a : Word(n), c : Word(n)],
                [op |-> 0, out |-> 0], Nxt, Bad)

LfsrTaps(n) ==
    CASE n = 2 -> <<1, 0>> [] n = 3 -> <<2, 1>> [] n = 4 -> <<3, 2>> [] n = 5 -> <<4, 2>>
      [] n = 6 -> <<5, 4>> [] n = 7 -> <<6, 5>> [] n = 8 -> <<7, 5, 4, 3>>
      [] OTHER -> <<n - 1, 0>>

\* XOR of the tapped bits of x.
Tapped(x, taps) ==
    LET upto[j \in 0 .. Len(taps)] == IF j = 0 THEN 0 ELSE Xor(upto[j-1], Bit(x, taps[j]))
    IN  upto[Len(taps)]

Lfsr(n) ==
    LET Nxt(s, i) == [s |-> Add(n, Shl1(n, s.s), Tapped(s.s, LfsrTaps(n)))]
        Bad(s, i) == s.s = 1
    IN  Machine([s : Word(n)], NoInput, [s |-> 1], Nxt, Bad)

SatAccum(n) ==
    LET Nxt(s, d) ==
            LET r == RippleAdd(n, s.acc, d, 0)
            IN  [acc  |-> IF r.carry = 1 THEN Ones(n) ELSE r.sum,
                 sat  |-> s.sat \/ r.carry = 1,
                 lost |-> s.lost \/ (s.sat /\ d # 0)]
        Bad(s, d) == s.lost
    IN  Machine([acc : Word(n), sat : BOOLEAN, lost : BOOLEAN], Word(n),
                [acc |-> 0, sat |-> FALSE, lost |-> FALSE], Nxt, Bad)

MinMax(n) ==
    LET Nxt(s, d) == [mn |-> IF Ult(n, d, s.mn) THEN d ELSE s.mn,
                      mx |-> IF Ult(n, s.mx, d) THEN d ELSE s.mx]
        Bad(s, d) == s.mn = 0 /\ s.mx = Ones(n)
    IN  Machine([mn : Word(n), mx : Word(n)], Word(n), [mn |-> Ones(n), mx |-> 0], Nxt, Bad)

ModMul(n) ==
    LET Nxt(s, i) == [x |-> Add(n, s.x, Shl1(n, s.x)), started |-> TRUE]
        Bad(s, i) == s.started /\ s.x = 1
    IN  Machine([x : Word(n), started : BOOLEAN], NoInput, [x |-> 1, started |-> FALSE], Nxt, Bad)

RingBuf(n) ==
    LET Nxt(s, i) == [wr     |-> Xor(s.wr, AsBit(i.push)),
                      rd     |-> Xor(s.rd, AsBit(i.pop)),
                      mem    |-> IF i.push THEN [s.mem EXCEPT ![s.wr] = i.d] ELSE s.mem,
                      shadow |-> Written(i.push, i.d, s.shadow),
                      valid  |-> s.valid \/ i.push]
        Bad(s, i) == i.pop /\ s.valid /\ s.wr # s.rd /\ s.mem[s.rd] # s.shadow
    IN  Machine([wr : {0, 1}, rd : {0, 1}, mem : [{0, 1} -> Word(n)], shadow : Word(n), valid : BOOLEAN],
                [push : BOOLEAN, pop : BOOLEAN, d : Word(n)],
                [wr |-> 0, rd |-> 0, mem |-> [b \in {0, 1} |-> 0], shadow |-> 0, valid |-> FALSE],
                Nxt, Bad)

Rotated(n, up) == {(i + 1) % n : i \in up}

\* wait is a unary counter of the cycles in a row that request 0 was denied.
RrArbiter(n) ==
    LET Flags == SUBSET (0 .. n - 1)
        Starved(s, req) == 0 \in req /\ 0 \notin s.ptr
        Nxt(s, req) == [ptr  |-> Rotated(n, s.ptr),
                        wait |-> IF Starved(s, req)
                                 THEN {0} \union {i \in 1 .. n - 1 : i - 1 \in s.wait}
                                 ELSE {}]
        Bad(s, req) == s.wait = 0 .. n - 1
    IN  Machine([ptr : Flags, wait : Flags], Flags, [ptr |-> {0}, wait |-> {}], Nxt, Bad)

OnehotFsm(n) ==
    LET Nxt(s, go) == [s |-> IF go THEN Rotated(n, s.s) ELSE s.s]
        Bad(s, go) == Cardinality(s.s) # 1
    IN  Machine([s : SUBSET (0 .. n - 1)], BOOLEAN, [s |-> {0}], Nxt, Bad)

CmpPipe(n) ==
    LET Nxt(s, i) == [sa |-> i.a, sc |-> i.c, pipe |-> Ult(n, s.sa, s.sc), ref |-> Ult(n, s.sa, s.sc)]
        Bad(s, i) == s.pipe # s.ref
    IN  Machine([sa : Word(n), sc : Word(n), pipe : BOOLEAN, ref : BOOLEAN], [a : Word(n), c : Word(n)],
                [sa |-> 0, sc |-> 0, pipe |-> FALSE, ref |-> FALSE], Nxt, Bad)

\* A load in the middle of a frame restarts the bit counter.
UartTx(n) ==
    LET cw == IF CeilLog2(n + 3) < 2 THEN 2 ELSE CeilLog2(n + 3)
        Advance(s, i) == s.busy /\ ~i.load
        Nxt(s, i) == [sh   |-> IF i.load THEN i.d
                               ELSE IF s.busy THEN Shr1(s.sh) + 2^(n-1) ELSE s.sh,
                      cnt  |-> IF Advance(s, i) THEN Inc(cw, s.cnt)
                               ELSE IF i.load THEN 0 ELSE s.cnt,
                      busy |-> IF s.busy THEN s.cnt # n + 1 ELSE i.load]
        Bad(s, i) == s.busy /\ RippleAdd(cw, s.cnt, 1, 0).carry = 1
    IN  Machine([sh : Word(n), cnt : Word(cw), busy : BOOLEAN], [load : BOOLEAN, d : Word(n)],
                [sh |-> 0, cnt |-> 0, busy |-> FALSE], Nxt, Bad)
=============================================================================
