---------------------------- MODULE BmcCircuits3 ----------------------------
(***************************************************************************)
(* tools/bmc2dqbf/circuits_v3.py: eleven blocks, each with a switch `bug'  *)
(* that injects one fault, and the bound KBad that the code writes into    *)
(* the manifest as the smallest one at which the faulty block is bad.      *)
(***************************************************************************)
EXTENDS Words, FiniteSets, FiniteSetsExt

Traffic(n, bug) ==
    LET Nxt(s, i) == [p    |-> IF s.t = 0 THEN Add(2, s.p, IF bug THEN 2 ELSE 1) ELSE s.p,
                      t    |-> IF s.t = 0 THEN Ones(n) ELSE Add(n, s.t, Ones(n)),
                      prev |-> s.p = 0]
        Bad(s, i) == s.p = 2 /\ s.prev
    IN  Machine([p : Word(2), t : Word(n), prev : BOOLEAN], NoInput,
                [p |-> 0, t |-> Ones(n), prev |-> TRUE], Nxt, Bad)

\* A width of 1 has the same tap twice.
CrcTaps(n) ==
    CASE n = 4  -> <<3, 0>>           [] n = 8  -> <<7, 5, 4, 3>>
      [] n = 12 -> <<11, 10, 7, 5>>   [] n = 16 -> <<15, 14, 12, 3>>
      [] n = 20 -> <<19, 16>>         [] n = 24 -> <<23, 22, 21, 16>>
      [] n = 32 -> <<31, 21, 1, 0>>   [] OTHER  -> <<n - 1, 0>>

Crc(n, bug) ==
    LET taps == CrcTaps(n)
        Feedback(x, d) == (d + MapThenSumSet(LAMBDA i : Bit(x, taps[i]), DOMAIN taps)) % 2
        Shift(x, d) == Add(n, Shl1(n, x), Feedback(x, d))
        Nxt(s, d) == [r |-> Shift(s.r, d), z |-> Shift(s.z, IF bug THEN 0 ELSE d)]
        Bad(s, d) == s.r # s.z
    IN  Machine([r : Word(n), z : Word(n)], {0, 1}, [r |-> 0, z |-> 0], Nxt, Bad)

\* Zeros above the highest bit of x; the arm for x = 0 is where the fault is.
LeadingZeros(n, x, empty) == IF x = 0 THEN empty ELSE n - 1 - Max(BitSet(x, n))

Lzc(n, bug) ==
    LET cw == Bits(n + 1)
        Nxt(s, x) == [cnt |-> Const(cw, LeadingZeros(n, x, IF bug THEN n + 1 ELSE n))]
        Bad(s, x) == Ult(cw, n, s.cnt)
    IN  Machine([cnt : Word(cw)], Word(n), [cnt |-> 0], Nxt, Bad)

RotateBy(n, x, k) == FromBits(n, LAMBDA i : Bit(x, (i + k) % n))

\* Stage j rotates by 2^j when bit j of s is set; stage 0 is stuck in the fault.
Barrel(n, bug) ==
    LET sw == Bits(n - 1)
        Rotated(x, sel) ==
            LET stage[j \in 0 .. sw] ==
                    IF j = 0 THEN x
                    ELSE IF Bit(sel, j - 1) = 1 \/ (bug /\ j = 1)
                         THEN RotateBy(n, stage[j-1], 2^(j-1) % n) ELSE stage[j-1]
            IN  stage[sw]
        Nxt(s, i) == [out |-> Rotated(i.x, i.s), sx |-> i.x, ss |-> i.s]
        Bad(s, i) == s.ss = 0 /\ s.out # s.sx
    IN  Machine([out : Word(n), sx : Word(n), ss : Word(sw)], [x : Word(n), s : Word(sw)],
                [out |-> 0, sx |-> 0, ss |-> 0], Nxt, Bad)

BcdCtr(n, bug) ==
    LET Limit(i) == IF bug /\ i = 0 THEN 10 ELSE 9
        Carry(s, i) == \A j \in 0 .. i - 1 : s.d[j] = Limit(j)
        Digit(s, i) == IF ~Carry(s, i) THEN s.d[i]
                       ELSE IF s.d[i] = Limit(i) THEN 0 ELSE Inc(4, s.d[i])
        Nxt(s, x) == [d |-> [i \in 0 .. n - 1 |-> Digit(s, i)]]
        Bad(s, x) == \E i \in 0 .. n - 1 : Ult(4, 9, s.d[i])
    IN  Machine([d : [0 .. n - 1 -> Word(4)]], NoInput, [d |-> [i \in 0 .. n - 1 |-> 0]], Nxt, Bad)

Debounce(n, bug) ==
    LET cw == Bits(n + 1)
        Held(c) == IF c = n /\ ~bug THEN c ELSE Inc(cw, c)
        Nxt(s, d) == [cnt |-> IF d = s.prev THEN Held(s.cnt) ELSE 0, prev |-> d]
        Bad(s, d) == Ult(cw, n, s.cnt)
    IN  Machine([cnt : Word(cw), prev : {0, 1}], {0, 1}, [cnt |-> 0, prev |-> 0], Nxt, Bad)

\* A load wins over everything that happens in its cycle.
SpiCtrl(n, bug) ==
    LET cw == Bits(n)
        Hit(s) == s.cnt = IF bug THEN n - 1 ELSE n
        Nxt(s, load) ==
            [cnt  |-> IF load THEN 0 ELSE IF s.busy /\ ~Hit(s) THEN Inc(cw, s.cnt) ELSE s.cnt,
             busy |-> load \/ (s.busy /\ ~Hit(s)),
             done |-> s.busy /\ Hit(s) /\ ~load]
        Bad(s, load) == s.done /\ s.cnt # n
    IN  Machine([cnt : Word(cw), busy : BOOLEAN, done : BOOLEAN], BOOLEAN,
                [cnt |-> 0, busy |-> FALSE, done |-> FALSE], Nxt, Bad)

PrioEnc(n, bug) ==
    LET Seen(x) == IF bug THEN x \ {n - 1} ELSE x
        Nxt(s, x) == [idx |-> IF Seen(x) = {} THEN 0 ELSE Max(Seen(x)), valid |-> x # {}, sx |-> x]
        Picked(s) == (IF s.idx \in 1 .. n - 1 THEN s.idx ELSE 0) \in s.sx
        Bad(s, x) == s.valid /\ ~Picked(s)
        Flags == SUBSET (0 .. n - 1)
    IN  Machine([idx : Word(Bits(n - 1)), valid : BOOLEAN, sx : Flags], Flags,
                [idx |-> 0, valid |-> FALSE, sx |-> {}], Nxt, Bad)

ParityPipe(n, bug) ==
    LET Nxt(s, x) == [sx   |-> x,
                      pipe |-> Parity(IF bug THEN s.sx - Bit(s.sx, 0) ELSE s.sx, n),
                      ref  |-> Parity(s.sx, n)]
        Bad(s, x) == s.pipe # s.ref
    IN  Machine([sx : Word(n), pipe : {0, 1}, ref : {0, 1}], Word(n),
                [sx |-> 0, pipe |-> 0, ref |-> 0], Nxt, Bad)

UpDown(n, bug) ==
    LET DownOk(s) == bug \/ s.c # 0
        Nxt(s, up) == [c     |-> IF up THEN Inc(n, s.c)
                                 ELSE IF DownOk(s) THEN Add(n, s.c, Ones(n)) ELSE s.c,
                       uflow |-> ~up /\ DownOk(s) /\ s.c = 0]
        Bad(s, up) == s.uflow
    IN  Machine([c : Word(n), uflow : BOOLEAN], BOOLEAN, [c |-> 0, uflow |-> FALSE], Nxt, Bad)

Hamming(n, bug) ==
    LET Flip(x) == IF bug THEN (IF x % 2 = 0 THEN x + 1 ELSE x - 1) ELSE x
        Nxt(s, i) == IF i.we THEN [a |-> i.d, c |-> Flip(i.d)] ELSE s
        Bad(s, i) == s.a # s.c
    IN  Machine([a : Word(n), c : Word(n)], [we : BOOLEAN, d : Word(n)],
                [a |-> 0, c |-> 0], Nxt, Bad)

----------------------------------------------------------------------------
\* The third component that the builders return for bug = True.
KBad(name, n) ==
    CASE name = "traffic" -> 2^n
      [] name = "bcd_ctr" -> 10
      [] name \in {"debounce", "spi_ctrl"} -> n + 1
      [] name = "parity_pipe" -> 2
      [] OTHER -> 1

Circuit3(name, n, bug) ==
    CASE name = "traffic"  -> Traffic(n, bug)   [] name = "crc" -> Crc(n, bug)
      [] name = "lzc"      -> Lzc(n, bug)       [] name = "barrel" -> Barrel(n, bug)
      [] name = "bcd_ctr"  -> BcdCtr(n, bug)    [] name = "debounce" -> Debounce(n, bug)
      [] name = "spi_ctrl" -> SpiCtrl(n, bug)   [] name = "prio_enc" -> PrioEnc(n, bug)
      [] name = "parity_pipe" -> ParityPipe(n, bug)
      [] name = "updown"   -> UpDown(n, bug)    [] name = "hamming" -> Hamming(n, bug)

Names3 == {"traffic", "crc", "lzc", "barrel", "bcd_ctr", "debounce", "spi_ctrl", "prio_enc",
           "parity_pipe", "updown", "hamming"}
=============================================================================
