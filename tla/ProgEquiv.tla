----------------------------- MODULE ProgEquiv -----------------------------
(***************************************************************************)
(* tools/progequiv2dqbf: pairs of programs for a small register machine,   *)
(* and the formula about their equivalence.  A program is a sequence of    *)
(* instructions as isa.parse returns them, the last of which is HALT; a    *)
(* configuration has the fields W (word_bits), A (addr_bits), R (n_regs),  *)
(* K (bound) and out (out_reg).                                            *)
(***************************************************************************)
EXTENDS Words

Regs(c) == 0 .. c.R - 1
Images(c) == [Word(c.A) -> Word(c.W)]
Address(c, w) == w % 2^c.A

\* Bits of the program counter.
PcBits(prog) == IF Len(prog) = 1 THEN 1 ELSE CeilLog2(Len(prog))

Start(c, image) == [pc |-> 0, reg |-> [r \in Regs(c) |-> 0], mem |-> image]
Halted(prog, st) == st.pc = Len(prog) - 1

\* What isa.py says ADD and XOR do.
XorWord(W, x, y) == FromBits(W, LAMBDA i : Xor(Bit(x, i), Bit(y, i)))

\* What _Builder.ripple_add and the XOR case of _emit_step emit: t_iff makes
\* its output the equivalence of two literals, where the comments want the
\* exclusive or, and XOR negates an output that was the exclusive or already.
Same(a, b) == 1 - Xor(a, b)

EncodedAdd(W, x, y) ==
    LET xy(i) == Same(Bit(x, i), Bit(y, i))
        carry[i \in 0 .. W] ==
            IF i = 0 THEN 0
            ELSE IF Bit(x, i-1) * Bit(y, i-1) = 1 \/ (i > 1 /\ xy(i-1) * carry[i-1] = 1) THEN 1 ELSE 0
    IN  FromBits(W, LAMBDA i : Xor(xy(i), carry[i]))

EncodedXor(W, x, y) == FromBits(W, LAMBDA i : Same(Bit(x, i), Bit(y, i)))

\* One instruction, as isa.py says or as the clauses of the formula have it.
Step(by, c, prog, st) ==
    LET ins == prog[st.pc + 1]
        a == st.reg[ins[3]]
        b == st.reg[ins[4]]
        To(rd, w) == [st EXCEPT !.pc = Inc(PcBits(prog), st.pc), !.reg[rd] = w]
    IN  CASE ins[1] = "MOV"   -> To(ins[2], Const(c.W, ins[3]))
          [] ins[1] = "LOAD"  -> To(ins[2], st.mem[Address(c, a)])
          [] ins[1] = "ADD"   -> To(ins[2], IF by = "isa" THEN Add(c.W, a, b) ELSE EncodedAdd(c.W, a, b))
          [] ins[1] = "XOR"   -> To(ins[2], IF by = "isa" THEN XorWord(c.W, a, b) ELSE EncodedXor(c.W, a, b))
          [] ins[1] = "STORE" -> [st EXCEPT !.pc = Inc(PcBits(prog), st.pc),
                                            !.mem[Address(c, st.reg[ins[2]])] = a]
          [] ins[1] = "BEQ"   -> [st EXCEPT !.pc = IF st.reg[ins[2]] = a THEN ins[4]
                                                   ELSE Inc(PcBits(prog), st.pc)]
          [] ins[1] = "HALT"  -> st

----------------------------------------------------------------------------
\* The state at step t of the run from an image.
Run(by, c, prog, image, t) ==
    LET run[j \in 0 .. t] == IF j = 0 THEN Start(c, image) ELSE Step(by, c, prog, run[j-1])
    IN  run[t]

AgreeAt(by, c, p, q, image, t) ==
    LET sp == Run(by, c, p, image, t)
        sq == Run(by, c, q, image, t)
    IN  Halted(p, sp) /\ Halted(q, sq) => sp.reg[c.out] = sq.reg[c.out]

----------------------------------------------------------------------------
\* The step counter has ceil(log2(max(K, 2))) bits, and all its values count.
LastStep(c) == 2^CeilLog2(IF c.K < 2 THEN 2 ELSE c.K) - 1

\* Registers and program counters are functions of the step, memory is one of
\* step and address, and from step 0 on they are determined by the contents of
\* memory at step 0.  That is an existential like the others; only the two
\* programs must have the same.
SharedImageZero(c, f) == f[[a \in Word(c.A) |-> 0]]                    \* a mutant
SharedImage(c, f) == \E image \in Images(c) : f[image]

EncodeBounded(c, p, q) ==
    SharedImage(c, [image \in Images(c) |->
        \A t \in 0 .. LastStep(c) : AgreeAt("formula", c, p, q, image, t)])

\* The pair as a machine that runs both programs by the instruction set, and
\* is bad when both have halted with different outputs.
ProgState(c, prog) == [pc : Word(PcBits(prog)), reg : [Regs(c) -> Word(c.W)], mem : Images(c)]

PairStarts(c) == {<<Start(c, image), Start(c, image)>> : image \in Images(c)}

PairMachine(c, p, q) ==
    LET Nxt(s, i) == <<Step("isa", c, p, s[1]), Step("isa", c, q, s[2])>>
        Bad(s, i) == Halted(p, s[1]) /\ Halted(q, s[2]) /\ s[1].reg[c.out] # s[2].reg[c.out]
    IN  Machine(ProgState(c, p) \X ProgState(c, q), NoInput, {}, Nxt, Bad)
=============================================================================
