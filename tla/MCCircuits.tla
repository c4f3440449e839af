----------------------------- MODULE MCCircuits -----------------------------
EXTENDS EncoderChecks

Plain(names, widths) == [lib : {"plain"}, name : names, n : widths, bug : {FALSE}]

\* Every circuit at the widths where it has few states; the periods at more.
Generated ==
    Plain({"counter", "gray", "mutex", "shift_reg", "fifo1", "alu_add", "mutex_buggy",
           "fifo1_buggy", "alu_add_buggy", "alu4op", "lfsr", "sat_accum", "minmax", "modmul",
           "ringbuf", "rr_arbiter", "onehot_fsm", "cmp_pipe", "uart_tx"}, 1 .. 3)
      \union Plain({"counter", "gray", "shift_reg", "modmul"}, {4, 5})
      \union Plain({"lfsr"}, 4 .. 8)
      \union [lib : {"v3"}, name : Names3, n : 1 .. 3, bug : BOOLEAN]
      \union [lib : {"cbmc"}, name : CbmcNames, n : 1 .. 3, bug : BOOLEAN]

\* All circuits with one latch and one input.
NoBox == [p \in Bool \X Bool |-> 0]
OfState(g) == [s, i, b \in Bool |-> g[s, i]]
AllSmall ==
    [lib : {"aig"}, reset : {0, 1, Free}, cone : {{}}, box : {NoBox},
     next : {OfState(g) : g \in [Bool \X Bool -> Bool]},
     bad  : {OfState(g) : g \in [Bool \X Bool -> Bool]}]

\* Circuits around a black box, with every completion of it.
Signal(F(_, _, _)) == [s, i, b \in Bool |-> F(s, i, b)]
BoxSignals ==
    {Signal(LAMBDA s, i, b : b),                    Signal(LAMBDA s, i, b : Xor(s, b)),
     Signal(LAMBDA s, i, b : Xor(i, b)),            Signal(LAMBDA s, i, b : s * b),
     Signal(LAMBDA s, i, b : Xor(Xor(s, i), b)),    Signal(LAMBDA s, i, b : s)}
Boxed ==
    [lib : {"aig"}, reset : {0, Free}, cone : {{"input"}, {"latch"}, {"input", "latch"}},
     box : [Bool \X Bool -> Bool], next : BoxSignals, bad : BoxSignals]

\* Programs for the register machine, swap among them as in the benchmarks.
OneBit == [W |-> 1, A |-> 1, R |-> 3, K |-> 4, out |-> 0]
ShortPrograms ==
    {<< <<"MOV", 0, 1>>, <<"HALT">> >>,
     << <<"HALT">> >>,
     << <<"MOV", 1, 1>>, <<"LOAD", 0, 1>>, <<"HALT">> >>,
     << <<"MOV", 1, 1>>, <<"STORE", 1, 1>>, <<"LOAD", 0, 1>>, <<"HALT">> >>,
     << <<"STORE", 2, 1>>, <<"LOAD", 0, 2>>, <<"HALT">> >>,
     << <<"LOAD", 1, 2>>, <<"BEQ", 0, 1, 3>>, <<"MOV", 0, 1>>, <<"HALT">> >>,
     << <<"MOV", 0, 1>>, <<"BEQ", 0, 0, 1>>, <<"HALT">> >>}
ArithmeticPrograms ==
    {<< <<"XOR", 0, 1, 2>>, <<"HALT">> >>,
     << <<"MOV", 1, 1>>, <<"ADD", 0, 1, 2>>, <<"HALT">> >>}
\* An operation on two words, against one word.
Operation(op, x, y) == << <<"MOV", 1, x>>, <<"MOV", 2, y>>, <<op, 0, 1, 2>>, <<"HALT">> >>
Operations(ops, W) == {Operation(op, x, y) : op \in ops, x, y \in Word(W)}
Outputs(W) == {<< <<"MOV", 0, z>>, <<"HALT">> >> : z \in Word(W)}
SwapTmp ==
    << <<"MOV", 1, 0>>, <<"MOV", 2, 1>>, <<"LOAD", 0, 1>>, <<"LOAD", 3, 2>>, <<"STORE", 1, 3>>,
       <<"STORE", 2, 0>>, <<"LOAD", 0, 1>>, <<"HALT">> >>
SwapXor ==
    << <<"MOV", 1, 0>>, <<"MOV", 2, 1>>, <<"LOAD", 0, 1>>, <<"LOAD", 3, 2>>, <<"XOR", 0, 0, 3>>,
       <<"XOR", 3, 0, 3>>, <<"XOR", 0, 0, 3>>, <<"STORE", 1, 3>>, <<"STORE", 2, 0>>,
       <<"LOAD", 0, 1>>, <<"HALT">> >>

Pairs(P, Q, cfg) == [lib : {"prog"}, p : P, q : Q, cfg : {cfg}]
ProgPairs ==
    Pairs(ShortPrograms, ShortPrograms, OneBit)
      \union Pairs(ArithmeticPrograms, {<< <<"MOV", 0, 1>>, <<"HALT">> >>, << <<"HALT">> >>}, OneBit)
      \union Pairs(Operations({"ADD", "XOR"}, 2), Outputs(2), [OneBit EXCEPT !.W = 2])
      \union Pairs({Operation("ADD", 1, 3)}, Outputs(3), [OneBit EXCEPT !.W = 3])
      \union Pairs({SwapTmp}, {SwapTmp, SwapXor}, [OneBit EXCEPT !.R = 4, !.K = 16])

\* Functions of up to four inputs, with the number of gates or layers to search.
Synth(names, n, depth, limit) ==
    [lib : {"synth"}, name : names, n : {n}, depth : {depth}, limit : {limit}]
Functions2 == {"and", "or", "xor", "maj", "exact1", "exacthalf", "thresh2", "inc", "popcnt",
               "lzc", "prienc", "onehot"}
SynthSet ==
    Synth(Functions2, 2, FALSE, 2) \union Synth(Functions2, 2, TRUE, 2)
      \union Synth({"and", "or", "xor", "maj", "inc", "popcnt"}, 3, FALSE, 2)
      \union Synth({"and", "or", "xor", "inc"}, 3, TRUE, 2)
      \union Synth({"eq", "lt", "add", "feistel", "mul"}, 1, FALSE, 2)
      \union Synth({"mux"}, 1, FALSE, 2) \union Synth({"mux"}, 1, TRUE, 2)
      \union Synth({"eq", "lt"}, 2, TRUE, 2)

\* Functions that are only evaluated, at the generator's widths 2 and 4.
EvaluatedSet ==
    Synth({"add", "mul", "mux", "feistel", "fpadd23", "fpadd32"}, 2, FALSE, 0)
      \union Synth((Functions2 \ {"exact1"}) \union {"eq", "lt", "add", "mul", "feistel"}, 4, FALSE, 0)

MCCircuitSet ==
    Generated \union AllSmall \union ProgPairs \union SynthSet \union EvaluatedSet
      \union {c \in Boxed : \A s, i \in Bool :
                 /\ "latch" \notin c.cone => c.box[s, i] = c.box[0, i]
                 /\ "input" \notin c.cone => c.box[s, i] = c.box[s, 0]}
=============================================================================
