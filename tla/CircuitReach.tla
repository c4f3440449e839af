---------------------------- MODULE CircuitReach ----------------------------
(***************************************************************************)
(* What the labels of the circuit benchmarks speak about: at which bound   *)
(* bad is first reached.  The state is a breadth-first unrolling of one    *)
(* circuit, step by step as bmc2dqbf.encode lays out its frames: the       *)
(* states of frame t are the images of those of frame t - 1 under every    *)
(* input, and bad is looked for in every frame.  `front' holds the states  *)
(* first reached at step t, so an empty front ends the search for good.    *)
(***************************************************************************)
EXTENDS BmcCircuits, BmcCircuits3, CbmcCircuits, AigEncoders, ProgEquiv,
        CircuitSynth

(***************************************************************************)
(* Members of Circuits have a field lib.  "plain", "v3" and "cbmc" are the *)
(* builders, with fields name, n and bug.  "aig" is a circuit in the form  *)
(* that AigEncoders describes, where the field `box' is one completion of  *)
(* its black box: that completion is the circuit that is unrolled.  "prog" *)
(* is a pair of programs p and q with their configuration cfg.  "synth" is *)
(* the search for a circuit: a state is a set of wires, a step adds a gate *)
(* or, with depth, a layer, at most `limit' of them, and the goal takes    *)
(* the place of bad.                                                       *)
(***************************************************************************)
CONSTANT Circuits

VARIABLES circ, t, front, seen, hit

vars == <<circ, t, front, seen, hit>>

NeverHit == -1

PlainCircuit(name, n) ==
    CASE name = "counter" -> Counter(n)         [] name = "gray" -> Gray(n)
      [] name = "mutex" -> Mutex(n)             [] name = "shift_reg" -> ShiftReg(n)
      [] name = "fifo1" -> Fifo1(n)             [] name = "alu_add" -> AluAdd(n)
      [] name = "mutex_buggy" -> MutexBuggy(n)  [] name = "fifo1_buggy" -> Fifo1Buggy(n)
      [] name = "alu_add_buggy" -> AluAddBuggy(n)
      [] name = "alu4op" -> Alu4op(n)           [] name = "lfsr" -> Lfsr(n)
      [] name = "sat_accum" -> SatAccum(n)      [] name = "minmax" -> MinMax(n)
      [] name = "modmul" -> ModMul(n)           [] name = "ringbuf" -> RingBuf(n)
      [] name = "rr_arbiter" -> RrArbiter(n)    [] name = "onehot_fsm" -> OnehotFsm(n)
      [] name = "cmp_pipe" -> CmpPipe(n)        [] name = "uart_tx" -> UartTx(n)

AigMachine(c) ==
    LET m == Completed(c, c.box)
    IN  Machine(Bool, Bool, {}, LAMBDA s, i : m.next[s, i, 0], LAMBDA s, i : m.bad[s, i, 0] = 1)

MachineOf(c) ==
    CASE c.lib = "plain" -> PlainCircuit(c.name, c.n)
      [] c.lib = "v3"    -> Circuit3(c.name, c.n, c.bug)
      [] c.lib = "cbmc"  -> CbmcCircuit(c.name, c.n, c.bug)
      [] c.lib = "aig"   -> AigMachine(c)
      [] c.lib = "prog"  -> PairMachine(c.cfg, c.p, c.q)

InitialStates(c) ==
    CASE c.lib = "aig"  -> ResetStates(c.reset)
      [] c.lib = "prog" -> PairStarts(c.cfg)
      [] c.lib = "synth" -> {InputWires(c.name, c.n)}
      [] OTHER          -> {MachineOf(c).reset}

Image(m, F) == {m.next[s, i] : s \in F, i \in m.input}
BadIn(m, F) == \E s \in F, i \in m.input : m.bad[s, i]

Successors(c, F) ==
    IF c.lib # "synth" THEN Image(MachineOf(c), F)
    ELSE UNION {IF c.depth THEN AddLayer(c.name, c.n, pool) ELSE AddGate(c.name, c.n, pool) : pool \in F}
BadAmong(c, F) ==
    IF c.lib # "synth" THEN BadIn(MachineOf(c), F)
    ELSE \E pool \in F : Computes(c.name, c.n, pool)

Init ==
    /\ circ \in Circuits
    /\ t = 0
    /\ front = InitialStates(circ)
    /\ seen = front
    /\ hit = IF BadAmong(circ, front) THEN 0 ELSE NeverHit

\* One more frame.
Unroll ==
    LET new == Successors(circ, front) \ seen
    IN  /\ front # {}
        /\ circ.lib = "synth" => t < circ.limit
        /\ front' = new
        /\ seen' = seen \union new
        /\ t' = t + 1
        /\ hit' = IF hit = NeverHit /\ BadAmong(circ, new) THEN t + 1 ELSE hit
        /\ UNCHANGED circ

Spec == Init /\ [][Unroll]_vars

Exhausted == front = {}

----------------------------------------------------------------------------
\* Next states are states: every latch gets a value of its width.
TypeOK ==
    /\ circ \in Circuits
    /\ t \in Nat
    /\ hit \in {NeverHit} \union 0 .. t
    /\ front \subseteq seen
    /\ IF circ.lib = "synth" THEN UNION seen \subseteq SUBSET Rows(circ.name, circ.n)
                             ELSE seen \subseteq MachineOf(circ).state

\* Bad is first reached at bound d; as far as the search has come, or not at all.
FirstBadAt(d) ==
    /\ hit = IF d # NeverHit /\ t >= d THEN d ELSE NeverHit
    /\ Exhausted /\ d # NeverHit => hit = d

\* The labels of the generated benchmarks: a faulty circuit of circuits_v3 is
\* bad at k_bad and not before (generate.py labels every smaller k unsat), a
\* faulty loop at its BUG_DEPTH at the latest, the correct variants never.
\* The generators use widths of two and more.
LabelsExact ==
    /\ circ.lib = "v3" /\ circ.n >= 2 =>
          FirstBadAt(IF circ.bug THEN KBad(circ.name, circ.n) ELSE NeverHit)
    /\ circ.lib = "cbmc" /\ circ.n >= 2 =>
          LET label == ExpectedAt(circ.name, circ.n, circ.bug, t)
          IN  /\ label = "sat" => hit # NeverHit
              /\ label = "unsat" => hit = NeverHit
              /\ Exhausted /\ circ.bug => hit # NeverHit

\* The bound at which a circuit of circuits.py, circuits_v2.py or
\* circuits_buggy.py is first bad, for n >= 2.  For gray, alu4op, sat_accum
\* and modmul these are not the bounds that their docstrings give.  The taps
\* of lfsr are those of a primitive polynomial: it runs through every state but
\* 0 before it returns to the seed.
BuiltDepth(name, n) ==
    CASE name = "counter" -> 2^n - 1
      [] name = "gray" -> (2^(n+1) - 2 + (n % 2)) \div 3         \* binary 1010...
      [] name = "shift_reg" -> n
      [] name \in {"mutex_buggy", "fifo1_buggy", "alu_add_buggy", "alu4op"} -> 1
      [] name = "lfsr" -> 0
      [] name = "sat_accum" -> 3
      [] name = "minmax" -> 2
      [] name = "modmul" -> IF n = 2 THEN 2 ELSE 2^(n-2)
      [] OTHER -> NeverHit

DepthAsBuilt ==
    circ.lib = "plain" /\ circ.n >= 2 =>
       /\ FirstBadAt(BuiltDepth(circ.name, circ.n))
       /\ circ.name = "lfsr" /\ circ.n <= 8 /\ Exhausted =>
             seen = [s : 1 .. 2^circ.n - 1] /\ t = 2^circ.n - 1

=============================================================================
