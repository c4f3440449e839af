--------------------------- MODULE EncoderChecks ---------------------------
(***************************************************************************)
(* What the encoders promise, against the reachability that CircuitReach   *)
(* computes: at step t the state knows whether bad is reached at a bound   *)
(* of at most t, and the formulas for k = t are evaluated beside it.       *)
(***************************************************************************)
EXTENDS CircuitReach

IsPlainAig == circ.lib = "aig" /\ circ.cone = {}
HasReset == circ.reset # Free

ReachableBad == hit # NeverHit

\* No input trace from s is bad within k steps.
SafeFor(k, s) ==
    LET m == MachineOf(circ)
        reach[j \in Nat] == IF j = 0 THEN {s} ELSE Image(m, reach[j - 1])
    IN  \A j \in 0 .. k : ~BadIn(m, reach[j])
SafeFrom(s) == SafeFor(t, s)

\* bmc2dqbf answers the bounded question: some input trace from some initial
\* state is bad at a step of at most k.  The formula over a step counter is
\* true exactly when the unrolled one is.  With safe=True the inputs are
\* universal and each latch is a function of the inputs before it: the formula
\* says that every trace avoids bad, but from one initial state only, since an
\* initial value that the circuit leaves open is existential.
BmcExact ==
    IsPlainAig =>
       /\ Encode(circ, t, FALSE, FALSE) <=> ReachableBad
       /\ EncodeSuccinct(circ, t) <=> ReachableBad
       /\ Encode(circ, t, TRUE, TRUE) <=> \E s \in InitialStates(circ) : SafeFrom(s)
       /\ HasReset => (Encode(circ, t, TRUE, TRUE) <=> ~ReachableBad)

\* hwmc2dqbf_indinv: an inductive invariant exists exactly when bad is not
\* reachable at any depth, if every latch has a reset.  For a latch without
\* one the formula speaks of the initial value 1 only.
IndInvExact ==
    IsPlainAig /\ Exhausted =>
       /\ EncodeIndInv(circ) <=> \A s \in InitCube(circ.reset) : SafeFrom(s)
       /\ HasReset => (EncodeIndInv(circ) <=> ~ReachableBad)

\* pec2dqbf: the formula is necessary for a completion to exist, so that its
\* refutation refutes every box, as long as no latch feeds the box; and the
\* formula over a step counter asks less than the unrolled one.
PecRefutes ==
    circ.lib = "aig" /\ circ.cone # {} =>
       /\ "latch" \notin circ.cone /\ ~ReachableBad => PecUnrolled(circ, t, TRUE)
       /\ PecUnrolled(circ, t, TRUE) => PecSuccinct(circ, t, TRUE)
       /\ PecUnrolled(circ, t, FALSE) => PecSuccinct(circ, t, FALSE)

----------------------------------------------------------------------------
\* circuitsynth2dqbf.  The known optima are optima: with one gate, or layer,
\* less there is no circuit (the label "unsat" of the generator), with as many
\* there is one.  Where no optimum is known, upper_gates gates are enough, and
\* upper_depth layers (the label "sat"), but for the comparison of two words of
\* two bits: it has no circuit of two layers, and its upper_depth is two.  The
\* bounds are known from the evaluator; the gates that stand for the function in
\* the clauses must compute the same, and n_outputs bits must hold its values.
KnownOptimum ==
    IF circ.depth THEN KnownDepth(circ.name, circ.n) ELSE KnownGates(circ.name, circ.n)
UpperBound ==
    IF circ.depth THEN UpperDepth(circ.name, circ.n) ELSE UpperGates(circ.name, circ.n)

OptimaExact ==
    circ.lib = "synth" =>
       /\ t = 0 => \A x \in Rows(circ.name, circ.n) :
                      /\ SpecClauses(circ.name, circ.n, x) = Eval(circ.name, circ.n, x)
                      /\ Eval(circ.name, circ.n, x) \in Word(NOutputs(circ.name, circ.n))
       /\ KnownOptimum # Unknown => hit = IF t >= KnownOptimum THEN KnownOptimum ELSE NeverHit
       /\ t = UpperBound => (hit = NeverHit <=> circ.depth /\ circ.name = "lt" /\ circ.n = 2)

----------------------------------------------------------------------------
\* progequiv2dqbf
Uses(c, ops) == \E prog \in {c.p, c.q} : \E i \in 1 .. Len(prog) : prog[i][1] \in ops
RunToLastStep ==
    circ.lib = "prog" /\ (t = LastStep(circ.cfg) \/ (t < LastStep(circ.cfg) /\ Exhausted))

Arithmetic(prog) == {i \in DOMAIN prog : prog[i][1] \in {"ADD", "XOR"}}

\* Where three XORs of a program without jumps exchange two registers.
Swaps(prog) ==
    {i \in 1 .. Len(prog) - 2 : \E a, b \in Regs(circ.cfg) :
        /\ a # b /\ ~Uses(circ, {"BEQ"})
        /\ SubSeq(prog, i, i + 2) = << <<"XOR", a, a, b>>, <<"XOR", b, a, b>>, <<"XOR", a, a, b>> >>}
OnlySwaps(prog) == Arithmetic(prog) = UNION {i .. i + 2 : i \in Swaps(prog)}

\* The output of a program that reads nothing.
Output(prog) ==
    Run("isa", circ.cfg, prog, [a \in Word(circ.cfg.A) |-> 0], LastStep(circ.cfg)).reg[circ.cfg.out]

\* XOR is negated at every width, and so is ADD up to two bits; from three bits
\* on the carry is lost wherever it is passed on without being made anew.
CarryMadeAnew(x, y) == Bit(x, 0) * Bit(y, 0) = 1 => Bit(x, 1) * Bit(y, 1) = 1
ArithmeticNegated(W) ==
    \A x, y \in Word(W) :
       /\ EncodedXor(W, x, y) = Ones(W) - XorWord(W, x, y)
       /\ W <= 2 => EncodedAdd(W, x, y) = Ones(W) - Add(W, x, y)
       /\ W = 3 => (EncodedAdd(W, x, y) = Ones(W) - Add(W, x, y) <=> CarryMadeAnew(x, y))

\* The formula constrains the two runs by clauses; here they are the runs of the
\* pair by the instruction set.  For programs without ADD and XOR, and for those
\* whose XORs exchange registers, which three negations leave right, the formula
\* is true exactly when there is a memory image whose run never has both halted
\* with different outputs, as far as the step counter goes: a refutation shows
\* that they differ on every image, and only for programs that read nothing does
\* the formula decide their equivalence.  With one ADD or XOR it is true exactly
\* when one output is the negation of the other.
ProgEquivExact ==
    /\ RunToLastStep /\ OnlySwaps(circ.p) /\ OnlySwaps(circ.q) =>
          /\ EncodeBounded(circ.cfg, circ.p, circ.q) <=>
                \E s \in InitialStates(circ) : SafeFor(LastStep(circ.cfg), s)
          /\ ~Uses(circ, {"LOAD"}) => (EncodeBounded(circ.cfg, circ.p, circ.q) <=> ~ReachableBad)
    /\ RunToLastStep /\ Cardinality(Arithmetic(circ.p)) = 1 /\ Arithmetic(circ.q) = {}
       /\ ~Uses(circ, {"LOAD"}) /\ circ.cfg.W <= 2 =>
          (EncodeBounded(circ.cfg, circ.p, circ.q) <=>
              Output(circ.p) = Ones(circ.cfg.W) - Output(circ.q))
    /\ circ.lib = "prog" /\ t = 0 => ArithmeticNegated(circ.cfg.W)
=============================================================================
