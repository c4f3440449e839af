---------------------------- MODULE AigEncoders ----------------------------
(***************************************************************************)
(* The encoders from sequential circuits into DQBF, each as what the truth *)
(* of its formula says: an existential variable is a function of the       *)
(* universals in its dependency set, and the clauses are the body.         *)
(*                                                                         *)
(* tools/bmc2dqbf/encode.py             Encode, EncodeSuccinct             *)
(* tools/hwmc2dqbf_indinv/encode.py     EncodeIndInv                       *)
(* tools/pec2dqbf/encode.py             PecUnrolled, PecSuccinct           *)
(*                                                                         *)
(* A circuit is an AIGER file with one latch and one input, so that all of *)
(* its functions can be enumerated.  Field `reset' is 0, 1 or Free, which  *)
(* the format writes as the latch's own literal.  Gates are definitions    *)
(* and stay inside `next' and `bad', but for the output of a black box,    *)
(* which these two take as their last argument; field `cone' names the     *)
(* leaves that its operands depend on.                                     *)
(***************************************************************************)
EXTENDS Words, FiniteSets

Free == 2
Bool == {0, 1}

ResetStates(reset) == {s \in Bool : reset = Free \/ s = reset}

----------------------------------------------------------------------------
\* bmc2dqbf.  A latch of step j may depend on the inputs of the steps before
\* it, and it is the same function for all inputs that agree on these.
Prefixes(k) == UNION {[1 .. j -> Bool] : j \in 0 .. k}
Prior(ins, j) == SubSeq(ins, 1, j)

Unrolled(m, k, safe, L, ins) ==
    /\ L[<<>>] \in ResetStates(m.reset)
    /\ \A j \in 0 .. k - 1 : L[Prior(ins, j + 1)] = m.next[L[Prior(ins, j)], ins[j + 1], 0]
    /\ IF safe THEN \A j \in 0 .. k : m.bad[L[Prior(ins, j)], ins[j + 1], 0] = 0
               ELSE \E j \in 0 .. k : m.bad[L[Prior(ins, j)], ins[j + 1], 0] = 1

Encode(m, k, safe, forall_inputs) ==
    IF forall_inputs
    THEN \E L \in [Prefixes(k) -> Bool] : \A ins \in [1 .. k + 1 -> Bool] : Unrolled(m, k, safe, L, ins)
    ELSE \E ins \in [1 .. k + 1 -> Bool] :
         \E L \in [{Prior(ins, j) : j \in 0 .. k} -> Bool] : Unrolled(m, k, safe, L, ins)

\* Bits of the step counter: max(1, ceil(log2(k + 1))).
IndexBits(k) == IF k = 0 THEN 1 ELSE CeilLog2(k + 1)
Index(k) == 0 .. 2^IndexBits(k) - 1

\* STEP: t' is the sum bits of t + 1, and the carry out of the last is 0.
IsStepWrapping(k, t, tp) == tp = RippleAdd(IndexBits(k), t, 0, 1).sum            \* a mutant
IsStep(k, t, tp) == LET r == RippleAdd(IndexBits(k), t, 0, 1) IN tp = r.sum /\ r.carry = 0

\* EQ makes the latches over t' the same functions as those over t.
EncodeSuccinct(m, k) ==
    \E lat, inp \in [Index(k) -> Bool], T \in 0 .. k :
       /\ lat[0] \in ResetStates(m.reset)
       /\ \A t, tp \in Index(k) : IsStep(k, t, tp) => lat[tp] = m.next[lat[t], inp[t], 0]
       /\ m.bad[lat[T], inp[T], 0] = 1

----------------------------------------------------------------------------
\* hwmc2dqbf_indinv.  The cube `init' has the latch negated when its reset is
\* 0, and positive otherwise.
InitCube(reset) == IF reset = 0 THEN {0} ELSE {1}

InvForward(inv, sp) == TRUE                                            \* a mutant
InvPrimed(inv, sp) == inv[sp]

EncodeIndInv(m) ==
    \E inv \in [Bool -> BOOLEAN] :
       /\ \A s \in InitCube(m.reset) : inv[s]
       /\ \A s, i \in Bool : inv[s] => m.bad[s, i, 0] = 0
       /\ \A s, i, sp \in Bool : inv[s] /\ sp = m.next[s, i, 0] => InvPrimed(inv, sp)

----------------------------------------------------------------------------
\* pec2dqbf.  A latch without a reset starts at 0.  The output of the box at a
\* step is a function of the inputs of that step in its cone, and of no latch.
PecReset(reset) == IF reset = 1 THEN 1 ELSE 0
BoxPinless(cone, i) == 0                                               \* a mutant
BoxPins(cone, i) == IF "input" \in cone THEN i ELSE 0

\* The value of the latch at step j, when the box outputs are box[j][pins].
PecRun(m, box, ins) ==
    LET lat[j \in 0 .. Len(ins)] ==
            IF j = 0 THEN PecReset(m.reset)
            ELSE m.next[lat[j-1], ins[j], box[j-1][BoxPins(m.cone, ins[j])]]
    IN  lat

PecUnrolled(m, k, safe) ==
    \E box \in [0 .. k -> [Bool -> Bool]] :
       \A ins \in [1 .. k + 1 -> Bool] :
          LET lat == PecRun(m, box, ins)
              IsBad(j) == m.bad[lat[j], ins[j + 1], box[j][BoxPins(m.cone, ins[j + 1])]] = 1
          IN  IF safe THEN \A j \in 0 .. k : ~IsBad(j) ELSE IsBad(k)

\* Every signal, the box among them, is a function of the step index, bad is
\* excluded at all indices, those beyond the bound included.
PecSuccinct(m, k, safe) ==
    \E lat, inp, box \in [Index(k) -> Bool] :
       LET IsBad(t) == m.bad[lat[t], inp[t], box[t]] = 1
       IN  /\ lat[0] = PecReset(m.reset)
           /\ \A t \in 0 .. k - 1 : lat[t + 1] = m.next[lat[t], inp[t], box[t]]
           /\ IF safe THEN \A t \in Index(k) : ~IsBad(t) ELSE IsBad(k)

\* What the formula is meant to ask: the box computes one function of its pins.
Completed(m, f) ==
    LET Pin(s, i) == <<IF "latch" \in m.cone THEN s ELSE 0, IF "input" \in m.cone THEN i ELSE 0>>
    IN  [m EXCEPT !.next = [s, i, g \in Bool |-> m.next[s, i, f[Pin(s, i)]]],
                  !.bad  = [s, i, g \in Bool |-> m.bad[s, i, f[Pin(s, i)]]]]
=============================================================================
