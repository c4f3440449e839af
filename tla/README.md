# A TLA+ verification of the DQBF tools

The repository decides dependency quantified Boolean formulas: `forall U exists Y(D_Y) . matrix`,
where every existential names the universals it may depend on.  It holds two provers that answer
SAT with Skolem functions or UNSAT with a fork-resolution proof (`.frp`), checkers for both kinds
of certificate that share no code with the provers, generators of formulas, and a benchmark
runner with a persistent cache.  This directory models the parts that keep state, model-checks
them with TLC and proves theorems about them with TLAPS.

Every definition is translated from the source; `PROJECT.json` maps each one to its lines.

## 1. Inventory

| Component | State | Operations | Hard to get right | Correct when |
|---|---|---|---|---|
| `core/formula.py`, `core/semantics.py` | none (frozen records) | `dep`, `resolve`, `add_existential`, `eval_clause`, `is_true` | dependencies of universals and unknown variables; tautologies | it *is* the definition of truth used everywhere below |
| `core/proof_trace.py`, `dqdimacs.py`, `aiger.py`, `certificate.py`, `compose.py` | none | text to data and back | - | conversions; their results are the inputs of the models |
| `provers/forkres` (Python prover) | formula with fork variables, clause database, stack, proof and its index, fork count, clock | load, saturate (resolution, reduction), fork (FEx, SFEx), budget exits | the two readings of the budget; a strong fork discards its parent; proof indices of clauses derived twice; never-ending forks | both answers are right, it returns, each UNSAT has a checkable proof |
| `tools/verify/unsat.py` (checker) | formula with fork variables, derived clauses, fork signatures | one per rule; reject; end of file | arbitrary files: repeated or reused fork variables, clauses naming a variable before its fork, negative premise indices | what it calls valid is false; it accepts what the provers write |
| `tools/verify/sat.py` | none | encode, call a SAT solver | clause/circuit encoding | certificate accepted iff it is a Skolem model |
| `tools/verify_rs` | as the Python checkers | same | must agree with them | same |
| `provers/frust` `expand_state.rs`, `expand.rs` | the mode; tables, rows, slots, decisions, conflicts; picker, copies, blocks; all survive `Pending` | choice of the mode, slot search, outer CEGAR, partial scan, definability and its bail-out | resumption in the middle of anything; conflict budgets; stale models | both answers right, nothing skipped, it ends |
| `provers/frust` `search.rs`, `rules.rs`, `proof.rs` | clause database with killed/processed flags, queues, occurrence lists, fork variables | saturate slice, subsumption, incremental BCE, fork, scheduler | resumption, clauses killed while queued, disagreement of the two engines | both answers right, proofs checkable |
| `provers/frust` `bce.rs` | occurrence lists, kill flags | eliminate, undo | fork variables, more than 64 universals | truth preserved, stack reconstructs a model |
| `provers/frust` `cdcl.rs` | trail, watches, reasons, activity, clause database | propagate, analyse, backjump, restart, reduce, solve under assumptions | reuse across thousands of calls, budget exits | invariants of watches and trail; answers right |
| `provers/frust` `arbiter.rs`, `definability.rs`, `interpolant.rs` | interpolants, roots, partners, cells with their values, forcing clauses, what `arbsolve` has excluded | unit constants, Padoa's check, interpolation, then rounds of counterexample, row model, learning or a new choice | four solvers with budgets of their own; what one row taught is used for others; one constant for a wide table | both answers right, no Skolem table excluded |
| `provers/frust` `main.rs`, `parse.rs`, `formula.rs`, `aiger.rs`, `proof_emit.rs` | none | input and output | - | conversions |
| `benchmarks/runner/multi.py`, `cache.py`, `solvers.py` | cache directory, certificate directory, converted `.aig` files, rows of the report, jobs of the pool | run, cache hit, worker steps, verify, store, crash | what the cache key leaves out; two workers on one file; stale certificates; inverted questions | the report is complete and current |
| `benchmarks/runner` reports, `run.py`, `manifest.py`, `cli.py` | none across calls | formatting, one pool | - | - |
| benchmark circuits (`bmc2dqbf/circuits*.py`, `cbmc2dqbf`, `circuits_buggy.py`) | latches of a transition system | one builder per circuit, with labels | words built bit by bit; labels that are formulas in the width | bad is first reached exactly where the label says |
| encoders of circuits (`bmc2dqbf`, `hwmc2dqbf_indinv`, `pec2dqbf`) | none | generate a formula | step counters, primed copies, three-valued resets, dependency sets of boxes | the formula is true exactly when the question about the circuit has that answer |
| `progequiv2dqbf` | registers, memory and counter of two programs | steps of the machine, the bounded formula | hand-made adders, an image that must be shared | true exactly when the programs agree |
| `circuitsynth2dqbf` | wires known so far | functions, the search for gates or layers | each function is defined twice; optimal sizes | known sizes are optimal, bounds sufficient |
| `ltlsynth2dqbf`, `qbvf2dqbf` | none | hands over to an external tool; a stub | - | - |
| `eqfob` | gates and calls of one problem | parse, check widths, blast words to bits | dependency sets of gates; calls of one function tied together pair by pair | the formula is true exactly when the functions exist (not modelled) |
| `experiments/cdcl_multi_learn` | trail, watch lists, clause database, phases, restarts, the hook's counts | propagate, analyse, learn by a hook, jump back, restart, decide | several learned clauses per conflict, watched where the hook puts them; extension variables | answers right, nothing excluded, it ends |
| `scripts`, experiment drivers, tests | none | drivers | - | - |


How they interact.  A prover process reads a formula file and writes a verdict and a certificate
file; a checker process reads both files later (`tools/verify/cli.py`).  The benchmark runner
starts provers in worker processes, then the checker on what they left in the certificate
directory, and stores rows in the cache from its main process only.  Inside `frust` the scheduler
gives slices of time to expansion and saturation in turn and carries facts from one to the other.
There are no threads that share memory: concurrency is between processes over files, and, within
a process, between slices of resumable searches.

The hazards of this code, each at its line and with the properties that would catch it, are in
`PROJECT.json` under `hazards`.

## 2. Modules

    Dqbf              core/formula.py, core/semantics.py: formulas and their truth
     |- VerifyProof    tools/verify/unsat.py          MCVerifyProof
     |- ForkRules      provers/forkres/rules.py
     |   '- ForkresSearch   provers/forkres/search.py
     |       '- FrpPipeline     cli.py; V == INSTANCE VerifyProof     MCFrpPipeline
     |           '- FrpProofs                             theorems
     |- FrustRules     frust/src/{rules,bce}.rs
     |   '- FrustSearch     frust/src/{search,proof}.rs
     |       '- FrustPipeline   main.rs; V == INSTANCE VerifyProof     MCFrust
     |           '- FrustProofs                           theorems
     |- SlotDpll       frust/src/expand_state.rs, step_slot_dpll
     |   '- OuterCegar      step_outer_cegar
     |       '- Arbiter         arbiter.rs, definability.rs, interpolant.rs
     |           '- ExpandState     step, step_definability, step_partial     MCExpandState
     |               '- ExpandProofs                         theorems
     '- DqbfProofs, VerifyProofProofs                 theorems
    OrderLemmas        orders, recursion, digits, small sets          lemmas
    BenchRunner        benchmarks/runner/{multi,cache,solvers}.py     MCBenchRunner
     '- BenchRunnerProofs                             theorems
    Words              words and arithmetic of the circuit builders
     |- BmcCircuits, BmcCircuits3, CbmcCircuits       the circuits and their labels
     |- AigEncoders    bmc2dqbf, hwmc2dqbf_indinv, pec2dqbf: encode.py
     |- ProgEquiv      progequiv2dqbf
     |- CircuitSynth   circuitsynth2dqbf
     '- CircuitReach   EXTENDS all of these: one unrolling
         '- EncoderChecks   the properties                             MCCircuits
    CnfGenerators      experiments/cdcl_multi_learn/generators.py
     '- ConflictCone       conflict_analysis.py, the hooks
         '- Cdcl               cdcl.py                                 MCCdcl
             '- CdclProofs                            theorems

**Dqbf.**  A literal is a non-zero integer, a clause a set of literals, a formula a record with
`n_vars`, `universals`, `dependencies`, `clauses`.  `IsTrue` is the brute-force semantics: some
tuple of Skolem tables satisfies the matrix in every row.  It is the reference every answer of
every program below is held against.  A literal on a variable that no line of the prefix declares
is never true: only a proof file can bring one in.

**VerifyProof.**  `f`, `g` (the code's `f` as it is rebound), `derived` and `forks` are the locals
of `verify_proof`; the loop over the steps is one `CheckX` action per rule, `RejectStep` for
`return False`, and `EndOfProof`.  *Nothing* is assumed of the file: the next step is any member
of `Steps`, and it may end anywhere.  A premise index counts from 0, as in the file.

**ForkRules, ForkresSearch.**  `solve` with `_saturate` and the fork step.  The formula is read one
clause at a time (`LoadClause`, then `Loaded`): the axiom and its reduct are admitted.  Each pass of the
inner loop is one action that takes a clause off the stack and admits all its resolvents; a fork
is one action with both halves and their reductions.  `idx` is a function of the proof, since
`admit` enters a clause once.  Python sets make the order of clauses arbitrary; `anyOrder` in a
problem says whether all orders are explored or the clauses pushed together leave shortest first
(only to bound the state space; the order in which the resolvents of one clause enter the proof is
fixed, and is only seen there).  The clock is the flag `expired`, which may rise at any step.
`Saturated` is the second reading of the budget in `solve`, which is what keeps a cut-off
saturation from being taken for a complete one.

**FrpPipeline.**  The prover followed by the checker on the file it wrote.  The checker is an
instance of VerifyProof whose steps are those of `proof`, so that the two specifications, translated
from two files that share no code, are checked against each other.

**SlotDpll.**  `step_slot_dpll`.  The variables are split into the fields of `ExpandState`, which
survive `Step::Pending`, and the locals, which `Resume` resets; that split is the point of the model.
The SAT solver is an oracle: any model of the row under the pinned cells, no model if there is none,
or, when the scenario allows it, "out of conflicts" at any call.  The mode is reached with
incomparable dependencies when definability bails out.

**OuterCegar.**  `step_outer_cegar`: a picker, a second SAT solver, chooses the existentials without
dependencies; the rows are solved under that choice, those that were bad before first, then some at
random, then all.  The picker is abstracted to any choice that satisfies the matrix copies and the
blocking clauses it was given, and rows "at random" to any row.  `skipped` is a history variable: a
row was undecided in the last scan, and counted as solved.  The copies of the matrix are kept as
the rows they are for.

**Arbiter.**  `validity_cegar`, with what definability.rs prepares for it.  The solvers are replaced by
what they know: `Consistent(n)`, the models of row `n` for `consist`, and `Encoded(n)`, the values
`validity` allows there; both are sets of functions computed from the forcing clauses, the interpolants and
the cells, so no clause database is kept.  A cell is a set of links (existential, cube); partners
share it.  Where a solver has a choice, any is taken: the counterexample, the row model, the core
(any set of cells that refutes the row, and both values of a cell that is refuted everywhere, as
`analyze_final` returns them), the antecedents of a forcing clause, the new values of the cells.
An interpolant is any function that is right wherever the matrix has a model, which is all that McMillan's
construction promises.  Existentials are decided in any order: the two passes of
`extract_interpolants` differ in nothing else.  The optional copy of the matrix in `validity` only restricts
which counterexample is found, and is left out.

**ExpandState.**  `ExpandState::new` and `step`: the three searches and the scan of partial rows
composed by the variable `mode`, with the bail-out of definability into one of the others.  The thresholds of
the code are constants.  `deepening_partial_scan` is not resumed but starts over, as in the code.

**FrustRules, FrustSearch.**  `solve`, `saturate` and `struct Db` of frust.  What elimination leaves of the
input (`Left`) is read one clause at a time (`LoadClause`, then `Loaded`).  `db` is a record with the
fields of the struct: `clauses` grows only, `dead` and `processed` are sets of positions instead of
flags, `occ`, `idx` and the signatures follow from it.  A state is a point inside `saturate`: the clause
being processed (`given`), its literals and the partners still to come, so that a slice may end where the
code looks at the clock, and `Over` stands for that look.  What survives a slice (`db`, `g`, `forks`,
`fed_upto`, ...) and what does not (`processed_this_pass`, the partners) is as in the code.  Nothing
but the clock is nondeterministic: the order of clauses, literals, forks and fork variables is that of
the sorted vectors, the heap and the stable sort.  Expansion is an oracle: it may answer, rightly, with
or without a proof, give up, or ask for another slice.  Its own model is SlotDpll; that it may err is
not the question here.  The tick counter, which lets the inner loop look at the clock once in 65536
partners, is the field `manyPartners` of a problem: may a slice get that far?  `dqbf_bce` is an
operator: its queue reaches the same fixpoint in every order.

**FrustPipeline.**  frust followed by the Python checker on the proof it saved, as FrpPipeline.

**BenchRunner.**  Several runs of `run_multi` over one cache and one certificate directory.  An
answer is the *record of what it was computed from* (code of the solver, contents of the file read,
time limit), so a stale answer differs from a current one by construction and no verdicts need be
invented.  A job passes the stages of `_run_one`; each stage is an action of one of the workers, so
that files change between any two of them.  Certificates are files of a solver, a family and a stem (`CertFile`), as in the code,
so two instances may share one; a path that the runner refuses ends in a row "error" without the solver (`RefusePath`).
`Change` edits solvers, instances or the verifier between runs, `Crash` kills a run at any point.

**Words, BmcCircuits, BmcCircuits3, CbmcCircuits.**  A circuit is a machine at any width: states,
inputs, reset, `next`, `bad`.  A latch vector that the builder treats as a number is a word, one that
it treats as flags is a set.  Gates and `.aag` literals are left out: a next-state function is what the gates
compute.  The labels (`KBad`, `BugDepth`, `ExpectedAt`) are translated beside them.

**AigEncoders, ProgEquiv, CircuitSynth.**  Each encoder as the truth of the formula it writes: an
existential is a function of the universals in its dependency set, the clauses are the body, and the
Tseitin variables, which the clauses define, are eliminated.  ProgEquiv has the machine twice, as
`isa.py` describes it and as the clauses say.  CircuitSynth has each function twice, as Python
and as gates.

**CircuitReach, EncoderChecks.**  One breadth-first unrolling, one frame per step: of a circuit, of a pair of
programs, or of the wires that a search for a circuit can have.  At step `t` the state knows whether bad
is reached by then, and EncoderChecks evaluates the formulas for `k = t` beside it.

**CnfGenerators, ConflictCone, Cdcl.**  The solver of the experiment with its four hooks.  A step is
one visit to a clause in a watch list, one conflict with all that follows up to the restart, or one
decision, so that the order in which watches move is that of the code; so is the order of literals in
a learned clause, which decides what it watches.  Activities are abstracted to the choice of any open
variable after the first conflict (before it the first open one is taken, as all activities are 0), the
frequencies of pairs in ExtLearn to any pair that was met.

## 3. Runs

| Run | Expect | What it shows | Bounds, and why they do |
|---|---|---|---|
| `verify_proof` | pass | Any file of up to four steps, most of them ill formed, against a true, a false and a "true unless dependencies are ignored" formula. `Conservative`: whatever was accepted so far extends the formula conservatively; `ValidIsUnsat`; `PrefixOnlyGrows`: no accepted step changes the dependencies of a quantified variable | `MaxSteps = 4`: an axiom, both halves of a fork and one inference on them; a second fork on the same or another number. The theorems lift the bound |
| `frp_pipeline` | pass | forkres on all matrices of up to three clauses of a ten-clause pool, and on twelve chosen problems in every order, under every expiry of the deadline, several clause and fork limits: `UnsatSound`, `SatSound`, `IdxComplete` (no `KeyError`), `Terminates`; and the checker accepts every proof: `NeverRejected`, `UnsatIsVerified` | Two universals are the least with incomparable dependencies; `Parity` needs a fork to be refuted; `Strong` has the strong fork whose parent is lost; `Split` forks until `max_forks`. `MaxProof = 300` is never reached |
| `expand_state` | pass | Expansion as a whole, from the choice of the mode on: `SatIsModel`, `UnsatIsFalse`, `NothingLost` (backtracking, blocking and arbiter conflicts never exclude the last Skolem tables), `Terminates` (through every mode and bail-out), whatever model, core, interpolant and choice the solvers return and wherever a slice ends | Some fifty scenarios over two or three universals: the least with incomparable dependencies, and all rows disagree somewhere. Every threshold is small enough to be crossed: `FullWidth = 2` for 16, `MaxU = 3` for 20, `ManyOuter = 1` for 12, `Levels = <<1, 2, 4>>` for 8, 12, 16, 20, `History = 2` for 32, `SmallDep = 1` for 4, `CheckPeriod = BatchCheck = 2` for 64 and 2^14; per scenario `batchRows` for 2^16, `cegisRows` and `fuzzRows` for 50000 variables and 1024 rows, `cells` and `widest` for 8192 and 13. At most two interruptions in the slot search, or any number of budget hits, not both (see `expand_budget`) |
| `expand_budget` | violation | With one interruption *and* a budget hit the slot search answers UNSAT for a true formula | see findings |
| `arbiter_link` | violation | A cell for the whole tables of two partners refutes a row of a true formula | see findings |
| `frust_pipeline` | pass | frust's saturation on twenty-two problems, with every slice ending anywhere: `UnsatSound`, `SatSound`, `NothingSkipped` (the given-clause invariant across subsumption, slices, forks and eliminations, until the empty clause is found), `FedIsImplied` (clauses given to expansion exclude no Skolem function), and the checker accepts every saved proof: `NeverRejected` | The problems need FEx, SFEx, several passes, several slices, incremental elimination, `max_clauses` and `max_forks`; some are decided by elimination or by a reduction of the input. `PassCap = 3` for 256 and `BceSlack = 0` for 256, so that a pass ends with a full queue and elimination runs between two slices; at most two slices. No strong fork meets a clause with the negation of the universal it adds (see `frust_taut`) |
| `frust_cut` | violation | A slice ends among the partners of a clause, the next one answers SAT for a false formula | see findings |
| `frust_taut` | violation | A strong fork on a clause with the opposite universal: UNSAT for a true formula. The constants are those of the code | see findings |
| `bench_runner` | pass | Two or three runs, two workers, edits in between, kills at any point: every pair is reported once (`EachPairOnce`), every verdict is the one the present solver gives for the present file, with the inversion applied once (`ReportIsCurrent`), a verified certificate belongs to the answer beside it (`CertIsOwn`) | Two instances, equal or not; two names of one binary; an `aag` and a `tlsf` solver on a negated source; one instance whose path is refused, and one file that two certificates share. A third run is needed for a change and its undoing |
| `bench_python` | violation | A solver started as `python -m package` is edited and the old answer is reported | see findings |
| `circuits` | pass | `LabelsExact`: a faulty circuit is first bad where its label says, a correct one never; `DepthAsBuilt`: the depths of the unlabelled ones; `BmcExact`, `IndInvExact`, `PecRefutes`, `ProgEquivExact`: each encoder's formula against reachability at every bound; `OptimaExact`: known circuit sizes are optimal, upper bounds enough, both definitions of a function agree | All circuits at widths 1 to 3, some to 5, the LFSR to 8; *all* circuits with one latch and one input, with three resets each; circuits around a black box with all its completions; pairs of short programs over one-bit words, every ADD and XOR of two two-bit words against every output, all sums of three-bit words, and the two swaps of the benchmarks; all gate networks of up to two gates or layers for functions of up to four inputs |
| `cdcl` | pass | `TrailJustified`, `NothingMissed` (two watches are enough whatever the jumps back did), `AnswersRight` (and what was learned excludes no model), `CutsExact` (three ways to compute cuts of a cone agree), `Terminates` | The smallest member of each family of formulas, satisfiable ones by leaving out clauses, under each hook that has something to find there, ExtLearn with `min_pair_freq` 1 and 4; budgets of 3 or 4 conflicts where the search is long; `RestartUnit = 2` for 32, so that restarts happen; cuts are compared in cones of up to `MaxConeVars = 7` variables |

Besides these each module has one type invariant.  Each property is broken by a mutant of a mapped
definition (`PROJECT.json`, `mutants`); the mutated operators stand in the modules, marked `Mutant`.

*Fairness.*  `ForkresSearch` and `ExpandState` assume weak fairness of the program's own step: one
thread that keeps running and, for expansion, a scheduler that calls it again after
`Pending`, as the loop of `solve` in `search.rs` does.  That a deadline passes is never assumed, so
`Terminates` holds without its help.  In expansion it needs the number of interruptions to be finite: the
clock is read before each piece of work (`expand_state.rs:382`, `424`, `446`, `arbiter.rs:502`), so a slice of
no length achieves nothing, and the code gives no lower bound on what a slice achieves.  `Cdcl` assumes the
same of one thread; that the analysis of a conflict ends is stated as `[]<>~Analyzed` rather than as fairness of the
step, whose guard is costly to evaluate.  The pipeline assumes that both programs, once
started, run to their end.  `FrustPipeline` and `BenchRunner` have
no liveness property: frust ends because its clock does, and a solver may be killed.

*Deadlock* is checked in `cdcl`, where an answered search stutters; every other program here stops.

*Comparison with the programs.*  Beyond the runs, the models of the Python parts were compared with the programs:
195 circuits and 120 circuits through the encoders, whose formulas an SMT solver decided; 123 pairs of
programs; 43 searches for circuits; 37 generated formulas, and some 115 runs of the solver of the experiment
with equal trails, watch lists and restarts.  The findings on the arbiter loop were reproduced with a
line-by-line port of `cdcl.rs` and `arbiter.rs`.

## 4. Findings

1. **A budget hit is forgotten at the next slice** (`expand_budget`).  `any_budget`
   (`expand_state.rs:422`) is a local variable; the decisions are fields.  A prune that was
   inconclusive because the SAT solver ran out of conflicts is taken for a refutation after a
   `Pending`, and the exhausted search returns `Unsat`, against its comment at line 519.
2. **The sources of a Python solver are not in its cache key** (`bench_python`).  `solver_hash`
   hashes `cmd[0]` when it is a file; for `python -m pkg` that is the interpreter, so the branch for
   packages, promised at `cache.py:7`, is not reached.
3. **A clause is left in the middle of its partners** (`frust_cut`).  `search.rs:506` returns while the
   clause is marked processed and off the queue; the rest of its resolvents is never tried, and the next
   slice takes the empty queue for saturation (comments at lines 450 and 594).  In the code this takes a
   slice of 65536 partners, and a time limit that is not used up.
4. **A tautology is resolved with itself** (`frust_taut`).  `choose_sfork` adds `u` to both halves
   although the clause has `-u` (`rules.rs:237`); the half is stored, becomes its own partner at
   `search.rs:496`, and `resolve` drops both literals.  The clause that results is not implied, and
   frust answers UNSAT for a true formula; its proof would not be accepted.
5. **A constant cell ties partners in every row** (`arbiter_link`).  `detect_partners` proves that two
   existentials are equal where their arguments agree; one cell for both whole tables
   (`arbiter.rs:835`) makes them equal everywhere, in `consist` too, and a row that needs them to differ is
   reported as refuted: UNSAT for a true formula.  The comments at `arbiter.rs:615` and `search.rs:26` leave open
   whether such a formula exists.  It does: `3(1)`, `4(2)`, equal where 1 and 2 are, with `{-1, 3}` and `{2, -4}`.
   In the code both must have more than 13 dependencies.

The remaining ones are found by runs that pass: the property names the exception.  Taken out, TLC finds it.

6. **A refused path is cached by its contents** (`bench_runner`, `ReportIsCurrent`, operator `RefusalsStay`).
   `_run_one` answers "error" for a path with an unusual character, before any solver starts (`multi.py:336`); `run_multi` stores the row (comment at line 481: "Cache only when
   the solver actually ran"), and the same contents at another path hit it.
7. **Certificates of two instances in one file** (`bench_runner`, `CertIsOwn`, operator `OwnCerts`).
   The stem drops `.qdimacs` and `.dqdimacs` (`multi.py:280`), so two workers may use one certificate file; clearing it before the solver starts
   (line 348) does not help against a certificate that the other writes meanwhile.
8. **Forcing clauses that contradict each other** (`expand_state`, `SatIsModel`, operator `Masked`).  An existential
   that is determined but has no interpolant gets forcing clauses from rows that may have no model; two of
   them with opposite values leave `validity` without a model in a row, which is never looked at again: SAT for a
   false formula (`arbiter.rs:790`).  It takes a solver that runs out of conflicts or time while interpolating.
9. **The budget of `arbsolve` is not looked at** (`expand_state`, `UnsatIsFalse`).  Out of conflicts, it
   counts as exhausted, and the loop answers UNSAT (`arbiter.rs:666`).
10. **A learned tautology** (`expand_state`, `Terminates`, operator `Tautology`).  A cell that is refuted in
    every row is a unit of `consist`; the core of the next conflict is the cell alone with both values, the
    clause learned from it excludes nothing, and the same choice comes again until the deadline (`arbiter.rs:665`).
11. **Undecided rows count as solved** (`expand_state`, `SatIsModel`, variable `skipped`).  In the outer search a row
    whose SAT call ran out of conflicts is filled from the model of another row, and the tables are returned
    as they are (`expand_state.rs:730`).
12. **A conflict without a decision** (`cdcl`, `CutsExact`).  XorLearn's parity is made unit above the level of
    its reason, and the assertion of `_extract_cone` fails at a later conflict (`cdcl.py:335`, `466`).
13. **XOR and ADD are negated** (`circuits`, `ProgEquivExact`).  `t_iff` is used for the exclusive or
    (`progequiv2dqbf/encode.py:118`, `251`).  XOR is negated at every width, ADD up to two bits; from three bits on
    a carry that is passed on is lost as well.  The swap of the benchmarks is right, as three negations cancel.
14. **One memory image is enough** (`circuits`, `ProgEquivExact`).  The contents of memory are existential, the doc
    says every image (`progequiv2dqbf/encode.py:344`, `35`).
15. **Latches without a reset** (`circuits`, `IndInvExact`, `BmcExact`).  hwmc2dqbf_indinv takes them for 1; bmc2dqbf
    with `safe` needs only one initial state to be safe.
16. **A box fed by a latch** (`circuits`, `PecRefutes`) is a function of the step only; a safe completion may have
    a false formula.
17. **Depths in docstrings** (`circuits`, `DepthAsBuilt`) of gray, alu4op, sat_accum and modmul are not those of the
    circuits.
18. **An upper bound that is none** (`circuits`, `OptimaExact`): no circuit of two layers compares two words of two
    bits.

Not a fault of an answer, and seen in the model of the arbiter loop only: for an existential that is not determined the core
of a failed flip always has the flip itself, so the test of `arbiter.rs:775` hardly ever passes and forcing
clauses are hardly ever learned there, although the comment at line 745 counts on them.

## 5. Theorems

Eight modules hold proofs; `DqbfProofs` and `OrderLemmas` only have lemmas, about formulas (what resolution, reduction,
forks and fresh variables preserve, for every tuple of Skolem tables), about sorted orders (ranks in a
strict total order are a bijection to `1..n`; every finite set of clauses has a least one), about binary
digits (each assignment to `k` universals is the row of exactly one number below `2^k`), about recursive functions (one over
the numbers up to `N` is defined everywhere, one that adds elements until none is left ends in the least closed set), small sets and
sequences.

**The checker** (`VerifyProofProofs`), for every set of formulas, every set of steps and every length of the file:

- `TypeCorrect == Spec => []TypeOK`;
- `DerivationConservative == Spec => []Conservative`: *soundness of fork resolution as the code
  checks it*;
- `ValidRefutes == Spec => []ValidIsUnsat`;
- `PrefixGrows == Spec => PrefixOnlyGrows`.

Assumptions: `FormulasAssumption` (what the parser of `formats.py` guarantees, no more),
`StepsAssumption` (the types `json.loads` gives a step), `MaxStepsAssumption`.

The inductive invariant is `TypeOK` with `Holds`: if `f` is true then *one* tuple of
Skolem tables for `g` satisfies `f`'s matrix, every derived clause and **both clauses of every fork,
whether or not the file listed both** (`ForkClauses`).  The last part is what makes it inductive: the
second half of a fork may come much later, with other clauses on the fork variable in between, so it
must have held from the moment the variable was introduced.  Axioms are in the matrix; a resolvent is true where its
premises are (`ResolventTrue`); a reduction step compares a row with the row in which the dropped
literals are turned false, which the remaining existentials cannot tell apart (`UReductionTrue`).
A new fork extends the tables by one for the fresh variable: false where the left part is true whatever
the universals outside the common dependencies are, else true (`FreshValue`, `ForkTrue`), and everything known
before stays true because no earlier clause or table mentions a variable that is declared only now
(`ExtendKeepsTrue`).  That step rests on the freshness test, and on an undeclared variable being false in
every row.

**The prover** (first part of `FrpProofs`), for every formula, every `SearchConfig`, every order of the stack and every
moment at which the clock runs out:

- `ForkresInvariant == Spec => []ForkresInv`, and from it
- `SearchTypeCorrect == Spec => []TypeOK`;
- `PremisesAdmitted == Spec => []IdxComplete`: no `KeyError`, whatever was forked and discarded;
- `UnsatIsRight == Spec => []UnsatSound`.

`ForkresInv` is `PrefixInv` (the prefix is the formula's with one existential per fork, numbered above
all others, so that the next is fresh), `ClauseInv` (the stack is in the database, the database is over declared
variables and admitted), `ControlInv` (UNSAT is only said with the empty clause in the database) and `Follows`
(the database is true under *some* tables for the fork variables, if the formula is).  The answer alone is
not inductive: `UnsatSound` needs `Follows`, that one needs `ClauseInv` (a premise is in the database) and `PrefixInv`
(the fork variable is new, so tables chosen earlier need not be revised).  A strong fork discards its parent, which
only makes the database smaller; that is why soundness survives it.  Assumptions: `ProblemsAssumption`, whose bound on
the numbers of the variables is what `make_formula` computes, and `NoneAssumption`.

**Prover and checker together** (second part of `FrpProofs`): `ProofsAccepted == PipelineSpec => []NeverRejected`.  The
hypothesis `None \notin SUBSET Int` says that Python's `None` is no set of literals (an optional field is compared with
it).  `PipelineInv` is `ForkresInv` with `ProofInv` and `CheckerInv`.  `ProofInv` says of every step of the file that
the rule it names yields it *from the steps before it and the formula as it is now* (`Justified`), that it
only uses variables known by then, and that two steps on one fork variable describe the same fork (`SameFork`): the prover
writes a fork as two steps, and the checker compares the second with the signature of the first.  It has to survive
forks: `AgreeOn` is the lemma that one more existential changes no reduction and no dependency of a clause
written earlier.  `CheckerInv` ties the checker to the file: it has accepted a prefix of the steps, and its
formula is the prover's restricted to the fork variables in that prefix.  Liveness, that the verdict comes at all,
is `UnsatIsVerified` and stays with TLC.

**The benchmark runner** (`BenchRunnerProofs`), for any solvers, instances, options, number of workers and runs,
kills and edits between runs:

- `RunnerTypeCorrect == Spec => []TypeOK`, `NothingLostOrDoubled == Spec => []EachPairOnce`,
  and `CertificateIsOwn == Spec => []CertIsOwn` (unless two instances of a family have one
  stem, finding 7), all from `RunnerInvariant == Spec => []RunnerInv`;
- `ReportStaysCurrent`: `Spec => []ReportIsCurrent` where `\A s \in Setups : KeyTellsAll(s)` and `NoneIsNoStatus`.

`RunnerInv` is `WorldOK`, `JobsOK`, `CacheOK`, `ReportOK`.  The part that is not in the properties: from the moment its
solver starts, the certificate file of a job is either absent or the job's own (`JobOK`), because the file
is removed first and no other job writes it; without it `CertIsOwn` is not preserved by the verification step.  `ReportStaysCurrent` also needs `CurrentInv`:
what a job will answer is about the files as they are (`JobCurrent`), a conversion that is only half written belongs to a job that
is writing it (`AigOK`), and every row of the *cache*, reported or not, answers what its key asks (`RowCurrent`).
`KeyTellsAll(s)` says when the key of the cache is enough: no solver is started as `python -m` (finding 2), names of one
program read one format, `--verify-certs` does not vary and the verifier is not edited under it, and a solver that
reads source files finds instances that differ from each other and are not edited, and is not killed while converting them;
they also differ and are not edited if a path is refused (finding 6, `RefusalsStay`).  These are the limits of section 6.  All setups of the passing
run have it, but for the one that `RefusalsStay` excuses (`SetupsAreKept`, evaluated by TLC); that of `bench_python`
does not, and there the property fails.  `NoneIsNoStatus` (a status record is not `None`) cannot be evaluated by TLC because it ranges over all
values, and is a hypothesis for that reason.

**frust's saturation** (`FrustProofs`), for every formula, every limit on clauses and forks, every moment at which a
slice ends, and whatever the expansion answers, as long as that is right:

- `FrustTypeCorrect == PipelineSpec => []TypeOK`;
- `FrustNothingSkipped == PipelineSpec => []NothingSkipped`;
- `FrustUnsatSound == PipelineSpec => [](NoTautology => UnsatSound)` and
  `FrustFedIsImplied == PipelineSpec => [](NoTautology => FedIsImplied)`;
- `FrustTautologySource == PipelineSpec /\ [][StrongFork => ~ Clashes]_vars => []NoTautology`, and so
  `FrustSoundWithoutClash`, which has `UnsatSound` and `FedIsImplied` under the same condition.

`ShapeInv` is `PrefixInv` (as for forkres), `DbOK` (what is stored was seen, once; what was seen is over declared variables
and has a step), `LoopInv` (the literals and partners that are left belong to the given clause and to the database) and
`ControlInv`.  Every step also satisfies `Advance`: no clause moves, revives or is forgotten.  `SkipInv` adds what
`NothingSkipped` does not say: of the given clause, each literal that was looked at is resolved with each processed clause
alive, *or that partner is still in the list* (`GivenDone`).  It is preserved because `Partners` lists every match, a
clause that is stored meanwhile is not processed, and a fork changes the reduct of no earlier resolvent (`SameReduct`).
`SoundInv` says that each model of the input extends to the fork variables with everything true that was seen; the
extension of forkres (`ForkTrue`) is reused, with `HalvesReduce`: a reduction that does not look for the opposite literal is
sound for the halves, because the variable that both keep protects the clash.  The merge of `resolve` is a resolvent
only where neither premise is a tautology (`MergeIsResolvent`), which is where `NoTautology` comes in.  It
is no idle condition: `frust_taut` is a run without it (finding 4).  `FrustTautologySource` says that this is
the only way to one: a strong fork whose shared universal stands negated in the clause (`Clashes`).  Assumptions:
`ProblemsAssumption` (variables are numbered by the header, as the arrays of `Formula::new` need), and `NoneAssumption`.

**frust's expansion** (`ExpandProofs`), for every formula, all thresholds, slices that end anywhere, and whatever models,
cores, interpolants and choices the solvers return or whenever they run out of conflicts:

- `ExpandTypeCorrect == Spec => []TypeOK` and `ExpandSatCorrect == Spec => []SatIsModel`;
- `ExpandUnsatCorrect == Spec => [](~ (mode = "SlotDpll" /\ Forgets) => UnsatIsFalse)` and
  `ExpandKeepsModels == Spec => [](~ (mode = "SlotDpll" /\ Forgets) => NothingLost)`.

`Forgets` is `scenario.budgetHits /\ scenario.slices > 0`: both the SAT solver and the slices may run out, which is finding 1
and the run `expand_budget`.  The theorems say that the slot search has no other way to be wrong, and the other three
modes none but those that the properties name (`skipped`, `Masked`, `ConstantLink`; findings 5, 8, 9, 11).

`ExpandInv` has one part per search, in its own mode and in the others (`SlotInv`, `OuterInv`, `PartialInv`, `ArbInv` with
`DefsInv`), `ControlInv` and `AnswerInv`.  What each adds to the properties, because they are not inductive without it:

- *Slot search.*  `SearchInv`: every slot and every cell of a row that was seen has a first value, so that deciding a slot
  never decides nothing; the decisions are the first `nextSlot` slots in order.  `RoundInv`: rows solved so far agree with the
  tables *unless* a disagreement is on record, which with all slots decided is a cell that is no slot yet; and a
  row without a model under the decisions refutes them for *all* Skolem tables.  From that, flipping the last
  unflipped decision keeps some tables ahead (`JudgeBacktrackStep`): either they differ from the decisions first at a slot that can still
  be flipped, or first at the one flipped, and then agree with it now.  An exhausted search either has a cell to add or
  nothing ahead.  `anyBudget` is what excuses a prune, and `SlotResume` is the step at which it would be lost.
- *Outer search.*  `OuterSound`: no clause of the picker excludes the outer part of Skolem tables that are a model
  (`BlockSound`), so the picker may still return it (`PickerAllows`).  `ScanSound`: a cell is filled by a row already scanned, and
  as every other existential depends on all universals (`Eae`) no two rows share one (`CellsApart`).
- *Partial scan.*  A partial row stands for a row of the formula (`PartialSound`), and the counter is below the number of partial rows of its
  level, also when definability hands over.
- *Definability.*  `LearntSound`: all Skolem tables that are a model obey every forcing clause and differ from every
  excluded choice of cells (`Spares`), as long as no constant cell ties two tables.  A core refutes a row only together with
  the links, so it needs `Partners` (two partners are equal where their arguments agree: `LinksAgree`), `CellKnown` (a cell is one that
  `CellFor` makes) and `CoreSound`.  For SAT the certificate has to *exist*: a definition is over existentials decided before it
  (`OrderedBelow`, an order that is extended with each one), so the recursive function in `Certificate` is defined
  (`CertificateExists`, by a least rank at which it would not be), it is in `Encoded` for every row that is not masked, and the value for an
  existential only depends on its dependencies (`CertificateLocal`), which makes tables of it.

Assumptions: `ScenariosAssumption` (a scenario is a formula whose prefix is within the header's count, as the arrays of
`Formula::new` need, and limits), and the types of the thresholds.

**The solver of the experiment** (`CdclProofs`), for every formula, each hook with any parameters (`min_pair_freq` and structure included), and every choice of
decisions:

- `TypeCorrect == Spec => []TypeOK`;
- `NoConsequenceMissed == Spec => []NothingMissed`;
- `TrailIsJustified == Spec => []TrailJustified`: a literal on the trail is a decision, the first of the next level, or the
  last literal of its reason to be decided, or of level 0;
- `AnswersAreRight == Spec => []AnswersRight`: a `sat` leaves a model on the trail, after `unsat` there is none, and what
  was learned has exactly the models of the formula, seen on its own variables.

For the first two the invariant is `IInv`: `ClausesOK` (clauses are over the variables there are, the extension variables included, without
a literal twice; the first ones are those of the input, as sets), `TrailOK` (levels are in order, and a literal with a
reason is in that clause, all others of which were false *before* it), `WatchesOK`, `QueueOK`, `Guarded`, `PhaseOK` and
`ConflictOK`.  The part that is not in the properties is `Guarded`: a watched literal that is false and *was taken
off the queue* has its other watch true, at no later level; the clause at hand is excused, and so are those behind
it in its watch list.  "At no later level" is what makes a jump back harmless: it takes the true literal
away only together with the false one.  It is preserved when a watch moves (the new one is open, true, or waits in the queue), when a
clause implies its other watch (`QueueOK`), and by a conflict, because the level of the conflict is above that to which
the solver jumps (`ConflictOK`, `LearnsFits`); the literal taken off the queue is then off the trail.  It is asserted of the clauses
of the input only.  Of a clause that a hook adds it would be false: such a clause is watched at its lowest variables, whatever was assigned
last (hazard at `cdcl.py:245`), so the solver may miss its consequences, and the theorem says that this
harms no clause of the input.  What the proof needs of `_analyze_1uip` is that the clause learned is false at the conflict and that the level is
below the current one; of the hooks, that what they return is a list of clauses without a literal twice (`MultiTaught`, `ExtTaught`, `XorTaught`).
The recursive functions of the walk back, the rounds, the cone and the cuts are shown to have values (`RecursionSteps`, `ClosureIsLeast`).

For the answers it is `AnswerInv`, which adds three parts.  `Conservative`: each model of the formula extends to the new variables so
that it satisfies all clauses (`Agrees`), whatever is on the trail without a reason and without opening a level, and the gates
that name two literals (`GatesHold`).  Entries with a reason follow from the clauses, decisions are free, so this says that nothing is lost.
`RootUnits`: the units of the input stay at level 0.  `Judged`: an obvious contradiction is answered at once.  A step of the
search leaves clauses as they are, up to the order of their literals, and only adds decisions and consequences to the
trail (`Continues`); the work is in what is learned.  The walk back of `_analyze_1uip` only resolves (`AnalyzeFits` on what it
returns), and so do the cuts: an assignment that bears the clauses of a cone (`Bears`) satisfies each of its cuts.  A name for two
literals is new, so it gets their conjunction.  A parity of the gates of the input is a sum of sums (`GatesSum`; all four clauses
of a gate have to be there, `ParityOne`), that of another cone was checked on all that satisfies the cone (`OnlineSum`), and
the new variables of its chain get the partial sums (`WithSums`, `ChainHolds`).  So the models of a formula extend to what each hook
returns (`HookExtends`).  Refutation needs a conflict at level 0 (`RefuteRight`), an assignment needs `NothingMissed` (`SatisfyRight`).

For the trail `LevelsOK` joins `IInv`.  `Stepwise`: what has no reason above level 0 opens the next level.  Learning could break it, since a
unit that a hook returns goes to the trail at the level of the jump, without a reason.  It does not, because such a unit has a literal of
that level, false and therefore still false after the jump (`LearnedHasLevel`, `NewWasOpen`).  For the clause of
`_analyze_1uip` this is how its level is computed (`LevelLearned`), and ExtLearn and XorLearn return no other unit (`UnitFirst`).  For the cuts of
MultiLearn it is an argument about the cone: a cut with a single literal of the current level has all lower literals that
the walk back to the first UIP collects (`CutKeepsLearned`), for whatever a cut resolves on lies behind a literal of the current level
that it keeps (`FirstResolved`).  That in turn needs `Tight`: a literal with a reason follows from another one of its level.  `Tight`
is an invariant with MultiLearn.  With ExtLearn and XorLearn it is none, as TLC shows: the definition or the chain that comes with a clause may be
unit at the level of the jump although all its other literals are of lower levels.  With XorLearn that is where a cone without a
decision comes from (finding 12).

Assumptions: `InstancesAssumption` (clauses are over the variables of the formula, the hooks are those there are).

Checked by TLC only:

- liveness (outside this prover's reach, as is ENABLED): `Terminates`, of forkres, expansion and Cdcl, and `UnsatIsVerified`;
- `SatSound` of both provers and `NeverRejected` of frust: completeness of saturation is an argument about all
  refutations (for frust it starts from `NothingSkipped`, which is proved), and the cut-down proof is a recursive
  function of the proof (induction over data);
- what the folds and the enumeration of Skolem tables compute, for the same reason: EncoderChecks, CircuitReach, `CutsExact`.

## 6. Not modelled, and what the models leave out

- Text formats, AIGER, command lines, logging, the scripts, the drivers of the experiments; ltlsynth2dqbf, which
  hands its automata to an external tool; qbvf2dqbf, a stub; eqfob, a frontend for bit-vector constraints with
  quantified variables and functions (parser, widths, bit-blaster), which six of the benchmark generators use and which is the next
  component to model.
- forkres: `find_skolem`, an enumeration that runs once the answer is fixed.
- SlotDpll, OuterCegar: the cap of 50 refinement rounds is in the model and never reached by an instance this
  small; overflow of the row counter, and a picker that runs out of conflicts (it is asked again), are not modelled.
- Arbiter: the gates on the number of variables are one flag (a scenario with no cells); activities,
  passes and blockers of the interpolation are any order; `validate_interpolants`, which only tests call.  The branch for a
  stalled round cannot be reached, in the model as in the code.
- ExpandState: the stack of blocked clauses is empty, so nothing is reconstructed; `try_expand` of expand.rs, an older
  form of the same searches.
- frust's own `cdcl.rs` is an oracle that answers or runs out of conflicts; clause deletion and minimisation are not modelled
  anywhere.
- FrustSearch: `compact_occ`, which runs at every 2048th clause, and the limit of 200 clauses for a strong
  fork; the budgets of `dqbf_bce`; more than 64 universals, where the masks stop (hazard at
  `formula.rs:46`); the Skolem functions of an elimination or an expansion, and the proof that
  `reprove_row_unsat` makes: an UNSAT of expansion saves none in the model.
- BenchRunner: conversion to qdimacs, the search for source files, `discover`, `backfill`, the
  skip of files that vanish.  Files change only between runs, although they may change during one
  (`multi.py:425`, `474`).  In the passing run each source belongs to one instance, no run is killed
  during a conversion, and the verifier is not changed where certificates are verified: outside
  those limits `ReportIsCurrent` can fail (hazards at `multi.py:324` and `cache.py:56`).  The plain copies of
  `.gz` instances, named by the stem like the certificates.
- Circuits and encoders: gates and Tseitin variables (see above); the reader of `.aag` files; circuits with several
  latches in the encoders; the coupling mode of progequiv2dqbf, a stub, and its configurations without memory.
- Cdcl: activities and frequencies (see above), the cap of four thousand prime implicates, the logging hook, random 3-SAT, the
  measurements, and the gates of `multiplier_miter` that nothing uses.
- The operators that give words and machines their form (`Machine`, `FromBits`, `Bitwise1`) are notation and stand for
  no lines of code.

## 7. Plan

1. Done: Dqbf, VerifyProof with its proofs, ForkresSearch, FrpPipeline; frust's expansion with the arbiter loop, its
   saturation and FrustPipeline; BenchRunner; circuits and encoders; the solver of the experiment.
2. **Proofs.**  Done: the checker, forkres with the checker on its proofs, the benchmark runner, frust's saturation and
   its expansion in all modes, types, propagation, trail and answers of the experiment's solver.  Next: `SatSound` of forkres.
3. **frust's `cdcl.rs`**: assumptions, minimisation, clause deletion, calls that end in the middle; an
   abstract specification (a set of clauses and an answer) implemented by it.
4. An abstract specification of a prover (an answer about a formula, and a proof with UNSAT) that
   FrpPipeline and FrustPipeline implement; the version of the verifier in BenchRunner, as a run of its own.
