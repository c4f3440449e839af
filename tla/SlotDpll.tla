------------------------------ MODULE SlotDpll ------------------------------
(***************************************************************************)
(* provers/frust/src/expand_state.rs, step_slot_dpll: the resumable search *)
(* for Skolem tables by expansion.  ExpandState chooses when it is used.   *)
(*                                                                         *)
(* A cell is one entry of the table of an existential.  A first pass over  *)
(* the rows asks the SAT solver for a model of each row and makes every    *)
(* cell that two rows disagree on a slot.  The search then assigns the     *)
(* slots, re-solves all rows under the assignment, and backtracks when a   *)
(* row has no model or when, with all slots assigned, rows still disagree; *)
(* once the assignments are exhausted it starts over with the cells that   *)
(* disagreed as further slots, or gives up.                                *)
(*                                                                         *)
(* The caller gives the search a slice of time.  When it is spent the      *)
(* function returns Pending; the next call goes on from the fields of      *)
(* ExpandState, but its local variables start afresh.                      *)
(***************************************************************************)
EXTENDS Dqbf, Sequences, FiniteSetsExt

CONSTANTS
    Scenarios,    \* see below
    CheckPeriod,  \* iterations between two looks at the clock (64 in the code)
    BatchCheck,   \* in a batch, rows between two looks at the clock (2^14 in the code)
    MaxRounds     \* the cap on cegar_round (50 in the code)

\* A scenario is a formula, whether the SAT solver may run out of conflicts
\* (row_budget), the number of rows above which batch is set (2^16 in the code), and,
\* bounding the state space only, how often time may run out.  The variables of the
\* prefix are among those the header counts.
ASSUME ScenariosAssumption ==
    \A s \in Scenarios :
        /\ IsFormula(s.formula)
        /\ s.formula.universals \cup DOMAIN s.formula.dependencies \subseteq 1..s.formula.n_vars
        /\ s.budgetHits \in BOOLEAN
        /\ s.batchRows \in Nat /\ s.slices \in Nat

ASSUME PeriodsAssumption ==
    /\ CheckPeriod \in Nat \ {0} /\ BatchCheck \in Nat \ {0}
    /\ MaxRounds \in Nat

VARIABLES
    scenario,
    \* fields of ExpandState
    freeRow, firstSeen, slots, slotVal, decisions, nextSlot, cegarRound,
    newConflicts, tables,
    \* local variables of step_slot_dpll
    iters,    \* modulo CheckPeriod: only iters & 0x3f is looked at
    anyBudget, ub, prune, soft,
    pc,       \* here "free", "decide", "rows", "judge", "pending", "returned"
    slices,   \* Pending results so far
    answer    \* "none", "Sat", "UnsatRow", "Unsat", "Done"

fields == <<freeRow, firstSeen, slots, slotVal, decisions, nextSlot, cegarRound,
            newConflicts, tables>>
locals == <<iters, anyBudget, ub, prune, soft>>
f == scenario.formula

-----------------------------------------------------------------------------
Exs == DOMAIN f.dependencies

NumRows == 2 ^ Cardinality(f.universals)

Batch == NumRows > scenario.batchRows

\* Row n: bit i of n is the value of the i-th universal.
Row(n) == [u \in f.universals |->
              (n \div 2 ^ Cardinality({w \in f.universals : w < u})) % 2 = 1]

\* extract(ub, dep_mask): the entry of y's table that row n looks up.
Cell(y, n) == <<y, Key(Row(n), f.dependencies[y])>>

Cells == {Cell(y, n) : y \in Exs, n \in 0..NumRows - 1}

\* The models of row n under the pins: each existential is 1 or -1.
Satisfies(m, n, l) ==
    IF IsUniversal(f, Var(l)) THEN Row(n)[Var(l)] = (l > 0) ELSE (m[Var(l)] > 0) = (l > 0)

RowModels(n, pins) ==
    {m \in [Exs -> {-1, 1}] :
        /\ \A p \in pins : m[p[1]] = p[2]
        /\ \A c \in f.clauses : \E l \in c : Satisfies(m, n, l)}

\* cdcl.solve(assumps, model, row_budget): returns a model; or false, because there
\* is none or because the budget is hit.
Solvable(n, pins) == RowModels(n, pins) # {}

SolverFails(n, pins, budgetHit) ==
    \/ ~ budgetHit /\ ~ Solvable(n, pins)
    \/ budgetHit /\ scenario.budgetHits

\* The slots that row n looks up and that have a value.
Pins(n) == {<<slots[p][1], slotVal[p]>> :
               p \in {q \in DOMAIN slots : slotVal[q] # 0 /\ slots[q] = Cell(slots[q][1], n)}}

InSlot == {slots[p] : p \in DOMAIN slots}

BuildSkolem(t) ==
    [y \in Exs |-> [k \in {c[2] : c \in {d \in Cells : d[1] = y}} |-> t[<<y, k>>] = 1]]

\* s with the elements of set appended in increasing order of the existential; a
\* row has one cell per existential.
AppendCells(s, set) ==
    s \o [i \in 1..Cardinality(set) |->
             CHOOSE c \in set : Cardinality({d \in set : d[1] < c[1]}) = i - 1]

-----------------------------------------------------------------------------
SlotInit ==
    /\ freeRow = 0 /\ firstSeen = [c \in Cells |-> 0]
    /\ slots = << >> /\ slotVal = << >> /\ decisions = << >> /\ nextSlot = 0
    /\ cegarRound = 0 /\ newConflicts = {} /\ tables = [c \in Cells |-> 0]
    /\ iters = 0 /\ anyBudget = FALSE /\ ub = 0 /\ prune = FALSE /\ soft = FALSE

Return(a) == pc' = "returned" /\ answer' = a

\* The deadline has passed where the code looks at the clock.
Pending ==
    /\ slices < scenario.slices
    /\ slices' = slices + 1
    /\ pc' = "pending"
    /\ UNCHANGED <<scenario, fields, locals, answer>>

PendingInFreePass == pc = "free" /\ freeRow < NumRows /\ Pending

PendingInLoop == pc = "decide" /\ (iters + 1) % CheckPeriod = 0 /\ Pending

PendingInRows == pc = "rows" /\ ub < NumRows /\ Batch /\ ub % BatchCheck = 0 /\ Pending

\* Mutant: decisions is a local variable too.
DecisionsAreLocal ==
    /\ iters' = 0 /\ anyBudget' = FALSE /\ ub' = 0 /\ prune' = FALSE /\ soft' = FALSE
    /\ decisions' = << >>
    /\ UNCHANGED <<freeRow, firstSeen, slots, slotVal, nextSlot, cegarRound, newConflicts, tables>>

\* The local variables of a new call.
FreshLocals ==
    /\ iters' = 0 /\ anyBudget' = FALSE /\ ub' = 0 /\ prune' = FALSE /\ soft' = FALSE
    /\ UNCHANGED fields

\* Where a call goes on.
SlotEntry == IF freeRow < NumRows THEN "free" ELSE "decide"

-----------------------------------------------------------------------------
(* The free pass.                                                          *)

Disagreeing(m) ==
    {Cell(y, freeRow) : y \in {z \in Exs : firstSeen[Cell(z, freeRow)] = -m[z]}}

FreeModel(m) ==
    /\ pc = "free" /\ freeRow < NumRows
    /\ m \in RowModels(freeRow, {})
    /\ firstSeen' = [c \in Cells |->
                        IF firstSeen[c] = 0 /\ c = Cell(c[1], freeRow) THEN m[c[1]]
                        ELSE firstSeen[c]]
    /\ slots' = AppendCells(slots, Disagreeing(m) \ InSlot)
    /\ freeRow' = freeRow + 1
    /\ UNCHANGED <<scenario, slotVal, decisions, nextSlot, cegarRound, newConflicts, tables,
                   locals, pc, slices, answer>>

FreeFailure(budgetHit) ==
    /\ pc = "free" /\ freeRow < NumRows
    /\ SolverFails(freeRow, {}, budgetHit)
    /\ Return(IF budgetHit THEN "Done" ELSE "UnsatRow")
    /\ UNCHANGED <<scenario, fields, locals, slices>>

\* Every row seen: without a slot the first values are a Skolem table.
FreePassDone ==
    /\ pc = "free" /\ freeRow = NumRows
    /\ IF slots = << >>
       THEN /\ Return("Sat") /\ tables' = firstSeen
            /\ UNCHANGED slotVal
       ELSE /\ pc' = "decide" /\ slotVal' = [p \in DOMAIN slots |-> 0]
            /\ UNCHANGED <<tables, answer>>
    /\ UNCHANGED <<scenario, freeRow, firstSeen, slots, decisions, nextSlot, cegarRound,
                   newConflicts, locals, slices>>

-----------------------------------------------------------------------------
(* The search over slot assignments.  Positions are counted from 1; nextSlot *)
(* slots have been decided.                                                  *)

AllDecided == nextSlot >= Len(slots)

\* Decide one slot, or all in a batch, with the value the free pass saw first.
Decide ==
    /\ pc = "decide"
    /\ iters' = (iters + 1) % CheckPeriod
    /\ LET upto == IF AllDecided THEN nextSlot ELSE IF Batch THEN Len(slots) ELSE nextSlot + 1
           new  == nextSlot + 1 .. upto
       IN  /\ nextSlot' = upto
           /\ slotVal' = [p \in DOMAIN slots |-> IF p \in new THEN firstSeen[slots[p]] ELSE slotVal[p]]
           /\ decisions' = decisions \o [i \in 1..upto - nextSlot |->
                                            [slot |-> nextSlot + i, flipped |-> FALSE]]
    /\ tables' = [c \in Cells |->
                     IF c \in InSlot THEN slotVal'[CHOOSE p \in DOMAIN slots : slots[p] = c] ELSE 0]
    /\ ub' = 0 /\ prune' = FALSE /\ soft' = FALSE
    /\ pc' = "rows"
    /\ UNCHANGED <<scenario, freeRow, firstSeen, slots, cegarRound, newConflicts, anyBudget,
                   slices, answer>>

\* The model of row ub fills the cells it looks up, or disagrees with them.
RowModel(m) ==
    /\ pc = "rows" /\ ub < NumRows
    /\ m \in RowModels(ub, Pins(ub))
    /\ LET clash == {Cell(y, ub) : y \in {z \in Exs : tables[Cell(z, ub)] = -m[z]}}
       IN  /\ soft' = (soft \/ clash # {})
           /\ newConflicts' = newConflicts \cup clash
    /\ tables' = [c \in Cells |->
                     IF tables[c] = 0 /\ c = Cell(c[1], ub) THEN m[c[1]] ELSE tables[c]]
    /\ ub' = ub + 1
    /\ UNCHANGED <<scenario, freeRow, firstSeen, slots, slotVal, decisions, nextSlot, cegarRound,
                   iters, anyBudget, prune, pc, slices, answer>>

RowFailure(budgetHit) ==
    /\ pc = "rows" /\ ub < NumRows
    /\ SolverFails(ub, Pins(ub), budgetHit)
    /\ anyBudget' = (anyBudget \/ budgetHit)
    /\ prune' = TRUE
    /\ pc' = "judge"
    /\ UNCHANGED <<scenario, fields, iters, ub, soft, slices, answer>>

RowsDone ==
    /\ pc = "rows" /\ ub = NumRows
    /\ pc' = "judge"
    /\ UNCHANGED <<scenario, fields, locals, slices, answer>>

\* Mutant: a row disagreeing with the table is not noticed.
NotPruned == ~ prune

\* All rows have a model and agree.
TableFound == ~ prune /\ ~ soft

JudgeSat ==
    /\ pc = "judge" /\ TableFound
    /\ Return("Sat")
    /\ UNCHANGED <<scenario, fields, locals, slices>>

\* Rows disagree, but there are slots left to decide.
JudgeContinue ==
    /\ pc = "judge" /\ ~ TableFound
    /\ ~ prune /\ ~ AllDecided
    /\ pc' = "decide"
    /\ UNCHANGED <<scenario, fields, locals, slices, answer>>

\* Mutant: a flipped decision is flipped back.
AnyDecision == DOMAIN decisions

Unflipped == {i \in DOMAIN decisions : ~ decisions[i].flipped}

\* Flip the latest decision that has one value left; forget those after it.
JudgeBacktrack ==
    /\ pc = "judge" /\ ~ TableFound
    /\ prune \/ AllDecided
    /\ Unflipped # {}
    /\ LET i  == Max(Unflipped)
           si == decisions[i].slot
       IN  /\ decisions' = Append(SubSeq(decisions, 1, i - 1), [slot |-> si, flipped |-> TRUE])
           /\ slotVal' = [p \in DOMAIN slots |->
                             IF p < si THEN slotVal[p] ELSE IF p = si THEN -slotVal[p] ELSE 0]
           /\ nextSlot' = si
    /\ pc' = "decide"
    /\ UNCHANGED <<scenario, freeRow, firstSeen, slots, cegarRound, newConflicts, tables,
                   locals, slices, answer>>

Added == newConflicts \ InSlot

\* Every assignment to the slots is refuted and no other cell ever disagreed.
JudgeExhausted ==
    /\ pc = "judge" /\ ~ TableFound
    /\ prune \/ AllDecided
    /\ Unflipped = {} /\ Added = {}
    /\ cegarRound' = cegarRound + 1
    /\ decisions' = << >> /\ slotVal' = [p \in DOMAIN slots |-> 0]
    /\ Return(IF anyBudget THEN "Done" ELSE "Unsat")
    /\ UNCHANGED <<scenario, freeRow, firstSeen, slots, nextSlot, newConflicts, tables, locals, slices>>

\* Start over with more slots, appended in the order in which the hash set yields them.
JudgeRefine ==
    /\ pc = "judge" /\ ~ TableFound
    /\ prune \/ AllDecided
    /\ Unflipped = {} /\ Added # {}
    /\ cegarRound' = cegarRound + 1
    /\ decisions' = << >>
    /\ IF cegarRound' >= MaxRounds
       THEN /\ Return("Done")
            /\ slotVal' = [p \in DOMAIN slots |-> 0]
            /\ UNCHANGED <<slots, nextSlot, newConflicts>>
       ELSE /\ \E order \in [1..Cardinality(Added) -> Added] :
                  /\ {order[i] : i \in DOMAIN order} = Added
                  /\ slots' = slots \o order
            /\ slotVal' = [p \in DOMAIN slots' |-> 0]
            /\ nextSlot' = 0 /\ newConflicts' = {}
            /\ pc' = "decide" /\ UNCHANGED answer
    /\ UNCHANGED <<scenario, freeRow, firstSeen, tables, locals, slices>>

SlotStep ==
    \/ \E m \in [Exs -> {-1, 1}] : FreeModel(m) \/ RowModel(m)
    \/ \E budgetHit \in BOOLEAN : FreeFailure(budgetHit) \/ RowFailure(budgetHit)
    \/ FreePassDone \/ Decide \/ RowsDone
    \/ JudgeSat \/ JudgeContinue \/ JudgeBacktrack \/ JudgeExhausted \/ JudgeRefine

SlotPending == PendingInFreePass \/ PendingInLoop \/ PendingInRows

-----------------------------------------------------------------------------
\* The shape of the state; the decided slots are a prefix, one decision each.
SlotsOK ==
    /\ freeRow \in 0..NumRows /\ ub \in 0..NumRows
    /\ firstSeen \in [Cells -> {-1, 0, 1}] /\ tables \in [Cells -> {-1, 0, 1}]
    /\ slots \in Seq(Cells) /\ Cardinality(InSlot) = Len(slots)
    /\ slotVal \in Seq({-1, 0, 1})
    /\ newConflicts \subseteq Cells
    /\ answer = "none" =>
          /\ Len(decisions) = nextSlot
          /\ \A i \in DOMAIN decisions : decisions[i].slot = i
          /\ \A p \in DOMAIN slotVal : slotVal[p] # 0 <=> p <= nextSlot

\* Sk is still in the part of the search space that lies ahead: it agrees with the
\* slots decided, or the first decision it disagrees with can still be flipped.
Ahead(sk) ==
    LET value(p)  == IF sk[slots[p][1]][slots[p][2]] THEN 1 ELSE -1
        differs   == {p \in 1..nextSlot : value(p) # slotVal[p]}
    IN  differs # {} => ~ decisions[Min(differs)].flipped

\* The Skolem tables of each formula; a constant, so that TLC computes it once.
Models ==
    [h \in {s.formula : s \in Scenarios} |-> {sk \in SkolemTuples(h) : IsModel(h, sk)}]

\* Some Skolem tables of the formula are ahead, or a cell is on record that will
\* be split on, or a budget was hit.
SlotsLeft ==
    \/ anyBudget
    \/ Added # {}
    \/ \E sk \in Models[f] : Ahead(sk)
=============================================================================
