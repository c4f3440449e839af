----------------------------- MODULE OuterCegar -----------------------------
(***************************************************************************)
(* provers/frust/src/expand_state.rs, step_outer_cegar: expansion when     *)
(* every existential depends on no universal or on all of them.            *)
(*                                                                         *)
(* The outer existentials, which depend on none, are chosen by a second    *)
(* SAT solver, the picker.  Then the rows are solved under that choice.  A *)
(* row without a model goes to the picker, as a copy of the matrix in that *)
(* row or, when there is no room or the copy did not help, as a clause     *)
(* that excludes the part of the choice that refutes the row.              *)
(*                                                                         *)
(* A scenario has two more fields here: cegisRows is the number of copies  *)
(* that fit (50000 variables' worth in the code), fuzzRows the number of   *)
(* rows above which some are tried at random (1024).                       *)
(***************************************************************************)
EXTENDS SlotDpll, SequencesExt

CONSTANT History              \* bad rows that are tried first (32 in the code)

ASSUME OuterAssumption ==
    /\ History \in Nat
    /\ \A s \in Scenarios : s.cegisRows \in Nat /\ s.fuzzRows \in Nat

VARIABLES
    \* fields of ExpandState
    pins,      \* outer_pins: the choice for the outer existentials
    loaded,    \* the rows whose copy the picker has (cegis_rows)
    blocks,    \* outer_learned
    badRows,
    model,     \* the last model of the row solver
    \* local variables
    todo,      \* what is left of the history of bad rows
    badRow,    \* bad_ub
    \* not in the code, which does not look back
    skipped    \* the scan went past a row that the solver did not decide

outerFields == <<pins, loaded, blocks, badRows, model>>
outerLocals == <<todo, badRow, skipped>>

NoRow == -1

Outer == {y \in Exs : f.dependencies[y] = {}}

CegisRows == Min({NumRows, scenario.cegisRows})
Full == CegisRows = NumRows

\* The matrix in row n: the clauses that the universals leave open, without them.
Residual(n) ==
    {{l \in c : ~ IsUniversal(f, Var(l))} :
        c \in {d \in f.clauses :
                  ~ \E l \in d : IsUniversal(f, Var(l)) /\ Row(n)[Var(l)] = (l > 0)}}

\* A copy that is added later leaves out a clause that is false in the row already.
Copy(n) == IF Full THEN Residual(n) ELSE Residual(n) \ {{}}

Agrees(m, l) == (m[Var(l)] > 0) = (l > 0)

\* The choices that the picker may return: its clauses are the blocks and the
\* copies, which share the outer existentials.
Picks ==
    {p \in [Outer -> {-1, 1}] :
        /\ \A b \in blocks : \E l \in b : Agrees(p, l)
        /\ \A n \in loaded : \E m \in [Exs -> {-1, 1}] :
              /\ \A y \in Outer : m[y] = p[y]
              /\ \A c \in Copy(n) : \E l \in c : Agrees(m, l)}

PinsOf(ys) == {<<y, pins[y]>> : y \in ys}

-----------------------------------------------------------------------------
\* With room for all rows the first call gives the picker every copy at once.
OuterInit ==
    /\ pins = [y \in Outer |-> -1]
    /\ loaded = IF Full THEN 0..NumRows - 1 ELSE {}
    /\ blocks = {} /\ badRows = << >> /\ model = [y \in Exs |-> -1]
    /\ todo = << >> /\ badRow = NoRow /\ skipped = FALSE

OuterEntry == "pick"

\* The local variables of a new call.
FreshOuterLocals == todo' = << >> /\ badRow' = NoRow /\ skipped' = FALSE /\ UNCHANGED outerFields

\* The clock is read before and after the picker runs out of conflicts, which it
\* is given again without end, and before blocks of rows.
PendingInPick == pc = "pick" /\ Pending /\ UNCHANGED <<outerFields, outerLocals>>

PendingInScan ==
    /\ pc = "scan" /\ ub < NumRows /\ ub % BatchCheck = 0
    /\ Pending
    /\ UNCHANGED <<outerFields, outerLocals>>

Rest == <<scenario, freeRow, firstSeen, slots, slotVal, decisions, nextSlot, cegarRound,
          newConflicts, iters, anyBudget, prune, soft, slices>>

Pick ==
    /\ pc = "pick"
    /\ pins' \in Picks
    /\ tables' = [c \in Cells |-> 0]
    /\ todo' = SubSeq(Reverse(badRows), 1, Min({Len(badRows), History}))
    /\ badRow' = NoRow /\ skipped' = FALSE
    /\ pc' = "history"
    /\ UNCHANGED <<Rest, ub, answer, loaded, blocks, badRows, model>>

PickerUnsat ==
    /\ pc = "pick"
    /\ Picks = {}
    /\ Return("Unsat")
    /\ UNCHANGED <<Rest, ub, tables, outerFields, outerLocals>>

\* Row n has no model under the choice.
Bad(n) ==
    /\ SolverFails(n, PinsOf(Outer), FALSE)
    /\ badRow' = n
    /\ pc' = "bad"
    /\ UNCHANGED <<Rest, ub, tables, answer, outerFields, todo, skipped>>

\* Row n has one.
Good(n) == model' \in RowModels(n, PinsOf(Outer))

\* The solver runs out of conflicts, and the model stays.
Undecided(n) == SolverFails(n, PinsOf(Outer), TRUE) /\ UNCHANGED model

HistoryBad == pc = "history" /\ todo # << >> /\ Bad(Head(todo))

HistoryRow ==
    /\ pc = "history" /\ todo # << >>
    /\ Good(Head(todo)) \/ Undecided(Head(todo))
    /\ todo' = Tail(todo)
    /\ UNCHANGED <<Rest, ub, tables, pc, answer, pins, loaded, blocks, badRows, badRow, skipped>>

HistoryDone ==
    /\ pc = "history" /\ todo = << >>
    /\ pc' = IF NumRows > scenario.fuzzRows THEN "fuzz" ELSE "scan"
    /\ ub' = 0
    /\ UNCHANGED <<Rest, tables, answer, outerFields, outerLocals>>

\* Rows at random: one of them is bad, or none that was tried.
FuzzBad == pc = "fuzz" /\ \E n \in 0..NumRows - 1 : Bad(n)

FuzzDone ==
    /\ pc = "fuzz"
    /\ \E n \in 0..NumRows - 1 : Good(n) \/ Undecided(n)
    /\ pc' = "scan"
    /\ UNCHANGED <<Rest, ub, tables, answer, pins, loaded, blocks, badRows, outerLocals>>

ScanBad == pc = "scan" /\ ub < NumRows /\ Bad(ub)

\* The cells of the row are filled from the model, whichever row it is of.
ScanRow ==
    /\ pc = "scan" /\ ub < NumRows
    /\ \/ Good(ub) /\ UNCHANGED skipped
       \/ Undecided(ub) /\ skipped' = TRUE
    /\ tables' = [c \in Cells |->
                     IF tables[c] = 0 /\ c = Cell(c[1], ub) THEN model'[c[1]] ELSE tables[c]]
    /\ ub' = ub + 1
    /\ UNCHANGED <<Rest, pc, answer, pins, loaded, blocks, badRows, todo, badRow>>

\* All rows are scanned: the choice and the tables are the Skolem functions.
ScanDone ==
    /\ pc = "scan" /\ ub = NumRows
    /\ tables' = [c \in Cells |-> IF c[1] \in Outer THEN pins[c[1]] ELSE tables[c]]
    /\ Return("Sat")
    /\ UNCHANGED <<Rest, ub, outerFields, outerLocals>>

\* There is room for a copy of the bad row, and it was not bad before.
Room == Cardinality(loaded) < CegisRows /\ badRow \notin Range(badRows)

AddCopy ==
    /\ pc = "bad" /\ Room
    /\ loaded' = loaded \cup {badRow}
    /\ badRows' = Append(badRows, badRow)
    /\ pc' = OuterEntry
    /\ UNCHANGED <<Rest, ub, tables, answer, pins, blocks, model, outerLocals>>

\* The choices for some of the outer existentials that refute the bad row.  One
\* after the other is left out, if the row stays refuted without it.
Cores ==
    LET refuting == {ys \in SUBSET Outer : ~ Solvable(badRow, PinsOf(ys))}
    IN  IF scenario.budgetHits THEN refuting
        ELSE {ys \in refuting : \A y \in ys : ys \ {y} \notin refuting}

\* Mutant: the clause asks for the choice that failed.
Confirm(ys) == {y * pins[y] : y \in ys}

BlockingClause(ys) == {-(y * pins[y]) : y \in ys}

Block ==
    /\ pc = "bad" /\ ~ Room
    /\ \E ys \in Cores :
          /\ blocks' = blocks \cup {BlockingClause(ys)}
          /\ model' \in {model} \cup UNION {RowModels(badRow, PinsOf(ys \ {y})) : y \in ys}
    /\ badRows' = Append(badRows, badRow)
    /\ pc' = OuterEntry
    /\ UNCHANGED <<Rest, ub, tables, answer, pins, loaded, outerLocals>>

OuterStep ==
    \/ Pick \/ PickerUnsat
    \/ HistoryBad \/ HistoryRow \/ HistoryDone
    \/ FuzzBad \/ FuzzDone
    \/ ScanBad \/ ScanRow \/ ScanDone
    \/ AddCopy \/ Block

OuterPending == PendingInPick \/ PendingInScan

-----------------------------------------------------------------------------
OuterOK ==
    /\ pins \in [Outer -> {-1, 1}] /\ model \in [Exs -> {-1, 1}]
    /\ loaded \subseteq 0..NumRows - 1 /\ Cardinality(loaded) <= CegisRows
    /\ badRows \in Seq(0..NumRows - 1)

\* The picker still allows the outer part of some Skolem tables.
PicksLeft ==
    \E sk \in Models[f] : \E p \in Picks :
       \A y \in Outer : \A k \in DOMAIN sk[y] : sk[y][k] = (p[y] = 1)
=============================================================================
