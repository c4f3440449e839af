---------------------------- MODULE ExpandState ----------------------------
(***************************************************************************)
(* provers/frust/src/expand_state.rs: expansion as a whole.  ExpandState   *)
(* picks a mode for the formula; each call of step goes on in that mode    *)
(* until there is an answer or the slice of time is spent.                 *)
(*                                                                         *)
(* The modes are the slot search (SlotDpll), the search over the outer     *)
(* existentials (OuterCegar), a scan of partial rows, which can only find  *)
(* one without a model, and definability (Arbiter), which may bail out     *)
(* into one of the others.                                                 *)
(***************************************************************************)
EXTENDS Arbiter

CONSTANTS
    FullWidth,   \* universals that are always expanded (16 in the code)
    MaxU,        \* and in the outer search (20)
    ManyOuter,   \* outer existentials that call for it (12)
    Levels       \* universals that are fixed in the partial scan (<<8, 12, 16, 20>>)

ASSUME ModesAssumption ==
    /\ FullWidth \in Nat /\ MaxU \in Nat /\ ManyOuter \in Nat
    /\ Levels \in Seq(Nat)

VARIABLES mode, level    \* a field; a local variable of the partial scan

arbVars == <<arbFields, arbLocals>>
vars == <<scenario, fields, locals, outerFields, outerLocals, arbVars, mode, level, pc, slices,
          answer>>

NumUniversals == Cardinality(f.universals)
Eae == \A y \in Exs : f.dependencies[y] \in {{}, f.universals}
Partial == NumUniversals > (IF Eae THEN MaxU ELSE FullWidth)

FirstMode ==
    IF Partial \/ ~ Eae THEN "Definability"
    ELSE IF Outer # {} /\ (NumUniversals > FullWidth
                             \/ (Cardinality(Outer) > ManyOuter /\ Outer # Exs))
         THEN "OuterCegar"
    ELSE "SlotDpll"

Entry(m) ==
    CASE m = "SlotDpll" -> SlotEntry
      [] m = "OuterCegar" -> OuterEntry
      [] m = "Definability" -> ArbEntry
      [] m = "Partial" -> "Partial"

Init ==
    /\ scenario \in Scenarios
    /\ SlotInit /\ OuterInit /\ ArbInit
    /\ mode = FirstMode /\ level = 1
    /\ pc = Entry(FirstMode) /\ slices = 0 /\ answer = "none"

\* The next slice: a new call.
Resume ==
    /\ pc = "pending"
    /\ FreshLocals /\ FreshOuterLocals /\ level' = 1
    /\ pc' = Entry(mode)
    /\ UNCHANGED <<scenario, arbVars, mode, slices, answer>>

-----------------------------------------------------------------------------
\* Definability gives up, and the call goes on.
Bail ==
    /\ pc = "bail"
    /\ mode' = IF Partial THEN "Partial" ELSE "SlotDpll"
    /\ pc' = Entry(mode')
    /\ ArbForgotten
    /\ UNCHANGED <<scenario, fields, locals, outerFields, outerLocals, level, slices, answer>>

-----------------------------------------------------------------------------
(* step_partial: deepening_partial_scan fixes the universals that occur     *)
(* most, more of them at each level, and starts over in each call.          *)

Occurrences(u) == Cardinality({p \in f.clauses \X {u, -u} : p[2] \in p[1]})
Before(w, u) ==
    Occurrences(w) > Occurrences(u) \/ (Occurrences(w) = Occurrences(u) /\ w < u)
TopUniversals(k) == {u \in f.universals : Cardinality({w \in f.universals : Before(w, u)}) < k}

\* The rows of the formula that row n of the universals us stands for.
Covered(us, n) ==
    {r \in 0..NumRows - 1 :
        \A u \in us : Row(r)[u] = ((n \div 2 ^ Cardinality({w \in us : w < u})) % 2 = 1)}

PartialSolvable == \E r \in Covered(TopUniversals(Levels[level]), ub) : Solvable(r, {})

AtLevel == pc = "Partial" /\ level <= Len(Levels) /\ Levels[level] <= NumUniversals

PendingInPartial ==
    /\ pc = "Partial" /\ Pending
    /\ UNCHANGED <<outerFields, outerLocals, arbVars, mode, level>>

PartialRow ==
    /\ AtLevel
    /\ PartialSolvable \/ scenario.budgetHits
    /\ IF ub + 1 = 2 ^ Levels[level] THEN ub' = 0 /\ level' = level + 1
                                     ELSE ub' = ub + 1 /\ UNCHANGED level
    /\ UNCHANGED <<scenario, fields, iters, anyBudget, prune, soft, outerFields, outerLocals,
                   arbVars, mode, pc, slices, answer>>

PartialUnsat ==
    /\ AtLevel
    /\ ~ PartialSolvable
    /\ Return("UnsatRow")
    /\ UNCHANGED <<scenario, fields, locals, outerFields, outerLocals, arbVars, mode, level,
                   slices>>

PartialDone ==
    /\ pc = "Partial" /\ ~ AtLevel
    /\ Return("Done")
    /\ UNCHANGED <<scenario, fields, locals, outerFields, outerLocals, arbVars, mode, level,
                   slices>>

-----------------------------------------------------------------------------
Step ==
    \/ SlotStep /\ UNCHANGED <<outerFields, outerLocals, arbVars, mode, level>>
    \/ OuterStep /\ UNCHANGED <<arbVars, mode, level>>
    \/ ArbStep /\ UNCHANGED <<mode, level>>
    \/ Bail
    \/ PartialRow \/ PartialUnsat \/ PartialDone
    \/ Resume

Next ==
    \/ Step
    \/ SlotPending /\ UNCHANGED <<outerFields, outerLocals, arbVars, mode, level>>
    \/ OuterPending /\ UNCHANGED <<arbVars, mode, level>>
    \/ PendingInCegar /\ UNCHANGED <<mode, level>>
    \/ PendingInPartial

\* The search runs on, and the scheduler calls it again after Pending.
Spec == Init /\ [][Next]_vars /\ WF_vars(Step)

-----------------------------------------------------------------------------
\* The state of each search has its shape.
TypeOK ==
    /\ SlotsOK /\ OuterOK /\ ArbOK
    /\ mode \in {"Definability", "Partial", "OuterCegar", "SlotDpll"}
    /\ pc \in {"free", "decide", "rows", "judge", "pick", "history", "fuzz", "scan", "bad",
               "padoa", "interpolate", "validity", "consist", "learn", "bail",
               "Partial", "pending", "returned"}
    /\ answer \in IF pc = "returned" THEN {"Sat", "UnsatRow", "Unsat", "Done"} ELSE {"none"}

\* The tables returned with Sat are a model of the formula, but for the outer
\* search when a row was undecided in the scan, which counts as solved and has its
\* cells filled from the model of another row, and for definability when a row is
\* masked.
SatIsModel ==
    answer = "Sat" /\ ~ skipped /\ ~ (mode = "Definability" /\ Masked)
        => IsModel(f, BuildSkolem(tables))

\* Whichever way the search says UNSAT, the formula has no Skolem tables, but for
\* definability when arbsolve ran out of conflicts or two partners share a cell for
\* the whole table.  The slot search remembers that a call ran out within a slice only:
\* for it the property is about scenarios where slices end or calls run out, not both.
\* Where both do it is violated, as ExhaustionIsUnsat shows.
UnsatIsFalse ==
    answer \in {"Unsat", "UnsatRow"} /\ ~ (mode = "Definability" /\ (skipped \/ ConstantLink))
        => ~ IsTrue(f)

\* Neither backtracking over the slots nor what the picker or the arbiters learn
\* discards the last Skolem tables of a true formula, unless two partners share a cell
\* for the whole table.
NothingLost ==
    answer = "none" /\ Models[f] # {} =>
        CASE mode = "OuterCegar"   -> PicksLeft
          [] mode = "Definability" -> ConstantLink \/ ArbitersLeft
          [] OTHER                 -> SlotsLeft

\* "Exhaustion => DQBF UNSAT, unless some CDCL call hit its conflict budget".
ExhaustionIsUnsat == answer = "Unsat" => ~ IsTrue(f)

\* A row is refuted under "a clause derivable from f.clauses by Q-resolution" each.
RefutedRowIsFalse == answer = "UnsatRow" => ~ IsTrue(f)

\* The search ends, when it is interrupted finitely often and arbsolve is never given
\* a clause that excludes nothing.
Terminates == <>(pc = "returned" \/ Tautology)
=============================================================================
