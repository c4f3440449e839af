---------------------------- MODULE ExpandProofs ----------------------------
(***************************************************************************)
(* Expansion, for every formula, all thresholds, any solver that answers   *)
(* rightly or runs out of conflicts, and any slices of time: the state of  *)
(* each search has its shape, the tables returned are a model, and no      *)
(* Skolem tables are lost on the way, so that UNSAT is right.  The one     *)
(* exception is the slot search when both time and conflicts run out,      *)
(* which forgets a flag between two calls.                                 *)
(***************************************************************************)
EXTENDS ExpandState, DqbfProofs, OrderLemmas, FunctionTheorems

-----------------------------------------------------------------------------
(* The formula and its rows.                                               *)

\* The formula of a scenario is one, and finite.
LEMMA TheFormula ==
    ASSUME scenario \in Scenarios
    PROVE  /\ IsFormula(f) /\ PrefixOK(f) /\ Counted(f)
           /\ IsFiniteSet(f.universals) /\ f.universals \in SUBSET Int
           /\ IsFiniteSet(Exs) /\ Exs \in SUBSET (Nat \ {0})
           /\ \A y \in Exs : f.dependencies[y] \subseteq f.universals
           /\ NumRows \in Nat \ {0}
<1>1. IsFormula(f) /\ f.universals \cup DOMAIN f.dependencies \subseteq 1..f.n_vars
  BY ScenariosAssumption DEF f
<1>2. PrefixOK(f) /\ Counted(f)
  BY <1>1 DEF IsFormula, PrefixOK, Counted
<1>3. IsFiniteSet(f.universals) /\ IsFiniteSet(Exs) /\ f.universals \in SUBSET Int
  BY <1>2, FinitePrefix DEF Exs, PrefixOK
<1>4. NumRows \in Nat \ {0}
  BY <1>3, FS_CardinalityType, PowerDoubles DEF NumRows
<1>5. QED
  BY <1>1, <1>2, <1>3, <1>4 DEF IsFormula, PrefixOK, Exs

\* A literal of a clause is one of the formula.
LEMMA TheLiterals ==
    ASSUME scenario \in Scenarios, NEW c \in f.clauses, NEW l \in c
    PROVE  /\ l \in Int /\ IsDeclared(f, Var(l))
           /\ ~ IsUniversal(f, Var(l)) => Var(l) \in Exs
           /\ IsUniversal(f, Var(l)) => ~ IsExistential(f, Var(l))
<1>1. IsFormula(f)
  BY TheFormula
<1>2. QED
  BY <1>1 DEF IsFormula, IsDeclared, IsUniversal, IsExistential, PrefixOK, Exs

\* The numbers of the rows are names for all of them.
LEMMA RowNames ==
    ASSUME scenario \in Scenarios
    PROVE  /\ \A n : Row(n) \in Rows(f)
           /\ \A a \in Rows(f) : \E n \in AllRows : Row(n) = a
           /\ \A n, k \in AllRows : Row(n) = Row(k) => n = k
<1> DEFINE U == f.universals
           name == [n \in AllRows |-> Row(n)]
           set(a) == {u \in U : a[u]}
           as == [s \in SUBSET U |-> [u \in U |-> u \in s]]
<1>1. IsFiniteSet(U) /\ U \in SUBSET Int /\ NumRows \in Nat \ {0}
  BY TheFormula
<1>2. \A n : Row(n) \in Rows(f)
  BY DEF Row, Rows
<1>3. ASSUME NEW a \in Rows(f) PROVE \E n \in AllRows : Row(n) = a
  <2>1. a \in [U -> BOOLEAN]
    BY DEF Rows
  <2>2. PICK n \in 0..2 ^ Cardinality(U) - 1 :
           \A u \in U : ((n \div 2 ^ Cardinality({w \in U : w < u})) % 2 = 1) = a[u]
    BY <1>1, <2>1, BitsOnto
  <2>3. Row(n) = a
    BY <2>1, <2>2 DEF Row
  <2>4. QED
    BY <2>2, <2>3 DEF AllRows, NumRows
<1>4. IsFiniteSet(Rows(f)) /\ Cardinality(Rows(f)) = NumRows
  <2>1. IsFiniteSet(SUBSET U) /\ Cardinality(SUBSET U) = NumRows
    BY <1>1, FS_SUBSET DEF NumRows
  <2>2. as \in Bijection(SUBSET U, Rows(f))
    <3>1. as \in [SUBSET U -> Rows(f)]
      BY DEF Rows
    <3>2. ASSUME NEW s \in SUBSET U, NEW t \in SUBSET U, as[s] = as[t] PROVE s = t
      <4>1. \A u \in U : as[s][u] = (u \in s) /\ as[t][u] = (u \in t)
        OBVIOUS
      <4>2. \A u \in U : u \in s <=> u \in t
        BY <3>2, <4>1
      <4>3. QED
        BY <4>2
    <3>3. ASSUME NEW a \in Rows(f) PROVE \E s \in SUBSET U : as[s] = a
      <4>1. as[set(a)] = a
        BY DEF Rows
      <4>2. QED
        BY <4>1
    <3>4. QED
      BY <3>1, <3>2, <3>3 DEF Bijection, Injection, Surjection, IsInjective
  <2>3. QED
    BY <2>1, <2>2, FS_Bijection DEF ExistsBijection
<1>5. IsFiniteSet(AllRows) /\ Cardinality(AllRows) = NumRows
  <2>1. 0 \in Int /\ NumRows - 1 \in Int
    BY <1>1
  <2>2. QED
    BY <1>1, <2>1, FS_Interval DEF AllRows
<1>6. name \in Surjection(AllRows, Rows(f))
  BY <1>2, <1>3 DEF Surjection
<1>7. name \in Injection(AllRows, Rows(f))
  BY <1>4, <1>5, <1>6, FS_SurjSameCardinalityImpliesInj
<1>8. QED
  BY <1>2, <1>3, <1>7 DEF Injection, IsInjective

\* Cells are named by an existential and a row.
LEMMA CellNames ==
    ASSUME scenario \in Scenarios
    PROVE  /\ \A y \in Exs, n \in AllRows : Cell(y, n) \in Cells
           /\ \A c \in Cells : c[1] \in Exs /\ \E n \in AllRows : c = Cell(c[1], n)
           /\ \A y, n : Cell(y, n)[1] = y /\ Cell(y, n)[2] = Key(Row(n), f.dependencies[y])
BY DEF Cells, Cell, AllRows

\* What the tables sk say in row n.
RowOf(sk, n) == [y \in Exs |-> IF sk[y][Key(Row(n), f.dependencies[y])] THEN 1 ELSE -1]

\* The tables that Models lists are the Skolem functions of the formula.
LEMMA TheModels ==
    ASSUME scenario \in Scenarios
    PROVE  /\ Models[f] = {sk \in SkolemTuples(f) : IsModel(f, sk)}
           /\ IsTrue(f) <=> Models[f] # {}
<1>1. f \in {s.formula : s \in Scenarios}
  BY DEF f
<1>2. QED
  BY <1>1 DEF Models, IsTrue

\* A row looks up a value in each table.
LEMMA TableLookup ==
    ASSUME scenario \in Scenarios, NEW sk \in SkolemTuples(f), NEW y \in Exs, NEW n
    PROVE  /\ Key(Row(n), f.dependencies[y]) \in DOMAIN sk[y]
           /\ DOMAIN sk[y] = [f.dependencies[y] -> BOOLEAN]
           /\ sk[y] \in [[f.dependencies[y] -> BOOLEAN] -> BOOLEAN]
           /\ sk[y][Key(Row(n), f.dependencies[y])] \in BOOLEAN
<1>1. f.dependencies[y] \subseteq f.universals
  BY TheFormula
<1>2. sk[y] \in [[f.dependencies[y] -> BOOLEAN] -> BOOLEAN]
  BY <1>1 DEF SkolemTuples, Tables, Exs
<1>3. Key(Row(n), f.dependencies[y]) \in [f.dependencies[y] -> BOOLEAN]
  BY <1>1 DEF Key, Row
<1>4. QED
  BY <1>2, <1>3

\* Where the tables are a model, each row of them is one.
LEMMA RowOfModel ==
    ASSUME scenario \in Scenarios, NEW sk \in Models[f], NEW n
    PROVE  RowOf(sk, n) \in RowModels(n, {})
<1>1. sk \in SkolemTuples(f) /\ IsModel(f, sk)
  BY TheModels
<1>2. RowOf(sk, n) \in [Exs -> {-1, 1}]
  BY DEF RowOf
<1>3. ASSUME NEW c \in f.clauses PROVE \E l \in c : Satisfies(RowOf(sk, n), n, l)
  <2>1. Row(n) \in Rows(f)
    BY RowNames
  <2>2. PICK l \in c : LitTrue(f, sk, Row(n), l)
    BY <1>1, <2>1 DEF IsModel, EvalClause
  <2>3. CASE IsUniversal(f, Var(l))
    <3>1. ~ IsExistential(f, Var(l))
      BY <2>3, TheLiterals
    <3>2. Row(n)[Var(l)] = (l > 0)
      <4>1. Row(n)[Var(l)] \in BOOLEAN /\ (l > 0) \in BOOLEAN
        BY <2>1, <2>3 DEF Rows, IsUniversal
      <4>2. QED
        BY <2>2, <3>1, <4>1 DEF LitTrue
    <3>3. QED
      BY <2>3, <3>2 DEF Satisfies
  <2>4. CASE ~ IsUniversal(f, Var(l))
    <3>1. Var(l) \in Exs
      BY <2>4, TheLiterals
    <3>2. sk[Var(l)][Key(Row(n), f.dependencies[Var(l)])] <=> l > 0
      BY <2>2, <2>4 DEF LitTrue
    <3>3. RowOf(sk, n)[Var(l)] = IF l > 0 THEN 1 ELSE -1
      BY <3>1, <3>2 DEF RowOf
    <3>4. QED
      BY <2>4, <3>3 DEF Satisfies
  <2>5. QED
    BY <2>3, <2>4
<1>4. QED
  BY <1>2, <1>3 DEF RowModels

\* A row of a true formula has a model.
LEMMA RowSolvable ==
    ASSUME scenario \in Scenarios, IsTrue(f), NEW n
    PROVE  Solvable(n, {})
<1>1. PICK sk \in Models[f] : TRUE
  BY TheModels
<1>2. QED
  BY <1>1, RowOfModel DEF Solvable

\* Tables that agree with a model of each row are a model of the formula.
RowAgrees(t, n) == \E m \in RowModels(n, {}) : \A y \in Exs : t[Cell(y, n)] = m[y]

\* The tables that BuildSkolem returns then are a model.
LEMMA TablesAreModel ==
    ASSUME scenario \in Scenarios, NEW t, \A n \in AllRows : RowAgrees(t, n)
    PROVE  IsModel(f, BuildSkolem(t))
<1> DEFINE sk == BuildSkolem(t)
<1>1. SUFFICES ASSUME NEW a \in Rows(f), NEW c \in f.clauses
               PROVE  \E l \in c : LitTrue(f, sk, a, l)
  BY DEF IsModel, EvalClause
<1>2. PICK n \in AllRows : Row(n) = a
  BY RowNames
<1>3. PICK m \in RowModels(n, {}) : \A y \in Exs : t[Cell(y, n)] = m[y]
  BY DEF RowAgrees
<1>4. PICK l \in c : Satisfies(m, n, l)
  BY DEF RowModels
<1>5. CASE IsUniversal(f, Var(l))
  BY <1>2, <1>4, <1>5 DEF Satisfies, LitTrue
<1>6. CASE ~ IsUniversal(f, Var(l))
  <2> DEFINE y == Var(l)
             k == Key(a, f.dependencies[y])
  <2>1. y \in Exs
    BY <1>6, TheLiterals
  <2>2. Cell(y, n) \in Cells /\ Cell(y, n) = <<y, k>>
    BY <1>2, <2>1, CellNames DEF Cell
  <2>3. k \in {c1[2] : c1 \in {d \in Cells : d[1] = y}}
    BY <2>2
  <2>4. sk[y][k] = (t[<<y, k>>] = 1)
    BY <2>1, <2>3 DEF BuildSkolem
  <2>5. m[y] \in {-1, 1} /\ t[<<y, k>>] = m[y]
    BY <1>3, <2>1, <2>2 DEF RowModels
  <2>6. (m[y] > 0) = (l > 0)
    BY <1>4, <1>6 DEF Satisfies
  <2>7. sk[y][k] <=> l > 0
    <3> HIDE DEF sk, y, k
    <3>1. CASE m[y] = 1
      <4>1. t[<<y, k>>] = 1 /\ m[y] > 0
        BY <2>5, <3>1
      <4>2. sk[y][k] /\ l > 0
        BY <2>4, <2>6, <4>1
      <4>3. QED
        BY <4>2
    <3>2. CASE m[y] = -1
      <4>1. t[<<y, k>>] # 1 /\ ~ (m[y] > 0)
        BY <2>5, <3>2
      <4>2. ~ sk[y][k] /\ ~ (l > 0)
        BY <2>4, <2>6, <4>1
      <4>3. QED
        BY <4>2
    <3>3. QED
      BY <2>5, <3>1, <3>2
  <2>8. QED
    BY <2>1, <2>7 DEF LitTrue, IsExistential, Exs
<1>7. QED
  BY <1>5, <1>6

-----------------------------------------------------------------------------
(* The invariants.                                                         *)

\* Where a call in each mode may be.
Places(m) ==
    CASE m = "SlotDpll"     -> {"free", "decide", "rows", "judge"}
      [] m = "OuterCegar"   -> {"pick", "history", "fuzz", "scan", "bad"}
      [] m = "Definability" -> {"padoa", "interpolate", "validity", "consist", "learn", "bail"}
      [] m = "Partial"      -> {"Partial"}

\* Control is at a place of the mode, and there is an answer when it has returned.
ControlInv ==
    /\ scenario \in Scenarios
    /\ mode \in {"Definability", "Partial", "OuterCegar", "SlotDpll"}
    /\ pc \in Places(mode) \cup {"pending", "returned"}
    /\ answer \in IF pc = "returned" THEN {"Sat", "UnsatRow", "Unsat", "Done"} ELSE {"none"}
    /\ slices \in Nat /\ (pc = "pending" => scenario.slices > 0)

\* The slot search.
SlotShape ==
    /\ freeRow \in 0..NumRows /\ ub \in 0..NumRows
    /\ firstSeen \in [Cells -> {-1, 0, 1}] /\ tables \in [Cells -> {-1, 0, 1}]
    /\ slots \in Seq(Cells) /\ \A p, q \in DOMAIN slots : slots[p] = slots[q] => p = q
    /\ slotVal \in Seq({-1, 0, 1})
    /\ decisions \in Seq([slot : Nat, flipped : BOOLEAN]) /\ nextSlot \in Nat
    /\ newConflicts \subseteq Cells
    /\ anyBudget \in BOOLEAN /\ prune \in BOOLEAN /\ soft \in BOOLEAN

\* A search that is not in use has not started.
SlotStart ==
    /\ freeRow = 0 /\ firstSeen = [c \in Cells |-> 0]
    /\ slots = << >> /\ slotVal = << >> /\ decisions = << >> /\ nextSlot = 0
    /\ newConflicts = {} /\ anyBudget = FALSE

\* The free pass is not over.
Free == freeRow < NumRows \/ pc = "free"

\* Between the rows: the cells seen have a first value, without slots these values are a
\* table for the rows seen, and the slots decided are a prefix with one decision each.
SearchInv ==
    /\ pc \in {"decide", "rows", "judge"} => freeRow = NumRows
    /\ \A n \in 0..freeRow - 1, y \in Exs : firstSeen[Cell(y, n)] # 0
    /\ \A p \in DOMAIN slots : firstSeen[slots[p]] # 0
    /\ slots = << >> => \A n \in 0..freeRow - 1 : RowAgrees(firstSeen, n)
    /\ Free => slotVal = << >> /\ decisions = << >> /\ nextSlot = 0
    /\ ~ Free => DOMAIN slotVal = DOMAIN slots
    /\ nextSlot <= Len(slots) /\ Len(decisions) = nextSlot
    /\ \A i \in DOMAIN decisions : decisions[i].slot = i
    /\ \A p \in DOMAIN slotVal : slotVal[p] # 0 <=> p <= nextSlot
    /\ anyBudget => scenario.budgetHits

\* The slots with a value that sk does not have there.
SlotValue(sk, p) == IF sk[slots[p][1]][slots[p][2]] THEN 1 ELSE -1
Differs(sk) == {p \in 1..nextSlot : SlotValue(sk, p) # slotVal[p]}

\* Within a round: the tables start from the decisions, they serve the rows solved unless
\* one disagreed, which leaves a cell to split on, and a row without a model under the
\* decisions refutes them for all Skolem tables.
RoundInv ==
    /\ \A p \in 1..nextSlot : tables[slots[p]] = slotVal[p]
    /\ pc = "rows" => ~ prune
    /\ pc = "judge" /\ ~ prune => ub = NumRows
    /\ ~ prune /\ ~ soft => \A n \in 0..ub - 1 : RowAgrees(tables, n)
    /\ soft /\ AllDecided => Added # {}
    /\ pc = "judge" /\ prune /\ ~ anyBudget => \A sk \in Models[f] : Differs(sk) # {}

\* Time runs out, and so does the SAT solver: the flag that remembers the latter is a
\* local variable.
Forgets == scenario.budgetHits /\ scenario.slices > 0

\* The claim of NothingLost.
SlotLeft == ~ Forgets /\ Models[f] # {} => SlotsLeft

\* The slot search in its own mode and in the others.
SlotInv ==
    /\ SlotShape
    /\ mode # "SlotDpll" => SlotStart
    /\ mode = "SlotDpll" /\ answer = "none" =>
          SearchInv /\ SlotLeft /\ (pc \in {"rows", "judge"} => RoundInv)

\* The search over the outer existentials.
OuterPart(sk) == [y \in Outer |-> RowOf(sk, 0)[y]]

\* Row n has a model under the choice, and the tables are filled from it.
PickedRow(n) ==
    \E m \in RowModels(n, PinsOf(Outer)) : \A y \in Exs \ Outer : tables[Cell(y, n)] = m[y]

\* The clauses learned exclude no Skolem tables that are a model.
OuterSound == \A sk \in Models[f], b \in blocks : \E l \in b : Agrees(OuterPart(sk), l)

\* The rows scanned have a model, unless one was skipped, and filled no other cells.
ScanSound ==
    /\ ~ skipped => \A n \in 0..ub - 1 : PickedRow(n)
    /\ \A c \in Cells : tables[c] # 0 => \E n \in 0..ub - 1 : c = Cell(c[1], n)

\* Only the mode that the formula is chosen for.
OuterInv ==
    /\ OuterOK
    /\ todo \in Seq(AllRows)
    /\ mode = "OuterCegar" =>
          /\ Eae /\ OuterSound
          /\ pc = "bad" => badRow \in AllRows
          /\ pc \in {"history", "fuzz"} => tables = [c \in Cells |-> 0]
          /\ pc = "fuzz" => ub = 0
          /\ pc = "scan" => ScanSound

\* The scan of partial rows: the row is one of its level.
PartialInv ==
    /\ level \in Nat \ {0}
    /\ mode = "Definability" => ub = 0 /\ level = 1
    /\ AtLevel => ub < 2 ^ Levels[level]

\* Definability: before it starts and after it is given up.
ArbStart ==
    /\ roots = {} /\ defs = << >> /\ partner = << >>
    /\ forcing = << >> /\ arbs = << >> /\ conflicts = {} /\ cegar = "none"
    /\ undefined = {} /\ row = NoRow /\ vmodel = << >> /\ cmodel = << >> /\ visit = {}

\* An existential is a root, or is defined over others that were decided before.
DefOK(y) ==
    /\ defs[y].inputs \subseteq DOMAIN defs \cup roots
    /\ \A z \in defs[y].inputs : f.dependencies[z] \subseteq f.dependencies[y]
    /\ defs[y].value \in [Views(y, defs[y].inputs) -> {-1, 1}]

\* The existentials decided have places in an order below b, definitions after their inputs.
OrderedBelow(b) ==
    \E r \in [Exs -> 0..b] :
       /\ \A y \in DOMAIN defs : r[y] < b /\ \A z \in defs[y].inputs : r[z] < r[y]
       /\ \A y \in roots : r[y] < b

\* What the preparation has decided; a root has no definition.
Decided ==
    /\ roots \subseteq Exs /\ DOMAIN defs \subseteq Exs /\ roots \cap DOMAIN defs = {}
    /\ undefined \subseteq Exs
    /\ \A y \in DOMAIN defs : DefOK(y)

\* Partners are roots, mutual and alike.
Partners ==
    \A y \in DOMAIN partner :
       /\ y \in roots /\ partner[y] \in DOMAIN partner /\ partner[partner[y]] = y
       /\ Alike(y, partner[y])

\* The cubes that clauses and cells are for.
Cubes == UNION {[us -> BOOLEAN] : us \in SUBSET f.universals}

\* What is learned is about existentials that are not defined, and their cells.
CellKnown(c) == \E y \in Exs \ DOMAIN defs, n \in AllRows : c = CellFor(y, n)

\* The clauses, the cells with their values and the cores have their shape.
Learnt ==
    /\ forcing \in Seq([ante : Cubes, y : Exs \ DOMAIN defs, value : {-1, 1}])
    /\ \A c \in Range(forcing) : DOMAIN c.ante \subseteq f.dependencies[c.y]
    /\ IsFiniteSet(DOMAIN arbs) /\ arbs \in [DOMAIN arbs -> {-1, 1}]
    /\ DOMAIN arbs # {} => Cardinality(DOMAIN arbs) < scenario.cells
    /\ \A c \in DOMAIN arbs : CellKnown(c)
    /\ \A core \in conflicts : \A x \in core : x[1] \in DOMAIN arbs /\ x[2] \in {-1, 1}

\* What is learned spares these Skolem tables.
Spares(sk) ==
    /\ \A c \in Range(forcing) : Obeys(sk, c.y, c.ante, c.value)
    /\ \A core \in conflicts : \E x \in core : \E l \in x[1] : ~ Obeys(sk, l[1], l[2], x[2])

\* It spares all that are a model, but for cells that tie two whole tables.
LearntSound == ~ ConstantLink => \A sk \in Models[f] : Spares(sk)

\* What is set where in a round, and that nothing of it is left after it.
RoundState ==
    /\ cegar \in {"none", "new", "running"}
    /\ pc \in {"validity", "consist", "learn", "pending"} => cegar # "none"
    /\ pc = "padoa" => roots = {} /\ defs = << >>
    /\ pc \in {"padoa", "interpolate"} =>
          partner = << >> /\ forcing = << >> /\ arbs = << >> /\ conflicts = {} /\ cegar = "none"
    /\ pc \in {"padoa", "interpolate", "validity", "pending"} =>
          row = NoRow /\ vmodel = << >> /\ cmodel = << >> /\ visit = {}
    /\ pc = "consist" => row \in AllRows /\ cmodel = << >> /\ visit = {}
    /\ pc = "learn" =>
          /\ row \in AllRows /\ vmodel = << >> /\ cmodel \in [Exs -> {-1, 1}]
          /\ visit \subseteq Exs \ DOMAIN defs

\* Definability in its own mode and in the others.
ArbInv ==
    /\ mode # "Definability" => ArbStart
    /\ mode = "Definability" => Decided /\ Partners /\ Learnt /\ LearntSound /\ RoundState

\* Each definition comes after what it is over.
DefsInv == mode = "Definability" => \E b \in Nat : OrderedBelow(b)

\* The answers.
AnswerInv ==
    /\ SatIsModel
    /\ ~ (mode = "SlotDpll" /\ Forgets) => UnsatIsFalse

-----------------------------------------------------------------------------
(* Control.                                                                *)

\* The steps of the four searches, in their turn or out of time.
SlotMove == (SlotStep \/ SlotPending) /\ UNCHANGED <<outerFields, outerLocals, arbVars, mode, level>>
OuterMove == (OuterStep \/ OuterPending) /\ UNCHANGED <<arbVars, mode, level>>
ArbMove == (ArbStep \/ PendingInCegar) /\ UNCHANGED <<mode, level>>
PartialMove == PartialRow \/ PartialUnsat \/ PartialDone \/ PendingInPartial

\* A step is one of a search, or goes from one to the other.
LEMMA Moves ==
    ASSUME [Next]_vars
    PROVE  \/ SlotMove \/ OuterMove \/ ArbMove \/ PartialMove
           \/ Bail \/ Resume \/ UNCHANGED vars
BY DEF Next, Step, SlotMove, OuterMove, ArbMove, PartialMove

\* The formula stays.
LEMMA SameScenario ==
    ASSUME [Next]_vars
    PROVE  scenario' = scenario
<1>1. CASE SlotMove
  BY <1>1 DEF SlotMove, SlotStep, SlotPending, FreeModel, RowModel, FreeFailure, RowFailure,
     FreePassDone, Decide, RowsDone, JudgeSat, JudgeContinue, JudgeBacktrack, JudgeExhausted,
     JudgeRefine, PendingInFreePass, PendingInLoop, PendingInRows, Pending
<1>2. CASE OuterMove
  BY <1>2 DEF OuterMove, OuterStep, OuterPending, Pick, PickerUnsat, HistoryBad, HistoryRow,
     HistoryDone, FuzzBad, FuzzDone, ScanBad, ScanRow, ScanDone, AddCopy, Block, Bad, PendingInPick,
     PendingInScan, Pending, Rest
<1>3. CASE ArbMove
  BY <1>3 DEF ArbMove, ArbStep, PendingInCegar, Pending, Padoa, Prepared, Interpolate, Root,
     NoConflictsLeft, Counterexample, NoCounterexample, RowModelFound, RowRefuted, Choose,
     Exhausted, Learn, Learned, BeforeLoop, Outside
<1>4. CASE PartialMove
  BY <1>4 DEF PartialMove, PartialRow, PartialUnsat, PartialDone, PendingInPartial, Pending
<1>5. CASE Bail \/ Resume \/ UNCHANGED vars
  BY <1>5 DEF Bail, Resume, vars
<1>6. QED
  BY <1>1, <1>2, <1>3, <1>4, <1>5, Moves

\* So does what is read off it.
LEMMA SameFormula ==
    ASSUME scenario' = scenario
    PROVE  /\ f' = f /\ Exs' = Exs /\ NumRows' = NumRows /\ Batch' = Batch
           /\ Cells' = Cells /\ Outer' = Outer /\ AllRows' = AllRows /\ CegisRows' = CegisRows
           /\ Full' = Full /\ Eae' = Eae /\ Forgets' = Forgets /\ NumUniversals' = NumUniversals
           /\ Partial' = Partial
           /\ \A n : Row(n)' = Row(n)
           /\ \A y, n : Cell(y, n)' = Cell(y, n)
<1>1. f' = f
  BY DEF f
<1>2. /\ Exs' = Exs /\ NumRows' = NumRows /\ \A n : Row(n)' = Row(n)
      /\ NumUniversals' = NumUniversals
  BY <1>1 DEF Exs, NumRows, Row, NumUniversals
<1>3. \A y, n : Cell(y, n)' = Cell(y, n)
  BY <1>1, <1>2 DEF Cell
<1>4. Cells' = Cells
  BY <1>2, <1>3 DEF Cells
<1>5. Outer' = Outer /\ AllRows' = AllRows /\ CegisRows' = CegisRows /\ Batch' = Batch
  BY <1>1, <1>2 DEF Outer, AllRows, CegisRows, Batch
<1>6. Full' = Full /\ Eae' = Eae /\ Forgets' = Forgets
  BY <1>1, <1>2, <1>5 DEF Full, Eae, Forgets
<1>7. Partial' = Partial
  BY <1>2, <1>6 DEF Partial
<1>8. QED
  BY <1>1, <1>2, <1>3, <1>4, <1>5, <1>6, <1>7

\* A place belongs to one mode.
LEMMA PlacesApart ==
    ASSUME ControlInv
    PROVE  /\ pc \in Places("SlotDpll") => mode = "SlotDpll"
           /\ pc \in Places("OuterCegar") => mode = "OuterCegar"
           /\ pc \in Places("Definability") => mode = "Definability"
           /\ pc \in Places("Partial") => mode = "Partial"
           /\ \A m \in {"SlotDpll", "OuterCegar", "Definability", "Partial"} :
                 pc \in Places(m) => answer = "none"
BY DEF ControlInv, Places

\* A step of the slot search is made in its mode.
LEMMA SlotControl ==
    ASSUME ControlInv, SlotMove
    PROVE  /\ mode = "SlotDpll" /\ mode' = mode /\ answer = "none"
           /\ pc \in Places("SlotDpll") /\ ControlInv'
<1>1. pc \in Places("SlotDpll") /\ mode' = mode
  BY DEF SlotMove, SlotStep, SlotPending, FreeModel, RowModel, FreeFailure, RowFailure,
     FreePassDone, Decide, RowsDone, JudgeSat, JudgeContinue, JudgeBacktrack, JudgeExhausted,
     JudgeRefine, PendingInFreePass, PendingInLoop, PendingInRows, Places
<1>2. mode = "SlotDpll" /\ answer = "none"
  BY <1>1, PlacesApart
<1>3. scenario' = scenario
  BY SameScenario DEF Next, Step, SlotMove
<1>4. slices \in Nat /\ scenario \in Scenarios /\ scenario.slices \in Nat
  BY ScenariosAssumption DEF ControlInv
<1>5. CASE SlotStep
  <2>1. slices' = slices
    BY <1>5 DEF SlotStep, FreeModel, RowModel, FreeFailure, RowFailure,
       FreePassDone, Decide, RowsDone, JudgeSat, JudgeContinue, JudgeBacktrack, JudgeExhausted,
       JudgeRefine
  <2>2. \/ pc' \in Places("SlotDpll") /\ answer' = "none"
        \/ pc' = "returned" /\ answer' \in {"Sat", "UnsatRow", "Unsat", "Done"}
    <3>1. CASE \E m \in [Exs -> {-1, 1}] : FreeModel(m) \/ RowModel(m)
      BY <1>1, <1>2, <3>1 DEF FreeModel, RowModel
    <3>2. CASE \E budgetHit \in BOOLEAN : FreeFailure(budgetHit) \/ RowFailure(budgetHit)
      BY <1>2, <3>2 DEF FreeFailure, RowFailure, Return, Places
    <3>3. CASE FreePassDone \/ Decide \/ RowsDone \/ JudgeContinue \/ JudgeBacktrack
      BY <1>2, <3>3 DEF FreePassDone, Decide, RowsDone, JudgeContinue, JudgeBacktrack, Return, Places
    <3>4. CASE JudgeSat \/ JudgeExhausted
      BY <1>2, <3>4 DEF JudgeSat, JudgeExhausted, Return, Places
    <3>5. CASE JudgeRefine
      BY <1>2, <3>5 DEF JudgeRefine, Return, Places
    <3>6. QED
      BY <1>5, <3>1, <3>2, <3>3, <3>4, <3>5 DEF SlotStep
  <2>3. QED
    BY <1>1, <1>2, <1>3, <1>4, <2>1, <2>2 DEF ControlInv, Places
<1>6. CASE SlotPending
  <2>1. slices < scenario.slices /\ slices' = slices + 1 /\ pc' = "pending" /\ answer' = answer
    BY <1>6 DEF SlotPending, PendingInFreePass, PendingInLoop, PendingInRows, Pending
  <2>2. QED
    BY <1>1, <1>2, <1>3, <1>4, <2>1 DEF ControlInv
<1>7. QED
  BY <1>1, <1>2, <1>5, <1>6 DEF SlotMove

\* Likewise the outer search.
LEMMA OuterControl ==
    ASSUME ControlInv, OuterMove
    PROVE  /\ mode = "OuterCegar" /\ mode' = mode /\ answer = "none"
           /\ pc \in Places("OuterCegar") /\ ControlInv'
<1>1. pc \in Places("OuterCegar") /\ mode' = mode
  BY DEF OuterMove, OuterStep, OuterPending, Pick, PickerUnsat, HistoryBad, HistoryRow,
     HistoryDone, FuzzBad, FuzzDone, ScanBad, ScanRow, ScanDone, AddCopy, Block, PendingInPick,
     PendingInScan, Places
<1>2. mode = "OuterCegar" /\ answer = "none"
  BY <1>1, PlacesApart
<1>3. scenario' = scenario
  BY SameScenario DEF Next, Step, OuterMove
<1>4. slices \in Nat /\ scenario \in Scenarios /\ scenario.slices \in Nat
  BY ScenariosAssumption DEF ControlInv
<1>5. CASE OuterStep
  <2>1. slices' = slices
    BY <1>5 DEF OuterStep, Pick, PickerUnsat, HistoryBad, HistoryRow, HistoryDone, FuzzBad,
       FuzzDone, ScanBad, ScanRow, ScanDone, AddCopy, Block, Bad, Rest
  <2>2. \/ pc' \in Places("OuterCegar") /\ answer' = "none"
        \/ pc' = "returned" /\ answer' \in {"Sat", "UnsatRow", "Unsat", "Done"}
    BY <1>1, <1>2, <1>5 DEF OuterStep, Pick, PickerUnsat, HistoryBad, HistoryRow, HistoryDone,
       FuzzBad, FuzzDone, ScanBad, ScanRow, ScanDone, AddCopy, Block, Bad, Return, Places, OuterEntry
  <2>3. QED
    BY <1>1, <1>2, <1>3, <1>4, <2>1, <2>2 DEF ControlInv, Places
<1>6. CASE OuterPending
  <2>1. slices < scenario.slices /\ slices' = slices + 1 /\ pc' = "pending" /\ answer' = answer
    BY <1>6 DEF OuterPending, PendingInPick, PendingInScan, Pending
  <2>2. QED
    BY <1>1, <1>2, <1>3, <1>4, <2>1 DEF ControlInv
<1>7. QED
  BY <1>1, <1>2, <1>5, <1>6 DEF OuterMove

\* Definability.
LEMMA ArbControl ==
    ASSUME ControlInv, ArbMove
    PROVE  /\ mode = "Definability" /\ mode' = mode /\ answer = "none"
           /\ pc \in Places("Definability") /\ ControlInv'
<1>1. pc \in Places("Definability") /\ mode' = mode
  BY DEF ArbMove, ArbStep, PendingInCegar, Padoa, Prepared, Interpolate, Root, NoConflictsLeft,
     Counterexample, NoCounterexample, RowModelFound, RowRefuted, Choose, Exhausted, Learn, Learned,
     Places
<1>2. mode = "Definability" /\ answer = "none"
  BY <1>1, PlacesApart
<1>3. scenario' = scenario
  BY SameScenario DEF Next, Step, ArbMove
<1>4. slices \in Nat /\ scenario \in Scenarios /\ scenario.slices \in Nat
  BY ScenariosAssumption DEF ControlInv
<1>5. CASE ArbStep
  <2>1. slices' = slices
    BY <1>5 DEF ArbStep, Padoa, Prepared, Interpolate, Root, NoConflictsLeft,
     Counterexample, NoCounterexample, RowModelFound, RowRefuted, Choose, Exhausted, Learn, Learned,
     BeforeLoop, Outside
  <2>2. \/ pc' \in Places("Definability") /\ answer' = "none"
        \/ pc' = "returned" /\ answer' \in {"Sat", "UnsatRow", "Unsat", "Done"}
    <3>1. CASE Padoa \/ Prepared \/ \E y \in Exs : Interpolate(y) \/ Root(y)
      BY <1>1, <1>2, <3>1 DEF Padoa, Prepared, Interpolate, Root, BeforeLoop, Places
    <3>2. CASE NoConflictsLeft \/ Counterexample \/ NoCounterexample \/ RowModelFound
      BY <1>1, <1>2, <3>2 DEF NoConflictsLeft, Counterexample, NoCounterexample, RowModelFound,
         Outside, GiveUp, Return, Places
    <3>3. CASE RowRefuted \/ Choose \/ Exhausted
      BY <1>1, <1>2, <3>3 DEF RowRefuted, Choose, Exhausted, GiveUp, Return, Places
    <3>4. CASE Learn \/ Learned
      BY <1>1, <1>2, <3>4 DEF Learn, Learned, NewForcing, NewCell, Places
    <3>5. QED
      BY <1>5, <3>1, <3>2, <3>3, <3>4 DEF ArbStep
  <2>3. QED
    BY <1>1, <1>2, <1>3, <1>4, <2>1, <2>2 DEF ControlInv, Places
<1>6. CASE PendingInCegar
  <2>1. slices < scenario.slices /\ slices' = slices + 1 /\ pc' = "pending" /\ answer' = answer
    BY <1>6 DEF PendingInCegar, Pending
  <2>2. QED
    BY <1>1, <1>2, <1>3, <1>4, <2>1 DEF ControlInv
<1>7. QED
  BY <1>1, <1>2, <1>5, <1>6 DEF ArbMove

\* The scan of partial rows.
LEMMA PartialControl ==
    ASSUME ControlInv, PartialMove
    PROVE  /\ mode = "Partial" /\ mode' = mode /\ answer = "none"
           /\ pc = "Partial" /\ ControlInv'
<1>1. pc = "Partial" /\ mode' = mode
  BY DEF PartialMove, PartialRow, PartialUnsat, PartialDone, PendingInPartial, AtLevel
<1>2. mode = "Partial" /\ answer = "none"
  BY <1>1, PlacesApart DEF Places
<1>3. scenario' = scenario
  BY SameScenario DEF Next, Step, PartialMove
<1>4. slices \in Nat /\ scenario \in Scenarios /\ scenario.slices \in Nat
  BY ScenariosAssumption DEF ControlInv
<1>5. CASE PartialRow \/ PartialUnsat \/ PartialDone
  <2>1. slices' = slices
    BY <1>5 DEF PartialRow, PartialUnsat, PartialDone
  <2>2. \/ pc' \in Places("Partial") /\ answer' = "none"
        \/ pc' = "returned" /\ answer' \in {"Sat", "UnsatRow", "Unsat", "Done"}
    BY <1>1, <1>2, <1>5 DEF PartialRow, PartialUnsat, PartialDone, Return, Places
  <2>3. QED
    BY <1>1, <1>2, <1>3, <1>4, <2>1, <2>2 DEF ControlInv, Places
<1>6. CASE PendingInPartial
  <2>1. slices < scenario.slices /\ slices' = slices + 1 /\ pc' = "pending" /\ answer' = answer
    BY <1>6 DEF PendingInPartial, Pending
  <2>2. QED
    BY <1>1, <1>2, <1>3, <1>4, <2>1 DEF ControlInv
<1>7. QED
  BY <1>1, <1>2, <1>5, <1>6 DEF PartialMove

\* The entry of a mode is one of its places.
LEMMA EntryPlaces ==
    ASSUME NEW m \in {"Definability", "Partial", "OuterCegar", "SlotDpll"}
    PROVE  Entry(m) \in Places(m)
BY DEF Entry, Places, SlotEntry, OuterEntry, ArbEntry

\* From one search to the other.
LEMMA OtherControl ==
    ASSUME ControlInv, Bail \/ Resume \/ UNCHANGED vars
    PROVE  ControlInv' /\ (Bail => mode = "Definability" /\ answer = "none")
<1>1. CASE Bail
  <2>1. mode = "Definability" /\ answer = "none"
    BY <1>1, PlacesApart DEF Bail, Places
  <2>2. mode' \in {"Partial", "SlotDpll"} /\ pc' = Entry(mode')
    BY <1>1 DEF Bail
  <2>3. pc' \in Places(mode')
    BY <2>2, EntryPlaces
  <2>4. pc' # "returned" /\ pc' # "pending"
    BY <2>2, <2>3 DEF Places
  <2>5. QED
    BY <1>1, <2>1, <2>2, <2>3, <2>4 DEF Bail, ControlInv
<1>2. CASE Resume
  <2>1. pc' \in Places(mode) /\ mode' = mode /\ pc = "pending"
    BY <1>2, EntryPlaces DEF Resume, ControlInv
  <2>2. pc' # "returned" /\ pc' # "pending"
    BY <2>1 DEF Places, ControlInv
  <2>3. ~ Bail
    BY <2>1 DEF Bail
  <2>4. ControlInv'
    BY <1>2, <2>1, <2>2 DEF Resume, ControlInv
  <2>5. QED
    BY <2>3, <2>4
<1>3. CASE UNCHANGED vars
  BY <1>3, PlacesApart DEF vars, ControlInv, Bail, Places
<1>4. QED
  BY <1>1, <1>2, <1>3

\* Control is invariant.
LEMMA ControlStep ==
    ASSUME ControlInv, [Next]_vars
    PROVE  ControlInv'
BY Moves, SlotControl, OuterControl, ArbControl, PartialControl, OtherControl

\* So do the models of the rows.
LEMMA SameModels ==
    ASSUME scenario' = scenario
    PROVE  /\ Models[f]' = Models[f] /\ IsTrue(f)' = IsTrue(f)
           /\ \A n, ps : RowModels(n, ps)' = RowModels(n, ps)
           /\ \A n, ps : Solvable(n, ps)' = Solvable(n, ps)
           /\ \A n, ps, hit : SolverFails(n, ps, hit)' = SolverFails(n, ps, hit)
           /\ \A sk, n : RowOf(sk, n)' = RowOf(sk, n)
           /\ \A n : RowAgrees(tables, n)' <=> RowAgrees(tables', n)
           /\ \A n : RowAgrees(firstSeen, n)' <=> RowAgrees(firstSeen', n)
<1>1. /\ f' = f /\ Exs' = Exs
      /\ \A n : Row(n)' = Row(n)
      /\ \A y, n : Cell(y, n)' = Cell(y, n)
  BY SameFormula
<1>2. Models[f]' = Models[f]
  BY <1>1 DEF Models
<1>3. \A m, n, l : Satisfies(m, n, l)' = Satisfies(m, n, l)
  BY <1>1 DEF Satisfies
<1>4. \A n, ps : RowModels(n, ps)' = RowModels(n, ps)
  BY <1>1, <1>3 DEF RowModels
<1>5. \A n, ps : Solvable(n, ps)' = Solvable(n, ps)
  BY <1>4 DEF Solvable
<1>6. \A n, ps, hit : SolverFails(n, ps, hit)' = SolverFails(n, ps, hit)
  BY <1>5 DEF SolverFails
<1>7. \A sk, n : RowOf(sk, n)' = RowOf(sk, n)
  BY <1>1 DEF RowOf
<1>8. /\ \A n : RowAgrees(tables, n)' <=> RowAgrees(tables', n)
      /\ \A n : RowAgrees(firstSeen, n)' <=> RowAgrees(firstSeen', n)
  BY <1>1, <1>4 DEF RowAgrees
<1>9. IsTrue(f)' = IsTrue(f)
  BY <1>1
<1>10. QED
  BY <1>2, <1>4, <1>5, <1>6, <1>7, <1>8, <1>9

-----------------------------------------------------------------------------
(* Cells.                                                                  *)

\* There are finitely many cells.
LEMMA FiniteCells ==
    ASSUME scenario \in Scenarios
    PROVE  IsFiniteSet(Cells) /\ \A set \in SUBSET Cells : IsFiniteSet(set)
<1> DEFINE P == Exs \X AllRows
           name == [p \in P |-> Cell(p[1], p[2])]
<1>1. IsFiniteSet(P)
  <2>1. 0 \in Int /\ NumRows - 1 \in Int /\ IsFiniteSet(Exs)
    BY TheFormula
  <2>2. IsFiniteSet(AllRows)
    BY <2>1, FS_Interval DEF AllRows
  <2>3. QED
    BY <2>1, <2>2, FS_Product
<1>2. name \in Surjection(P, Cells)
  <2>1. name \in [P -> Cells]
    BY CellNames
  <2>2. ASSUME NEW c \in Cells PROVE \E p \in P : name[p] = c
    <3>1. c[1] \in Exs /\ \E n \in AllRows : c = Cell(c[1], n)
      BY CellNames
    <3>2. PICK n \in AllRows : c = Cell(c[1], n)
      BY <3>1
    <3>3. <<c[1], n>> \in P /\ name[<<c[1], n>>] = c
      BY <3>1, <3>2
    <3>4. QED
      BY <3>3
  <2>3. QED
    BY <2>1, <2>2 DEF Surjection
<1>3. IsFiniteSet(Cells)
  BY <1>1, <1>2, FS_Surjection
<1>4. QED
  BY <1>3, FS_Subset

\* t with the cells of row n that are still 0 filled from m.
Filled(t, m, n) ==
    [c \in Cells |-> IF t[c] = 0 /\ c = Cell(c[1], n) THEN m[c[1]] ELSE t[c]]

\* What is filled stays, and where nothing disagreed the row has its model.
LEMMA FillFacts ==
    ASSUME scenario \in Scenarios, NEW t \in [Cells -> {-1, 0, 1}],
           NEW m \in [Exs -> {-1, 1}], NEW n \in AllRows
    PROVE  /\ Filled(t, m, n) \in [Cells -> {-1, 0, 1}]
           /\ \A c \in Cells : t[c] # 0 => Filled(t, m, n)[c] = t[c]
           /\ \A y \in Exs : Filled(t, m, n)[Cell(y, n)] # 0
           /\ \A y \in Exs : t[Cell(y, n)] # -m[y] => Filled(t, m, n)[Cell(y, n)] = m[y]
           /\ \A c \in Cells : Filled(t, m, n)[c] # 0 => t[c] # 0 \/ c = Cell(c[1], n)
<1>1. \A c \in Cells : c[1] \in Exs
  BY CellNames
<1>2. \A y \in Exs : Cell(y, n) \in Cells /\ Cell(y, n)[1] = y
  BY CellNames
<1>3. \A c \in Cells : Filled(t, m, n)[c] = IF t[c] = 0 /\ c = Cell(c[1], n) THEN m[c[1]] ELSE t[c]
  BY DEF Filled
<1>4. Filled(t, m, n) \in [Cells -> {-1, 0, 1}]
  BY <1>1 DEF Filled
<1>5. ASSUME NEW y \in Exs
      PROVE  /\ Filled(t, m, n)[Cell(y, n)] # 0
             /\ t[Cell(y, n)] # -m[y] => Filled(t, m, n)[Cell(y, n)] = m[y]
  <2>1. Filled(t, m, n)[Cell(y, n)] = IF t[Cell(y, n)] = 0 THEN m[y] ELSE t[Cell(y, n)]
    BY <1>2, <1>3
  <2>2. t[Cell(y, n)] \in {-1, 0, 1} /\ m[y] \in {-1, 1}
    BY <1>2
  <2>3. QED
    BY <2>1, <2>2
<1>6. QED
  BY <1>3, <1>4, <1>5

\* Rows that agreed still do.
LEMMA FillKeeps ==
    ASSUME scenario \in Scenarios, NEW t \in [Cells -> {-1, 0, 1}],
           NEW m \in [Exs -> {-1, 1}], NEW n \in AllRows,
           NEW k \in AllRows, RowAgrees(t, k)
    PROVE  RowAgrees(Filled(t, m, n), k) /\ \A y \in Exs : Filled(t, m, n)[Cell(y, k)] # 0
<1>1. PICK l \in RowModels(k, {}) : \A y \in Exs : t[Cell(y, k)] = l[y]
  BY DEF RowAgrees
<1>2. ASSUME NEW y \in Exs
      PROVE  Filled(t, m, n)[Cell(y, k)] = l[y] /\ Filled(t, m, n)[Cell(y, k)] # 0
  <2>1. Cell(y, k) \in Cells /\ t[Cell(y, k)] = l[y] /\ l[y] \in {-1, 1}
    BY <1>1, CellNames DEF RowModels
  <2>2. QED
    BY <2>1, FillFacts
<1>3. QED
  BY <1>2 DEF RowAgrees

\* t is s followed by elements of set, each once.
AppendedTo(s, set, t) ==
    /\ t \in Seq(Cells)
    /\ Len(t) = Len(s) + Cardinality(set) /\ Cardinality(set) \in Nat
    /\ \A p \in 1..Len(s) : t[p] = s[p]
    /\ \A p \in Len(s) + 1..Len(t) : t[p] \in set
    /\ \A p, q \in Len(s) + 1..Len(t) : t[p] = t[q] => p = q

\* AppendCells adds the elements of the set, one after the other.
LEMMA AppendCellsFacts ==
    ASSUME scenario \in Scenarios, NEW s \in Seq(Cells), NEW set \in SUBSET Cells,
           \A c, d \in set : c[1] = d[1] => c = d
    PROVE  AppendedTo(s, set, AppendCells(s, set))
<1> DEFINE K == Cardinality(set)
           S == {c[1] : c \in set}
           Below(c) == Cardinality({d \in set : d[1] < c[1]})
           e == [i \in 1..K |-> CHOOSE c \in set : Below(c) = i - 1]
           first == [c \in set |-> c[1]]
<1>1. IsFiniteSet(set) /\ K \in Nat
  BY FiniteCells, FS_CardinalityType
<1>2. S \in SUBSET Int /\ \A c \in set : c[1] \in Int
  <2>1. \A c \in Cells : c[1] \in Exs
    BY CellNames
  <2>2. Exs \in SUBSET Int
    BY TheFormula
  <2>3. QED
    BY <2>1, <2>2
<1>3. first \in Bijection(set, S)
  BY DEF Bijection, Injection, Surjection, IsInjective
<1>4. IsFiniteSet(S) /\ Cardinality(S) = K
  BY <1>1, <1>3, FS_Bijection DEF ExistsBijection
<1>5. ASSUME NEW c \in set PROVE Below(c) = Cardinality({j \in S : j < c[1]})
  <2> DEFINE A == {d \in set : d[1] < c[1]}
             B == {j \in S : j < c[1]}
             g == [d \in A |-> d[1]]
  <2>1. IsFiniteSet(A)
    BY <1>1, FS_Subset
  <2>2. g \in Bijection(A, B)
    <3>1. g \in [A -> B]
      OBVIOUS
    <3>2. \A d, d1 \in A : g[d] = g[d1] => d = d1
      OBVIOUS
    <3>3. \A j \in B : \E d \in A : g[d] = j
      OBVIOUS
    <3>4. QED
      BY <3>1, <3>2, <3>3 DEF Bijection, Injection, Surjection, IsInjective
  <2>3. QED
    BY <2>1, <2>2, FS_Bijection DEF ExistsBijection
<1> HIDE DEF K
<1>6. ASSUME NEW i \in 1..K PROVE e[i] \in set /\ Below(e[i]) = i - 1
  <2>1. i - 1 \in 0..Cardinality(S) - 1
    BY <1>1, <1>4
  <2>2. PICK j \in S : Cardinality({w \in S : w < j}) = i - 1
    BY <1>2, <1>4, <2>1, CountBelow
  <2>3. PICK c \in set : c[1] = j
    OBVIOUS
  <2>4. Below(c) = i - 1
    BY <1>5, <2>2, <2>3
  <2> HIDE DEF Below
  <2>5. QED
    BY <2>4
<1> HIDE DEF e, Below
<1>7. e \in Seq(Cells) /\ Len(e) = K
  <2>1. e \in [1..K -> Cells]
    BY <1>6 DEF e
  <2>2. QED
    BY <1>1, <2>1
<1>8. \A i, j \in 1..K : e[i] = e[j] => i = j
  BY <1>6, <1>1
<1> DEFINE t == s \o e
<1>9. AppendCells(s, set) = t
  BY DEF AppendCells, e, Below, K
<1>10. /\ t \in Seq(Cells) /\ Len(t) = Len(s) + K
       /\ \A p \in 1..Len(s) : t[p] = s[p]
       /\ \A p \in Len(s) + 1..Len(t) : t[p] = e[p - Len(s)] /\ p - Len(s) \in 1..K
  BY <1>1, <1>7
<1> HIDE DEF t
<1>11. \A p \in Len(s) + 1..Len(t) : t[p] \in set
  BY <1>6, <1>10
<1>12. ASSUME NEW p \in Len(s) + 1..Len(t), NEW q \in Len(s) + 1..Len(t), t[p] = t[q] PROVE p = q
  <2>1. p - Len(s) = q - Len(s)
    BY <1>8, <1>10, <1>12
  <2>2. Len(s) \in Nat
    OBVIOUS
  <2>3. QED
    BY <2>1, <2>2
<1>13. QED
  BY <1>1, <1>9, <1>10, <1>11, <1>12 DEF K, AppendedTo

-----------------------------------------------------------------------------
(* The slot search, step by step.                                          *)

\* What a step of the slot search starts from.
SlotNow ==
    /\ scenario \in Scenarios /\ scenario' = scenario
    /\ mode = "SlotDpll" /\ mode' = "SlotDpll" /\ answer = "none"
    /\ SlotShape /\ SearchInv /\ SlotLeft
    /\ pc \in {"rows", "judge"} => RoundInv

\* A step of the slot search starts from its invariant.
LEMMA SlotStarts ==
    ASSUME ControlInv, SlotInv, SlotMove
    PROVE  SlotNow
<1>1. scenario' = scenario
  BY SameScenario DEF Next, Step, SlotMove
<1>2. QED
  BY <1>1, SlotControl DEF SlotNow, SlotInv, ControlInv

\* With nothing decided, all tables are ahead.
LEMMA NothingDecided ==
    ASSUME nextSlot = 0
    PROVE  \A sk : Ahead(sk)
BY DEF Ahead

\* One more row of the free pass.
LEMMA FreeModelStep ==
    ASSUME SlotNow, NEW m, FreeModel(m)
    PROVE  SlotShape' /\ SearchInv' /\ SlotLeft' /\ pc' \notin {"rows", "judge"}
<1> DEFINE n == freeRow
           new == Disagreeing(m) \ InSlot
<1>1. /\ pc = "free" /\ n < NumRows /\ m \in RowModels(n, {})
      /\ firstSeen' = Filled(firstSeen, m, n)
      /\ slots' = AppendCells(slots, new)
      /\ freeRow' = n + 1
      /\ UNCHANGED <<scenario, slotVal, decisions, nextSlot, cegarRound, newConflicts, tables,
                     locals, pc, slices, answer>>
  BY DEF FreeModel, Filled
<1>2. /\ scenario \in Scenarios /\ scenario' = scenario /\ SlotShape /\ SearchInv
      /\ slotVal = << >> /\ decisions = << >> /\ nextSlot = 0
  BY <1>1 DEF SlotNow, SearchInv, Free
<1>3. n \in AllRows /\ m \in [Exs -> {-1, 1}] /\ NumRows \in Nat /\ n \in Nat
  BY <1>1, <1>2, TheFormula DEF RowModels, SlotShape, AllRows
<1>4. /\ NumRows' = NumRows /\ Cells' = Cells /\ Exs' = Exs
      /\ \A y, k : Cell(y, k)' = Cell(y, k)
  BY <1>2, SameFormula
<1>5. new \subseteq Cells /\ \A c, d \in new : c[1] = d[1] => c = d
  <2>1. ASSUME NEW c \in Disagreeing(m)
        PROVE  c[1] \in Exs /\ c = Cell(c[1], n) /\ c \in Cells /\ firstSeen[c] # 0
    <3>1. PICK y \in Exs : c = Cell(y, n) /\ firstSeen[Cell(y, n)] = -m[y]
      BY DEF Disagreeing
    <3>2. c[1] = y /\ c \in Cells
      BY <1>2, <1>3, <3>1, CellNames
    <3>3. QED
      BY <1>3, <3>1, <3>2
  <2>2. QED
    BY <2>1
<1>6. \A c \in new : firstSeen[c] # 0
  <2>1. SUFFICES ASSUME NEW y \in Exs, firstSeen[Cell(y, n)] = -m[y]
                 PROVE  firstSeen[Cell(y, n)] # 0
    BY DEF Disagreeing
  <2>2. QED
    BY <1>3, <2>1
<1> HIDE DEF new
<1>7. /\ slots' \in Seq(Cells)
      /\ Len(slots') = Len(slots) + Cardinality(new) /\ Cardinality(new) \in Nat
      /\ \A p \in 1..Len(slots) : slots'[p] = slots[p]
      /\ \A p \in Len(slots) + 1..Len(slots') : slots'[p] \in new
      /\ \A p, q \in Len(slots) + 1..Len(slots') : slots'[p] = slots'[q] => p = q
  <2>1. slots \in Seq(Cells)
    BY <1>2 DEF SlotShape
  <2>2. AppendedTo(slots, new, slots')
    BY <1>1, <1>2, <1>5, <2>1, AppendCellsFacts
  <2>3. QED
    BY <2>2 DEF AppendedTo
<1>8. Len(slots) \in Nat /\ DOMAIN slots = 1..Len(slots) /\ DOMAIN slots' = 1..Len(slots')
  BY <1>2, <1>7 DEF SlotShape
<1>9. \A p \in DOMAIN slots' : p \in 1..Len(slots) \/ p \in Len(slots) + 1..Len(slots')
  BY <1>7, <1>8
<1>10. \A p, q \in DOMAIN slots' : slots'[p] = slots'[q] => p = q
  <2>1. \A p \in 1..Len(slots), q \in Len(slots) + 1..Len(slots') : slots'[p] # slots'[q]
    BY <1>7, <1>8 DEF new, InSlot
  <2>2. \A p, q \in 1..Len(slots) : slots'[p] = slots'[q] => p = q
    BY <1>2, <1>7, <1>8 DEF SlotShape
  <2>3. QED
    BY <1>7, <1>9, <2>1, <2>2
<1>11. /\ firstSeen' \in [Cells -> {-1, 0, 1}]
       /\ \A c \in Cells : firstSeen[c] # 0 => firstSeen'[c] = firstSeen[c]
       /\ \A y \in Exs : firstSeen'[Cell(y, n)] # 0
       /\ \A y \in Exs : firstSeen[Cell(y, n)] # -m[y] => firstSeen'[Cell(y, n)] = m[y]
  BY <1>1, <1>2, <1>3, FillFacts DEF SlotShape
<1>12. SlotShape'
  <2>1. freeRow' \in 0..NumRows
    BY <1>1, <1>3
  <2>2. QED
    BY <1>1, <1>2, <1>4, <1>7, <1>10, <1>11, <2>1 DEF SlotShape, locals
<1>13. \A k \in 0..freeRow' - 1, y \in Exs : firstSeen'[Cell(y, k)] # 0
  <2>1. ASSUME NEW k \in 0..freeRow' - 1, NEW y \in Exs PROVE firstSeen'[Cell(y, k)] # 0
    <3>1. k = n \/ k \in 0..n - 1
      BY <1>1, <1>3
    <3>2. CASE k \in 0..n - 1
      <4>1. Cell(y, k) \in Cells /\ firstSeen[Cell(y, k)] # 0
        BY <1>2, <1>3, <3>2, CellNames DEF SearchInv, AllRows
      <4>2. QED
        BY <1>11, <4>1
    <3>3. QED
      BY <1>11, <3>1, <3>2
  <2>2. QED
    BY <2>1
<1>14. \A p \in DOMAIN slots' : firstSeen'[slots'[p]] # 0
  <2>1. \A p \in 1..Len(slots) : slots[p] \in Cells /\ firstSeen[slots[p]] # 0
    BY <1>2, <1>8 DEF SearchInv, SlotShape
  <2>2. \A p \in DOMAIN slots' : slots'[p] \in Cells /\ firstSeen[slots'[p]] # 0
    BY <1>5, <1>6, <1>7, <1>9, <2>1
  <2>3. QED
    BY <1>11, <2>2
<1>15. ASSUME slots' = << >>, NEW k \in 0..freeRow' - 1 PROVE RowAgrees(firstSeen', k)
  <2>1. slots = << >> /\ new = {}
    <3>1. Len(slots') = 0
      BY <1>15
    <3>2. Len(slots) = 0 /\ Cardinality(new) = 0
      BY <1>7, <1>8, <3>1
    <3>3. IsFiniteSet(new)
      BY <1>2, <1>5, FiniteCells
    <3>4. QED
      BY <1>2, <3>2, <3>3, FS_EmptySet DEF SlotShape
  <2>2. k = n \/ k \in 0..n - 1
    BY <1>1, <1>3, <1>15
  <2>3. CASE k = n
    <3>1. InSlot = {}
      BY <2>1 DEF InSlot
    <3>2. Disagreeing(m) = {}
      BY <2>1, <3>1 DEF new
    <3>3. \A y \in Exs : firstSeen[Cell(y, n)] # -m[y]
      BY <3>2 DEF Disagreeing
    <3>4. QED
      BY <1>1, <1>11, <2>3, <3>3 DEF RowAgrees
  <2>4. CASE k \in 0..n - 1
    <3>1. RowAgrees(firstSeen, k) /\ k \in AllRows
      BY <1>2, <1>3, <2>1, <2>4 DEF SearchInv, AllRows
    <3>2. QED
      BY <1>1, <1>2, <1>3, <3>1, FillKeeps DEF SlotShape
  <2>5. QED
    BY <2>2, <2>3, <2>4
<1>16. SearchInv'
  <2>1. \A k : RowAgrees(firstSeen, k)' <=> RowAgrees(firstSeen', k)
    BY <1>2, SameModels
  <2>2. Free'
    BY <1>1 DEF Free
  <2>3. slots' = << >> => \A k \in 0..freeRow' - 1 : RowAgrees(firstSeen, k)'
    BY <1>15, <2>1
  <2>4. anyBudget' => scenario'.budgetHits
    BY <1>1, <1>2 DEF SearchInv, locals
  <2>5. 0 <= Len(slots') /\ Len(<< >>) = 0 /\ DOMAIN << >> = {}
    BY <1>7, <1>8
  <2>6. QED
    BY <1>1, <1>2, <1>4, <1>13, <1>14, <2>2, <2>3, <2>4, <2>5 DEF SearchInv
<1>17. SlotLeft'
  <2>1. nextSlot' = 0 /\ Models[f]' = Models[f]
    BY <1>1, <1>2, SameModels
  <2>2. \A sk : Ahead(sk)'
    BY <2>1 DEF Ahead
  <2>3. QED
    BY <2>1, <2>2 DEF SlotLeft, SlotsLeft
<1>18. QED
  BY <1>1, <1>12, <1>16, <1>17

\* Without an answer there is nothing to show of it.
LEMMA NoAnswer ==
    ASSUME answer' = "none"
    PROVE  AnswerInv'
BY DEF AnswerInv, SatIsModel, UnsatIsFalse

\* What a step of the slot search arrives at.
SlotGoal ==
    /\ SlotShape' /\ AnswerInv'
    /\ answer' = "none" => SearchInv' /\ SlotLeft' /\ (pc' \in {"rows", "judge"} => RoundInv')

\* A row without a model, or one that is undecided, ends the free pass.
LEMMA FreeFailureStep ==
    ASSUME SlotNow, NEW budgetHit \in BOOLEAN, FreeFailure(budgetHit)
    PROVE  SlotGoal
<1>1. /\ SolverFails(freeRow, {}, budgetHit)
      /\ answer' = IF budgetHit THEN "Done" ELSE "UnsatRow"
      /\ UNCHANGED <<scenario, fields, locals>>
      /\ scenario \in Scenarios /\ mode' = "SlotDpll" /\ SlotShape
  BY DEF FreeFailure, Return, SlotNow
<1>2. SlotShape'
  <2>1. NumRows' = NumRows /\ Cells' = Cells
    BY <1>1, SameFormula
  <2>2. QED
    BY <1>1, <2>1 DEF SlotShape, fields, locals
<1>3. answer' = "UnsatRow" => ~ IsTrue(f)'
  <2>1. ASSUME answer' = "UnsatRow" PROVE ~ IsTrue(f)
    <3>1. ~ Solvable(freeRow, {})
      BY <1>1, <2>1 DEF SolverFails
    <3>2. QED
      BY <1>1, <3>1, RowSolvable
  <2>2. QED
    BY <1>1, <2>1, SameModels
<1>4. AnswerInv'
  BY <1>1, <1>3 DEF AnswerInv, SatIsModel, UnsatIsFalse
<1>5. QED
  BY <1>1, <1>2, <1>4 DEF SlotGoal

\* The tables of BuildSkolem are those of the next state.
LEMMA SatAnswer ==
    ASSUME scenario' = scenario, scenario \in Scenarios, answer' = "Sat", mode' # "Definability",
           \A n \in AllRows : RowAgrees(tables', n)
    PROVE  AnswerInv'
<1>1. IsModel(f, BuildSkolem(tables'))
  BY TablesAreModel
<1>2. BuildSkolem(tables)' = BuildSkolem(tables') /\ f' = f
  BY SameFormula DEF BuildSkolem
<1>3. IsModel(f, BuildSkolem(tables))'
  BY <1>1, <1>2
<1>4. QED
  BY <1>3 DEF AnswerInv, SatIsModel, UnsatIsFalse

\* The end of the free pass: the tables are found, or the slots are laid out.
LEMMA FreePassDoneStep ==
    ASSUME SlotNow, FreePassDone
    PROVE  SlotGoal
<1>1. /\ pc = "free" /\ freeRow = NumRows
      /\ UNCHANGED <<scenario, freeRow, firstSeen, slots, decisions, nextSlot, cegarRound,
                     newConflicts, locals, slices>>
      /\ scenario \in Scenarios /\ mode' = "SlotDpll" /\ SlotShape /\ SearchInv
      /\ slotVal = << >> /\ decisions = << >> /\ nextSlot = 0
  BY DEF FreePassDone, SlotNow, SearchInv, Free
<1>2. NumRows' = NumRows /\ Cells' = Cells /\ Exs' = Exs /\ NumRows \in Nat
  BY <1>1, SameFormula, TheFormula
<1>3. CASE slots = << >>
  <2>1. answer' = "Sat" /\ tables' = firstSeen /\ slotVal' = slotVal
    BY <1>3 DEF FreePassDone, Return
  <2>2. SlotShape'
    BY <1>1, <1>2, <2>1 DEF SlotShape, locals
  <2>3. \A n \in AllRows : RowAgrees(tables', n)
    BY <1>1, <1>3, <2>1 DEF SearchInv, AllRows
  <2>4. AnswerInv'
    BY <1>1, <2>1, <2>3, SatAnswer
  <2>5. QED
    BY <2>1, <2>2, <2>4 DEF SlotGoal
<1>4. CASE slots # << >>
  <2>1. /\ pc' = "decide" /\ slotVal' = [p \in DOMAIN slots |-> 0]
        /\ tables' = tables /\ answer' = answer /\ answer = "none"
    BY <1>4 DEF FreePassDone, SlotNow
  <2>2. /\ slots \in Seq(Cells) /\ Len(slots) \in Nat /\ DOMAIN slots = 1..Len(slots)
    BY <1>1 DEF SlotShape
  <2>3. slotVal' \in Seq({-1, 0, 1}) /\ DOMAIN slotVal' = DOMAIN slots
    <3>1. slotVal' \in [1..Len(slots) -> {-1, 0, 1}]
      BY <2>1, <2>2
    <3>2. QED
      BY <2>1, <2>2, <3>1
  <2>4. SlotShape'
    BY <1>1, <1>2, <2>1, <2>3 DEF SlotShape, locals
  <2>5. ~ Free'
    BY <1>1, <1>2, <2>1 DEF Free
  <2>6. \A k : RowAgrees(firstSeen, k)' <=> RowAgrees(firstSeen, k)
    BY <1>1, SameModels
  <2>7. \A p \in DOMAIN slotVal' : slotVal'[p] # 0 <=> p <= nextSlot'
    BY <1>1, <2>1, <2>2
  <2>8. \A y, n : Cell(y, n)' = Cell(y, n)
    BY <1>1, SameFormula
  <2>9. SearchInv'
    BY <1>1, <1>2, <1>4, <2>1, <2>2, <2>3, <2>5, <2>6, <2>7, <2>8 DEF SearchInv, locals
  <2>10. SlotLeft'
    <3>1. nextSlot' = 0 /\ Models[f]' = Models[f]
      BY <1>1, SameModels
    <3>2. \A sk : Ahead(sk)'
      BY <3>1 DEF Ahead
    <3>3. QED
      BY <3>1, <3>2 DEF SlotLeft, SlotsLeft
  <2>11. QED
    BY <2>1, <2>4, <2>9, <2>10, NoAnswer DEF SlotGoal
<1>5. QED
  BY <1>3, <1>4

\* The tables are ahead when the first decision they contradict can be flipped.
AheadIn(D, d) == D # {} => ~ d[Min(D)].flipped

\* Which is what Ahead says, before the step and after it.
LEMMA AheadIs ==
    /\ \A sk : Ahead(sk) <=> AheadIn(Differs(sk), decisions)
    /\ \A sk : Ahead(sk)' <=> AheadIn(Differs(sk)', decisions')
BY DEF Ahead, Differs, SlotValue, AheadIn

\* The least element of a set of positions.
LEMMA LeastOf ==
    ASSUME NEW k \in Nat, NEW D \in SUBSET (1..k), D # {}
    PROVE  Min(D) \in D /\ Min(D) \in 1..k /\ \A y \in D : Min(D) <= y
<1>1. 1 \in Int /\ k \in Int
  OBVIOUS
<1>2. IsFiniteSet(1..k)
  BY <1>1, FS_Interval
<1>3. IsFiniteSet(D)
  BY <1>2, FS_Subset
<1>4. D \in SUBSET Int
  OBVIOUS
<1>5. QED
  BY <1>3, <1>4, MinIsLeast

\* And the greatest.
LEMMA GreatestOf ==
    ASSUME NEW k \in Nat, NEW D \in SUBSET (1..k), D # {}
    PROVE  Max(D) \in D /\ Max(D) \in 1..k /\ \A y \in D : y <= Max(D)
<1> DEFINE E == {k - y : y \in D}
<1>1. E \in SUBSET Nat /\ E # {}
  <2>1. \A y \in D : k - y \in Nat
    OBVIOUS
  <2>2. E # {}
    OBVIOUS
  <2>3. QED
    BY <2>1, <2>2
<1>2. PICK e \in E : \A z \in E : e <= z
  BY <1>1, LeastNat
<1>3. PICK x \in D : e = k - x
  OBVIOUS
<1>4. \A y \in D : x >= y
  <2>1. ASSUME NEW y \in D PROVE x >= y
    <3>1. e <= k - y
      BY <1>2
    <3>2. QED
      BY <1>3, <3>1
  <2>2. QED
    BY <2>1
<1>5. Max(D) \in D /\ \A y \in D : Max(D) >= y
  BY <1>4 DEF Max
<1>6. QED
  BY <1>5

\* Larger elements do not change the least.
LEMMA LeastStays ==
    ASSUME NEW k \in Nat, NEW D \in SUBSET (1..k), NEW l \in Nat, NEW E \in SUBSET (1..l),
           D # {}, D \subseteq E, \A e \in E \ D : \A d \in D : d < e
    PROVE  Min(E) = Min(D) /\ Min(D) \in D
<1> DEFINE x == Min(D)
           y == Min(E)
<1>1. x \in D /\ x \in 1..k /\ \A z \in D : x <= z
  BY LeastOf
<1>2. E # {}
  OBVIOUS
<1>3. y \in E /\ y \in 1..l /\ \A z \in E : y <= z
  BY <1>2, LeastOf
<1> HIDE DEF x, y
<1>4. y <= x
  BY <1>1, <1>3
<1>5. CASE y \in D
  <2>1. x <= y
    BY <1>1, <1>5
  <2>2. x = y
    BY <1>1, <1>3, <1>4, <2>1
  <2>3. QED
    BY <1>1, <2>2 DEF x, y
<1>6. CASE y \notin D
  <2>1. x < y
    BY <1>1, <1>3, <1>6
  <2>2. QED
    BY <1>1, <1>3, <1>4, <2>1
<1>7. QED
  BY <1>5, <1>6

\* A sequence after another one.
Joined(S, s, t, e) ==
    /\ e \in Seq(S) /\ Len(e) = Len(s) + Len(t)
    /\ \A i \in 1..Len(s) : e[i] = s[i]
    /\ \A i \in 1..Len(t) : e[Len(s) + i] = t[i]

\* Concatenation is such a sequence.
LEMMA Appends ==
    ASSUME NEW S, NEW s \in Seq(S), NEW t \in Seq(S)
    PROVE  Joined(S, s, t, s \o t)
BY DEF Joined

\* Decisions.
DecisionSet == [slot : Nat, flipped : BOOLEAN]
Decision(p, b) == [slot |-> p, flipped |-> b]

\* The fields of a decision.
LEMMA DecisionFields ==
    ASSUME NEW p \in Nat, NEW b \in BOOLEAN
    PROVE  /\ Decision(p, b) \in DecisionSet
           /\ Decision(p, b).slot = p /\ Decision(p, b).flipped = b
BY DEF Decision, DecisionSet

\* A sequence cut short and continued by one element.
Replaced(S, s, j, e, t) ==
    /\ t \in Seq(S) /\ Len(t) = j
    /\ \A p \in 1..j - 1 : t[p] = s[p]
    /\ t[j] = e

\* SubSeq and Append make one.
LEMMA Replaces ==
    ASSUME NEW S, NEW s \in Seq(S), NEW j \in 1..Len(s), NEW e \in S
    PROVE  Replaced(S, s, j, e, Append(SubSeq(s, 1, j - 1), e))
<1> DEFINE t == SubSeq(s, 1, j - 1)
<1>1. t \in Seq(S) /\ Len(t) = j - 1 /\ \A p \in 1..j - 1 : t[p] = s[p]
  OBVIOUS
<1> HIDE DEF t
<1>2. Append(t, e) \in Seq(S) /\ Len(Append(t, e)) = j
  BY <1>1
<1>3. Append(t, e)[j] = e /\ \A p \in 1..j - 1 : Append(t, e)[p] = s[p]
  BY <1>1
<1>4. QED
  BY <1>2, <1>3 DEF t, Replaced

\* Decisions for the slots up to u after those up to n.
NewDecisions(n, u) == [i \in 1..u - n |-> Decision(n + i, FALSE)]
\* Slots n + 1 to u have decisions of their own in e.
DecidedUpTo(n, u, d, e) ==
    /\ e \in Seq(DecisionSet) /\ Len(e) = u
    /\ \A i \in 1..n : e[i] = d[i]
    /\ \A i \in n + 1..u : e[i].slot = i /\ e[i].flipped = FALSE

\* They follow each other.
LEMMA MoreDecisions ==
    ASSUME NEW n \in Nat, NEW u \in Nat, n <= u, NEW d \in Seq(DecisionSet), Len(d) = n
    PROVE  DecidedUpTo(n, u, d, d \o NewDecisions(n, u))
<1> DEFINE new == NewDecisions(n, u)
           e == d \o new
<1>1. ASSUME NEW i \in 1..u - n
      PROVE  new[i] = Decision(n + i, FALSE) /\ new[i] \in DecisionSet
  <2>1. n + i \in Nat /\ new[i] = Decision(n + i, FALSE)
    BY DEF NewDecisions
  <2>2. QED
    BY <2>1, DecisionFields
<1>2. new \in Seq(DecisionSet) /\ Len(new) = u - n
  <2>1. u - n \in Nat /\ DOMAIN new = 1..u - n
    BY DEF NewDecisions
  <2>2. new \in [1..u - n -> DecisionSet]
    BY <1>1, <2>1 DEF NewDecisions
  <2> HIDE DEF new
  <2>3. QED
    BY <2>1, <2>2
<1> HIDE DEF new
<1>3. /\ e \in Seq(DecisionSet) /\ Len(e) = u
      /\ \A i \in 1..n : e[i] = d[i]
      /\ \A i \in 1..u - n : e[n + i] = new[i]
  <2>1. d \in Seq(DecisionSet) /\ new \in Seq(DecisionSet)
    BY <1>2
  <2>2. Joined(DecisionSet, d, new, e)
    BY <2>1, Appends
  <2> HIDE DEF e
  <2>3. QED
    BY <1>2, <2>2 DEF Joined
<1> HIDE DEF e
<1>4. ASSUME NEW i \in n + 1..u PROVE e[i].slot = i /\ e[i].flipped = FALSE
  <2>1. i - n \in 1..u - n /\ n + (i - n) = i /\ i \in Nat
    OBVIOUS
  <2>2. e[n + (i - n)] = new[i - n]
    BY <1>3, <2>1
  <2>3. e[i] = Decision(i, FALSE)
    BY <1>1, <2>1, <2>2
  <2>4. QED
    BY <2>1, <2>3, DecisionFields
<1>5. QED
  BY <1>3, <1>4 DEF DecidedUpTo, e, new

\* Deciding the next slots discards nothing.
LEMMA DecideStep ==
    ASSUME SlotNow, Decide
    PROVE  SlotGoal
<1> DEFINE upto == IF AllDecided THEN nextSlot ELSE IF Batch THEN Len(slots) ELSE nextSlot + 1
           new == nextSlot + 1 .. upto
<1>1. /\ pc = "decide" /\ pc' = "rows"
      /\ nextSlot' = upto
      /\ slotVal' = [p \in DOMAIN slots |-> IF p \in new THEN firstSeen[slots[p]] ELSE slotVal[p]]
      /\ decisions' = decisions \o NewDecisions(nextSlot, upto)
      /\ tables' = [c \in Cells |->
                      IF c \in InSlot THEN slotVal'[CHOOSE p \in DOMAIN slots : slots[p] = c] ELSE 0]
      /\ ub' = 0 /\ prune' = FALSE /\ soft' = FALSE
      /\ UNCHANGED <<scenario, freeRow, firstSeen, slots, cegarRound, newConflicts, anyBudget,
                     slices, answer>>
  BY DEF Decide, NewDecisions, Decision
<1>2. /\ scenario \in Scenarios /\ SlotShape /\ SearchInv /\ SlotLeft /\ answer' = "none"
      /\ freeRow = NumRows /\ ~ Free
  BY <1>1, TheFormula DEF SlotNow, SearchInv, Free
<1>3. /\ NumRows' = NumRows /\ Cells' = Cells /\ Exs' = Exs /\ NumRows \in Nat
      /\ \A y, k : Cell(y, k)' = Cell(y, k)
  BY <1>1, <1>2, SameFormula, TheFormula
<1>4. /\ slots \in Seq(Cells) /\ Len(slots) \in Nat /\ DOMAIN slots = 1..Len(slots)
      /\ nextSlot \in Nat /\ nextSlot <= Len(slots)
      /\ DOMAIN slotVal = DOMAIN slots /\ slotVal \in Seq({-1, 0, 1})
      /\ decisions \in Seq(DecisionSet) /\ Len(decisions) = nextSlot
  BY <1>2 DEF SlotShape, SearchInv, DecisionSet
<1>5. upto \in nextSlot..Len(slots) /\ upto \in Nat
  BY <1>4 DEF AllDecided
<1> HIDE DEF upto
<1>6. \A p \in DOMAIN slots : slotVal'[p] \in {-1, 0, 1} /\ (slotVal'[p] # 0 <=> p <= upto)
  <2>1. ASSUME NEW p \in DOMAIN slots PROVE slotVal'[p] \in {-1, 0, 1} /\ (slotVal'[p] # 0 <=> p <= upto)
    <3>1. firstSeen[slots[p]] # 0 /\ firstSeen[slots[p]] \in {-1, 0, 1}
      BY <1>2, <1>4 DEF SearchInv, SlotShape
    <3>2. slotVal[p] \in {-1, 0, 1} /\ (slotVal[p] # 0 <=> p <= nextSlot)
      BY <1>2, <1>4 DEF SearchInv
    <3>3. slotVal'[p] = IF p \in new THEN firstSeen[slots[p]] ELSE slotVal[p]
      BY <1>1
    <3>4. p \in Nat /\ p >= 1
      BY <1>4
    <3>5. QED
      BY <1>4, <1>5, <3>1, <3>2, <3>3, <3>4
  <2>2. QED
    BY <2>1
<1>7. slotVal' \in Seq({-1, 0, 1}) /\ DOMAIN slotVal' = DOMAIN slots
  <2>1. slotVal' \in [1..Len(slots) -> {-1, 0, 1}]
    BY <1>1, <1>4, <1>6
  <2>2. QED
    BY <1>1, <1>4, <2>1
<1>8. /\ decisions' \in Seq(DecisionSet) /\ Len(decisions') = upto
      /\ \A i \in 1..nextSlot : decisions'[i] = decisions[i]
      /\ \A i \in new : decisions'[i].slot = i /\ decisions'[i].flipped = FALSE
  <2>1. DecidedUpTo(nextSlot, upto, decisions, decisions')
    BY <1>1, <1>4, <1>5, MoreDecisions
  <2>2. QED
    BY <2>1 DEF DecidedUpTo
<1>9. \A i \in DOMAIN decisions' : decisions'[i].slot = i
  <2>1. ASSUME NEW i \in DOMAIN decisions' PROVE decisions'[i].slot = i
    <3>1. i \in 1..nextSlot \/ i \in new
      BY <1>4, <1>5, <1>8
    <3>2. CASE i \in 1..nextSlot
      BY <1>2, <1>4, <1>8, <3>2 DEF SearchInv
    <3>3. CASE i \in new
      BY <1>8, <3>3
    <3>4. QED
      BY <3>1, <3>2, <3>3
  <2>2. QED
    BY <2>1
<1>10. /\ tables' \in [Cells -> {-1, 0, 1}]
       /\ \A p \in DOMAIN slots : tables'[slots[p]] = slotVal'[p]
  <2>1. ASSUME NEW p \in DOMAIN slots
        PROVE  (CHOOSE q \in DOMAIN slots : slots[q] = slots[p]) = p
    BY <1>2 DEF SlotShape
  <2>2. ASSUME NEW p \in DOMAIN slots PROVE tables'[slots[p]] = slotVal'[p]
    <3>1. slots[p] \in Cells /\ slots[p] \in InSlot
      BY <1>4 DEF InSlot
    <3>2. QED
      BY <1>1, <2>1, <3>1
  <2>3. ASSUME NEW c \in Cells PROVE tables'[c] \in {-1, 0, 1}
    <3>1. CASE c \in InSlot
      <4>1. PICK p \in DOMAIN slots : slots[p] = c
        BY <3>1 DEF InSlot
      <4>2. QED
        BY <1>6, <2>2, <4>1
    <3>2. CASE c \notin InSlot
      BY <1>1, <3>2
    <3>3. QED
      BY <3>1, <3>2
  <2>4. QED
    BY <1>1, <2>2, <2>3
<1>11. SlotShape'
  <2>1. ub' \in 0..NumRows /\ nextSlot' \in Nat
    BY <1>1, <1>3, <1>5
  <2>2. QED
    BY <1>1, <1>2, <1>3, <1>7, <1>8, <1>10, <2>1 DEF SlotShape, DecisionSet
<1>12. SearchInv'
  <2>1. ~ Free'
    BY <1>1, <1>2, <1>3 DEF Free
  <2>2. \A k : RowAgrees(firstSeen, k)' <=> RowAgrees(firstSeen, k)
    BY <1>1, SameModels
  <2>3. \A p \in DOMAIN slotVal' : slotVal'[p] # 0 <=> p <= nextSlot'
    BY <1>1, <1>6, <1>7
  <2>4. nextSlot' <= Len(slots') /\ Len(decisions') = nextSlot'
    BY <1>1, <1>4, <1>5, <1>8
  <2>5. QED
    BY <1>1, <1>2, <1>3, <1>7, <1>9, <2>1, <2>2, <2>3, <2>4 DEF SearchInv
<1>13. RoundInv'
  <2>1. \A p \in 1..nextSlot' : tables'[slots'[p]] = slotVal'[p]
    <3>1. 1..nextSlot' \subseteq DOMAIN slots /\ slots' = slots
      BY <1>1, <1>4, <1>5
    <3>2. QED
      BY <1>10, <3>1
  <2>2. 0..ub' - 1 = {} /\ ~ soft' /\ pc' # "judge" /\ ~ prune'
    BY <1>1
  <2>3. QED
    BY <2>1, <2>2 DEF RoundInv
<1>14. SlotLeft'
  <2>1. SUFFICES ASSUME ~ Forgets', Models[f]' # {} PROVE SlotsLeft'
    BY DEF SlotLeft
  <2>2. Models[f]' = Models[f] /\ Forgets' = Forgets /\ Added' = Added /\ anyBudget' = anyBudget
    BY <1>1, SameModels, SameFormula DEF Added, InSlot
  <2>3. SlotsLeft
    BY <1>2, <2>1, <2>2 DEF SlotLeft
  <2>4. ASSUME NEW sk \in Models[f], Ahead(sk) PROVE Ahead(sk)'
    <3> DEFINE D == Differs(sk)
               E == Differs(sk)'
    <3>1. \A p : SlotValue(sk, p)' = SlotValue(sk, p)
      BY <1>1 DEF SlotValue
    <3>2. D \in SUBSET (1..nextSlot) /\ E \in SUBSET (1..upto)
      BY <1>1 DEF Differs
    <3>3. \A p \in 1..nextSlot : slotVal'[p] = slotVal[p]
      BY <1>1, <1>4, <1>5
    <3>4. D \subseteq E /\ \A p \in E \ D : p \in new
      <4>1. \A p \in 1..nextSlot : p \in D <=> p \in E
        BY <1>1, <1>4, <1>5, <3>1, <3>3 DEF Differs
      <4>2. QED
        BY <1>4, <1>5, <3>2, <4>1
    <3>5. AheadIn(D, decisions)
      BY <2>4, AheadIs
    <3> HIDE DEF D, E
    <3>6. ASSUME E # {} PROVE ~ decisions'[Min(E)].flipped
      <4>1. CASE D # {}
        <5>1. \A e \in E \ D : \A d \in D : d < e
          BY <1>4, <1>5, <3>2, <3>4
        <5>2. Min(E) = Min(D) /\ Min(D) \in D
          BY <1>4, <1>5, <3>2, <3>4, <4>1, <5>1, LeastStays
        <5>3. ~ decisions[Min(D)].flipped /\ Min(D) \in 1..nextSlot
          BY <3>2, <3>5, <4>1, <5>2 DEF AheadIn
        <5>4. QED
          BY <1>8, <5>2, <5>3
      <4>2. CASE D = {}
        <5>1. Min(E) \in new
          BY <1>5, <3>2, <3>4, <3>6, <4>2, LeastOf
        <5>2. decisions'[Min(E)].flipped = FALSE
          BY <1>8, <5>1
        <5>3. QED
          BY <5>2
      <4>3. QED
        BY <4>1, <4>2
    <3>7. QED
      BY <3>6, AheadIs DEF AheadIn, E
  <2>5. QED
    BY <2>2, <2>3, <2>4 DEF SlotsLeft
<1>15. QED
  BY <1>2, <1>11, <1>12, <1>13, <1>14, NoAnswer DEF SlotGoal

\* The search as it was: another place outside the free pass.
LEMMA SearchSame ==
    ASSUME scenario \in Scenarios, scenario' = scenario, SearchInv,
           UNCHANGED <<freeRow, firstSeen, slots, slotVal, decisions, nextSlot>>,
           ~ Free, freeRow = NumRows, pc' # "free", anyBudget' => scenario.budgetHits
    PROVE  SearchInv' /\ freeRow' = NumRows'
<1>1. /\ NumRows' = NumRows /\ Exs' = Exs /\ NumRows \in Nat
      /\ \A y, k : Cell(y, k)' = Cell(y, k)
  BY SameFormula, TheFormula
<1>2. \A k : RowAgrees(firstSeen, k)' <=> RowAgrees(firstSeen, k)
  BY SameModels
<1>3. ~ Free' /\ freeRow' = freeRow
  BY <1>1 DEF Free
<1>4. QED
  BY <1>1, <1>2, <1>3 DEF SearchInv, Free

\* What is ahead stays ahead, and cells on record stay there.
LEMMA LeftSame ==
    ASSUME scenario \in Scenarios, scenario' = scenario, SlotLeft,
           UNCHANGED <<slots, slotVal, decisions, nextSlot>>,
           anyBudget /\ ~ Forgets => anyBudget', newConflicts \subseteq newConflicts'
    PROVE  SlotLeft'
<1>1. SUFFICES ASSUME ~ Forgets', Models[f]' # {} PROVE SlotsLeft'
  BY DEF SlotLeft
<1>2. Models[f]' = Models[f] /\ Forgets' = Forgets /\ Added \subseteq Added'
  BY SameModels, SameFormula DEF Added, InSlot
<1>3. \A sk : Ahead(sk)' <=> Ahead(sk)
  BY DEF Ahead
<1>4. SlotsLeft
  BY <1>1, <1>2 DEF SlotLeft
<1>5. QED
  BY <1>1, <1>2, <1>3, <1>4 DEF SlotsLeft

\* A model of a row has the values that are decided for it.
LEMMA PinsHold ==
    ASSUME scenario \in Scenarios, NEW n, NEW m \in RowModels(n, Pins(n)), NEW p \in DOMAIN slots,
           slotVal[p] # 0, slots[p] = Cell(slots[p][1], n)
    PROVE  m[slots[p][1]] = slotVal[p]
<1>1. <<slots[p][1], slotVal[p]>> \in Pins(n)
  BY DEF Pins
<1>2. \A q \in Pins(n) : m[q[1]] = q[2]
  BY DEF RowModels
<1>3. QED
  BY <1>1, <1>2

\* One more row of a round.
LEMMA RowModelStep ==
    ASSUME SlotNow, NEW m, RowModel(m)
    PROVE  SlotGoal
<1> DEFINE n == ub
           clash == {Cell(y, n) : y \in {z \in Exs : tables[Cell(z, n)] = -m[z]}}
<1>1. /\ pc = "rows" /\ n < NumRows /\ m \in RowModels(n, Pins(n))
      /\ soft' = (soft \/ clash # {}) /\ newConflicts' = newConflicts \cup clash
      /\ tables' = Filled(tables, m, n)
      /\ ub' = n + 1
      /\ UNCHANGED <<scenario, freeRow, firstSeen, slots, slotVal, decisions, nextSlot, cegarRound,
                     iters, anyBudget, prune, pc, slices, answer>>
  BY DEF RowModel, Filled
<1>2. /\ scenario \in Scenarios /\ SlotShape /\ SearchInv /\ SlotLeft /\ RoundInv /\ answer' = "none"
      /\ ~ Free /\ freeRow = NumRows
  BY <1>1, TheFormula DEF SlotNow, SearchInv, Free
<1>3. n \in AllRows /\ m \in [Exs -> {-1, 1}] /\ NumRows \in Nat /\ n \in Nat /\ n + 1 \in 0..NumRows
  BY <1>1, <1>2, TheFormula DEF RowModels, SlotShape, AllRows
<1>4. NumRows' = NumRows /\ Cells' = Cells
  BY <1>1, <1>2, SameFormula
<1>5. /\ slots \in Seq(Cells) /\ Len(slots) \in Nat /\ DOMAIN slots = 1..Len(slots)
      /\ nextSlot \in Nat /\ nextSlot <= Len(slots) /\ DOMAIN slotVal = DOMAIN slots
      /\ tables \in [Cells -> {-1, 0, 1}]
  BY <1>2 DEF SlotShape, SearchInv
<1>6. clash \subseteq Cells
  BY <1>2, <1>3, CellNames
<1>7. /\ tables' \in [Cells -> {-1, 0, 1}]
      /\ \A c \in Cells : tables[c] # 0 => tables'[c] = tables[c]
      /\ \A y \in Exs : tables[Cell(y, n)] # -m[y] => tables'[Cell(y, n)] = m[y]
  BY <1>1, <1>2, <1>3, <1>5, FillFacts
<1>8. SlotShape'
  <2>1. soft' \in BOOLEAN
    BY <1>1, <1>2 DEF SlotShape
  <2>2. newConflicts' \subseteq Cells
    BY <1>1, <1>2, <1>6 DEF SlotShape
  <2> HIDE DEF clash
  <2>3. QED
    BY <1>1, <1>2, <1>3, <1>4, <1>7, <2>1, <2>2 DEF SlotShape
<1>9. SearchInv'
  BY <1>1, <1>2, SearchSame DEF SearchInv
<1>10. SlotLeft'
  BY <1>1, <1>2, LeftSame
<1>11. \A p \in 1..nextSlot' : tables'[slots'[p]] = slotVal'[p]
  <2>1. ASSUME NEW p \in 1..nextSlot PROVE tables'[slots[p]] = slotVal[p]
    <3>1. p \in DOMAIN slots /\ slots[p] \in Cells /\ tables[slots[p]] = slotVal[p] /\ slotVal[p] # 0
      BY <1>2, <1>5 DEF RoundInv, SearchInv
    <3>2. QED
      BY <1>7, <3>1
  <2>2. QED
    BY <1>1, <2>1
<1>12. ASSUME ~ prune', ~ soft', NEW k \in 0..ub' - 1 PROVE RowAgrees(tables', k)
  <2>1. clash = {} /\ ~ soft /\ ~ prune
    BY <1>1, <1>12
  <2>2. CASE k = n
    <3>1. \A y \in Exs : tables[Cell(y, n)] # -m[y]
      BY <2>1
    <3>2. m \in RowModels(n, {})
      BY <1>1 DEF RowModels
    <3> HIDE DEF clash
    <3>3. QED
      BY <1>7, <2>2, <3>1, <3>2 DEF RowAgrees
  <2>3. CASE k \in 0..n - 1
    <3> HIDE DEF clash
    <3>1. RowAgrees(tables, k) /\ k \in AllRows
      BY <1>1, <1>2, <1>3, <2>1, <2>3 DEF RoundInv, AllRows
    <3>2. QED
      BY <1>1, <1>2, <1>3, <1>5, <3>1, FillKeeps
  <2>4. QED
    BY <1>1, <1>3, <2>2, <2>3
<1>13. ASSUME soft', AllDecided' PROVE Added' # {}
  <2>1. AllDecided /\ Added \subseteq Added' /\ InSlot' = InSlot
    BY <1>1, <1>13 DEF AllDecided, Added, InSlot
  <2>2. CASE soft
    BY <1>2, <2>1, <2>2 DEF RoundInv
  <2>3. CASE clash # {}
    <3>1. PICK y \in Exs : tables[Cell(y, n)] = -m[y]
      BY <2>3
    <3>2. Cell(y, n) \in newConflicts' /\ Cell(y, n) \in Cells /\ Cell(y, n)[1] = y
      BY <1>1, <1>2, <1>3, <3>1, CellNames
    <3> HIDE DEF clash
    <3>3. ASSUME Cell(y, n) \in InSlot PROVE FALSE
      <4>1. PICK p \in DOMAIN slots : slots[p] = Cell(y, n)
        BY <3>3 DEF InSlot
      <4>2. p \in 1..nextSlot
        BY <1>5, <2>1 DEF AllDecided
      <4>3. tables[Cell(y, n)] = slotVal[p] /\ slotVal[p] # 0
        BY <1>2, <1>5, <4>1, <4>2 DEF RoundInv, SearchInv
      <4>4. m[y] = slotVal[p]
        BY <1>1, <1>2, <3>2, <4>1, <4>3, PinsHold
      <4>5. m[y] \in {-1, 1}
        BY <1>3
      <4>6. QED
        BY <3>1, <4>3, <4>4, <4>5
    <3>4. QED
      BY <2>1, <3>2, <3>3 DEF Added
  <2>4. QED
    BY <1>1, <1>13, <2>2, <2>3
<1> HIDE DEF clash
<1>14. RoundInv'
  <2>1. \A k : RowAgrees(tables, k)' <=> RowAgrees(tables', k)
    BY <1>1, <1>2, SameModels
  <2>2. pc' = "rows" /\ ~ prune' /\ pc' # "judge"
    BY <1>1, <1>2 DEF RoundInv
  <2>3. QED
    BY <1>11, <1>12, <1>13, <2>1, <2>2 DEF RoundInv
<1>15. QED
  BY <1>2, <1>8, <1>9, <1>10, <1>14, NoAnswer DEF SlotGoal

\* Under the assignment of Skolem tables that are a model, no row is refuted.
LEMMA RowNotRefuted ==
    ASSUME scenario \in Scenarios, SlotShape, SearchInv, ~ Free, NEW sk \in Models[f],
           Differs(sk) = {}, NEW n
    PROVE  Solvable(n, Pins(n))
<1>1. RowOf(sk, n) \in RowModels(n, {})
  BY RowOfModel
<1>2. ASSUME NEW q \in Pins(n) PROVE RowOf(sk, n)[q[1]] = q[2]
  <2>1. PICK p \in DOMAIN slots :
          q = <<slots[p][1], slotVal[p]>> /\ slotVal[p] # 0 /\ slots[p] = Cell(slots[p][1], n)
    BY DEF Pins
  <2>2. p \in 1..nextSlot
    <3>1. /\ DOMAIN slots = 1..Len(slots) /\ nextSlot \in Nat /\ DOMAIN slotVal = DOMAIN slots
      BY DEF SlotShape, SearchInv
    <3>2. p <= nextSlot
      BY <2>1, <3>1 DEF SearchInv
    <3>3. Len(slots) \in Nat
      BY DEF SlotShape
    <3>4. QED
      BY <3>1, <3>2, <3>3
  <2>3. SlotValue(sk, p) = slotVal[p]
    BY <2>2 DEF Differs
  <2>4. slots[p][1] \in Exs /\ slots[p][2] = Key(Row(n), f.dependencies[slots[p][1]])
    <3>1. slots[p] \in Cells
      BY DEF SlotShape
    <3>2. QED
      BY <2>1, <3>1, CellNames
  <2>5. RowOf(sk, n)[slots[p][1]] = SlotValue(sk, p)
    BY <2>4 DEF RowOf, SlotValue
  <2>6. QED
    BY <2>1, <2>3, <2>5
<1>3. QED
  BY <1>1, <1>2 DEF RowModels, Solvable

\* A row without a model refutes the assignment; an undecided one is noted.
LEMMA RowFailureStep ==
    ASSUME SlotNow, NEW budgetHit \in BOOLEAN, RowFailure(budgetHit)
    PROVE  SlotGoal
<1>1. /\ pc = "rows" /\ SolverFails(ub, Pins(ub), budgetHit)
      /\ anyBudget' = (anyBudget \/ budgetHit)
      /\ prune' = TRUE /\ pc' = "judge"
      /\ UNCHANGED <<scenario, fields, iters, ub, soft, slices, answer>>
  BY DEF RowFailure
<1>2. /\ scenario \in Scenarios /\ SlotShape /\ SearchInv /\ SlotLeft /\ RoundInv /\ answer' = "none"
      /\ ~ Free /\ freeRow = NumRows
  BY <1>1, TheFormula DEF SlotNow, SearchInv, Free
<1>3. NumRows' = NumRows /\ Cells' = Cells
  BY <1>1, <1>2, SameFormula
<1>4. SlotShape'
  <2>1. anyBudget' \in BOOLEAN
    BY <1>1, <1>2 DEF SlotShape
  <2>2. QED
    BY <1>1, <1>2, <1>3, <2>1 DEF SlotShape, fields
<1>5. anyBudget' => scenario.budgetHits
  BY <1>1, <1>2 DEF SearchInv, SolverFails
<1>6. SearchInv'
  BY <1>1, <1>2, <1>5, SearchSame DEF fields
<1>7. SlotLeft'
  BY <1>1, <1>2, LeftSame DEF fields
<1>8. RoundInv'
  <2>1. ASSUME ~ anyBudget', NEW sk \in Models[f] PROVE Differs(sk) # {}
    <3>1. ~ Solvable(ub, Pins(ub))
      BY <1>1, <2>1 DEF SolverFails
    <3>2. QED
      BY <1>2, <3>1, RowNotRefuted
  <2>2. Models[f]' = Models[f] /\ \A sk : Differs(sk)' = Differs(sk)
    BY <1>1, <1>2, SameModels DEF Differs, SlotValue, fields
  <2>3. soft' /\ AllDecided' => Added' # {}
    BY <1>1, <1>2 DEF RoundInv, AllDecided, Added, InSlot, fields
  <2>4. \A p \in 1..nextSlot' : tables'[slots'[p]] = slotVal'[p]
    BY <1>1, <1>2 DEF RoundInv, fields
  <2>5. QED
    BY <1>1, <2>1, <2>2, <2>3, <2>4 DEF RoundInv
<1>9. QED
  BY <1>2, <1>4, <1>6, <1>7, <1>8, NoAnswer DEF SlotGoal

\* After the last row.
LEMMA RowsDoneStep ==
    ASSUME SlotNow, RowsDone
    PROVE  SlotGoal
<1>1. /\ pc = "rows" /\ ub = NumRows /\ pc' = "judge"
      /\ UNCHANGED <<scenario, fields, locals, slices, answer>>
  BY DEF RowsDone
<1>2. /\ scenario \in Scenarios /\ SlotShape /\ SearchInv /\ SlotLeft /\ RoundInv /\ answer' = "none"
      /\ ~ Free /\ freeRow = NumRows
  BY <1>1, TheFormula DEF SlotNow, SearchInv, Free
<1>3. NumRows' = NumRows /\ Cells' = Cells
  BY <1>1, <1>2, SameFormula
<1>4. SlotShape'
  BY <1>1, <1>2, <1>3 DEF SlotShape, fields, locals
<1>5. SearchInv'
  BY <1>1, <1>2, SearchSame DEF fields, locals, SearchInv
<1>6. SlotLeft'
  BY <1>1, <1>2, LeftSame DEF fields, locals
<1>7. RoundInv'
  <2>1. soft' /\ AllDecided' => Added' # {}
    BY <1>1, <1>2 DEF RoundInv, AllDecided, Added, InSlot, fields, locals
  <2>2. \A p \in 1..nextSlot' : tables'[slots'[p]] = slotVal'[p]
    BY <1>1, <1>2 DEF RoundInv, fields
  <2>3. \A k : RowAgrees(tables, k)' <=> RowAgrees(tables, k)
    BY <1>1, <1>2, SameModels DEF fields
  <2>4. ~ prune' /\ prune' = prune /\ soft' = soft /\ ub' = ub
    BY <1>1, <1>2 DEF RoundInv, locals
  <2>5. QED
    BY <1>1, <1>2, <1>3, <2>1, <2>2, <2>3, <2>4 DEF RoundInv
<1>8. QED
  BY <1>2, <1>4, <1>5, <1>6, <1>7, NoAnswer DEF SlotGoal

\* What a round ends with.
JudgeNow ==
    /\ SlotNow /\ RoundInv /\ pc = "judge"
    /\ ~ Free /\ freeRow = NumRows
    /\ nextSlot \in Nat /\ nextSlot <= Len(slots) /\ Len(slots) \in Nat
    /\ DOMAIN slots = 1..Len(slots) /\ DOMAIN slotVal = 1..Len(slots)
    /\ slots \in Seq(Cells) /\ slotVal \in Seq({-1, 0, 1})
    /\ decisions \in Seq(DecisionSet) /\ DOMAIN decisions = 1..nextSlot

\* A verdict starts from them.
LEMMA JudgeStarts ==
    ASSUME SlotNow, pc = "judge"
    PROVE  JudgeNow
<1>1. scenario \in Scenarios /\ SlotShape /\ SearchInv /\ RoundInv /\ NumRows \in Nat
  BY TheFormula DEF SlotNow
<1>2. ~ Free /\ freeRow = NumRows
  BY <1>1 DEF SearchInv, Free
<1>3. QED
  BY <1>1, <1>2 DEF JudgeNow, SlotShape, SearchInv, DecisionSet

\* The tables are found.
LEMMA JudgeSatStep ==
    ASSUME JudgeNow, JudgeSat
    PROVE  SlotGoal
<1>1. /\ ~ prune /\ ~ soft /\ answer' = "Sat"
      /\ UNCHANGED <<scenario, fields, locals, slices>>
  BY DEF JudgeSat, TableFound, Return
<1>2. scenario \in Scenarios /\ SlotShape /\ RoundInv /\ mode' = "SlotDpll" /\ pc = "judge"
  BY DEF JudgeNow, SlotNow
<1>3. NumRows' = NumRows /\ Cells' = Cells
  BY <1>1, <1>2, SameFormula
<1>4. SlotShape'
  BY <1>1, <1>2, <1>3 DEF SlotShape, fields, locals
<1>5. \A k \in AllRows : RowAgrees(tables', k)
  BY <1>1, <1>2 DEF RoundInv, AllRows, fields
<1>6. AnswerInv'
  BY <1>1, <1>2, <1>5, SatAnswer
<1>7. QED
  BY <1>1, <1>4, <1>6 DEF SlotGoal

\* On to the next slot.
LEMMA JudgeContinueStep ==
    ASSUME JudgeNow, JudgeContinue
    PROVE  SlotGoal
<1>1. pc' = "decide" /\ UNCHANGED <<scenario, fields, locals, slices, answer>>
  BY DEF JudgeContinue
<1>2. /\ scenario \in Scenarios /\ SlotShape /\ SearchInv /\ SlotLeft /\ answer' = "none"
      /\ ~ Free /\ freeRow = NumRows
  BY <1>1 DEF JudgeNow, SlotNow
<1>3. NumRows' = NumRows /\ Cells' = Cells
  BY <1>1, <1>2, SameFormula
<1>4. SlotShape'
  BY <1>1, <1>2, <1>3 DEF SlotShape, fields, locals
<1>5. SearchInv'
  BY <1>1, <1>2, SearchSame DEF fields, locals, SearchInv
<1>6. SlotLeft'
  BY <1>1, <1>2, LeftSame DEF fields, locals
<1>7. QED
  BY <1>1, <1>2, <1>4, <1>5, <1>6, NoAnswer DEF SlotGoal

\* Where the search turns back without having met an undecided row or another cell,
\* all tables contradict a decision, and one that is ahead contradicts first a
\* decision that can be flipped.
LEMMA Refuted ==
    ASSUME JudgeNow, ~ TableFound, prune \/ AllDecided, ~ anyBudget, Added = {},
           NEW sk \in Models[f], Ahead(sk)
    PROVE  /\ Differs(sk) # {} /\ Min(Differs(sk)) \in Differs(sk)
           /\ \A p \in Differs(sk) : Min(Differs(sk)) <= p
           /\ Min(Differs(sk)) \in Unflipped
<1>1. RoundInv /\ pc = "judge"
  BY DEF JudgeNow
<1>2. prune
  BY <1>1 DEF RoundInv, TableFound
<1>3. Differs(sk) # {}
  BY <1>1, <1>2 DEF RoundInv
<1>4. Differs(sk) \in SUBSET (1..nextSlot) /\ nextSlot \in Nat
  BY DEF Differs, JudgeNow
<1>5. Min(Differs(sk)) \in Differs(sk) /\ \A p \in Differs(sk) : Min(Differs(sk)) <= p
  BY <1>3, <1>4, LeastOf
<1>6. ~ decisions[Min(Differs(sk))].flipped
  BY <1>3, AheadIs DEF AheadIn
<1>7. QED
  BY <1>3, <1>4, <1>5, <1>6 DEF Unflipped, JudgeNow

\* The assignments are exhausted: without an undecided row there are no tables.
LEMMA JudgeExhaustedStep ==
    ASSUME JudgeNow, JudgeExhausted
    PROVE  SlotGoal
<1>1. /\ ~ TableFound /\ (prune \/ AllDecided) /\ Unflipped = {} /\ Added = {}
      /\ decisions' = << >> /\ slotVal' = [p \in DOMAIN slots |-> 0]
      /\ answer' = IF anyBudget THEN "Done" ELSE "Unsat"
      /\ UNCHANGED <<scenario, freeRow, firstSeen, slots, nextSlot, newConflicts, tables, locals>>
  BY DEF JudgeExhausted, Return
<1>2. /\ scenario \in Scenarios /\ SlotShape /\ SlotLeft /\ mode' = "SlotDpll"
      /\ DOMAIN slots = 1..Len(slots) /\ Len(slots) \in Nat
  BY DEF JudgeNow, SlotNow
<1>3. NumRows' = NumRows /\ Cells' = Cells
  BY <1>1, <1>2, SameFormula
<1>4. SlotShape'
  <2>1. slotVal' \in [1..Len(slots) -> {-1, 0, 1}]
    BY <1>1, <1>2
  <2>2. slotVal' \in Seq({-1, 0, 1})
    BY <1>2, <2>1
  <2>3. QED
    BY <1>1, <1>2, <1>3, <2>2 DEF SlotShape, locals
<1>5. answer' = "Unsat" /\ ~ Forgets' => ~ IsTrue(f)'
  <2>1. SUFFICES ASSUME answer' = "Unsat", ~ Forgets', IsTrue(f) PROVE FALSE
    BY <1>1, <1>2, SameModels
  <2>2. ~ anyBudget /\ ~ Forgets /\ Models[f] # {}
    BY <1>1, <1>2, <2>1, SameFormula, TheModels
  <2>3. PICK sk \in Models[f] : Ahead(sk)
    BY <1>1, <1>2, <2>2 DEF SlotLeft, SlotsLeft
  <2>4. Min(Differs(sk)) \in Unflipped
    BY <1>1, <2>2, <2>3, Refuted
  <2>5. QED
    BY <1>1, <2>4
<1>6. AnswerInv'
  BY <1>1, <1>2, <1>5 DEF AnswerInv, SatIsModel, UnsatIsFalse
<1>7. QED
  BY <1>1, <1>4, <1>6 DEF SlotGoal

\* Flipping the latest decision keeps the tables that are ahead.
LEMMA JudgeBacktrackStep ==
    ASSUME JudgeNow, JudgeBacktrack
    PROVE  SlotGoal
<1> DEFINE i == Max(Unflipped)
<1>1. /\ ~ TableFound /\ (prune \/ AllDecided) /\ Unflipped # {} /\ pc' = "decide"
      /\ UNCHANGED <<scenario, freeRow, firstSeen, slots, cegarRound, newConflicts, tables,
                     locals, slices, answer>>
  BY DEF JudgeBacktrack
<1>2. /\ scenario \in Scenarios /\ SlotShape /\ SearchInv /\ SlotLeft /\ answer' = "none"
      /\ ~ Free /\ freeRow = NumRows
      /\ nextSlot \in Nat /\ nextSlot <= Len(slots) /\ Len(slots) \in Nat
      /\ DOMAIN slots = 1..Len(slots) /\ DOMAIN slotVal = 1..Len(slots)
      /\ slotVal \in Seq({-1, 0, 1})
      /\ decisions \in Seq(DecisionSet) /\ DOMAIN decisions = 1..nextSlot
  BY <1>1 DEF JudgeNow, SlotNow
<1>3. i \in Unflipped /\ i \in 1..nextSlot /\ \A p \in Unflipped : p <= i
  <2>1. Unflipped \subseteq 1..nextSlot
    BY <1>2 DEF Unflipped
  <2>2. QED
    BY <1>1, <1>2, <2>1, GreatestOf
<1>4. decisions[i].slot = i /\ ~ decisions[i].flipped /\ i \in Nat \ {0}
  BY <1>2, <1>3 DEF SearchInv, Unflipped
<1>5. /\ decisions' = Append(SubSeq(decisions, 1, i - 1), Decision(i, TRUE))
      /\ slotVal' = [p \in DOMAIN slots |->
                        IF p < i THEN slotVal[p] ELSE IF p = i THEN -slotVal[p] ELSE 0]
      /\ nextSlot' = i
  BY <1>4 DEF JudgeBacktrack, Decision
<1> HIDE DEF i
<1>6. /\ decisions' \in Seq(DecisionSet) /\ Len(decisions') = i
      /\ \A p \in 1..i - 1 : decisions'[p] = decisions[p]
      /\ decisions'[i] = Decision(i, TRUE)
  <2>1. Decision(i, TRUE) \in DecisionSet
    BY <1>4, DecisionFields
  <2>2. i \in 1..Len(decisions) /\ decisions \in Seq(DecisionSet)
    BY <1>2, <1>3
  <2>3. Replaced(DecisionSet, decisions, i, Decision(i, TRUE), decisions')
    BY <1>5, <2>1, <2>2, Replaces
  <2>4. QED
    BY <2>3 DEF Replaced
<1>7. \A p \in DOMAIN decisions' : decisions'[p].slot = p
  <2>1. ASSUME NEW p \in 1..i PROVE decisions'[p].slot = p
    <3>1. CASE p = i
      BY <1>4, <1>6, <3>1, DecisionFields
    <3>2. CASE p \in 1..i - 1
      <4>1. decisions[p].slot = p
        BY <1>2, <1>3, <3>2 DEF SearchInv
      <4>2. QED
        BY <1>6, <3>2, <4>1
    <3>3. QED
      BY <1>4, <3>1, <3>2
  <2>2. DOMAIN decisions' = 1..i
    BY <1>6
  <2>3. QED
    BY <2>1, <2>2
<1>8. /\ \A p \in 1..Len(slots) : slotVal[p] \in {-1, 0, 1} /\ (slotVal[p] # 0 <=> p <= nextSlot)
  BY <1>2 DEF SearchInv
<1>9. \A p \in 1..Len(slots) : slotVal'[p] \in {-1, 0, 1} /\ (slotVal'[p] # 0 <=> p <= i)
  <2>1. ASSUME NEW p \in 1..Len(slots)
        PROVE  slotVal'[p] \in {-1, 0, 1} /\ (slotVal'[p] # 0 <=> p <= i)
    <3>1. slotVal'[p] = IF p < i THEN slotVal[p] ELSE IF p = i THEN -slotVal[p] ELSE 0
      BY <1>2, <1>5
    <3>2. QED
      BY <1>2, <1>3, <1>4, <1>8, <3>1
  <2>2. QED
    BY <2>1
<1>10. slotVal' \in Seq({-1, 0, 1}) /\ DOMAIN slotVal' = 1..Len(slots)
  <2>1. slotVal' \in [1..Len(slots) -> {-1, 0, 1}]
    BY <1>2, <1>5, <1>9
  <2>2. QED
    BY <1>2, <2>1
<1>11. NumRows' = NumRows /\ Cells' = Cells /\ NumRows \in Nat
       /\ Exs' = Exs /\ \A y, k : Cell(y, k)' = Cell(y, k)
  BY <1>1, <1>2, SameFormula, TheFormula
<1>12. SlotShape'
  BY <1>1, <1>2, <1>4, <1>5, <1>6, <1>10, <1>11 DEF SlotShape, locals, DecisionSet
<1>13. SearchInv'
  <2>1. ~ Free' /\ freeRow' = NumRows'
    BY <1>1, <1>2, <1>11 DEF Free
  <2>2. \A k : RowAgrees(firstSeen, k)' <=> RowAgrees(firstSeen, k)
    BY <1>1, <1>2, SameModels
  <2>3. \A p \in DOMAIN slotVal' : slotVal'[p] # 0 <=> p <= nextSlot'
    BY <1>5, <1>9, <1>10
  <2>4. nextSlot' <= Len(slots') /\ Len(decisions') = nextSlot'
    BY <1>1, <1>2, <1>3, <1>5, <1>6
  <2>5. DOMAIN slotVal' = DOMAIN slots'
    BY <1>1, <1>2, <1>10
  <2>6. QED
    BY <1>1, <1>2, <1>7, <1>11, <2>1, <2>2, <2>3, <2>4, <2>5 DEF SearchInv, locals
<1>14. SlotLeft'
  <2>1. SUFFICES ASSUME ~ Forgets', Models[f]' # {}, ~ anyBudget', Added' = {}
                 PROVE  \E sk \in Models[f]' : Ahead(sk)'
    BY DEF SlotLeft, SlotsLeft
  <2>2. Models[f]' = Models[f] /\ Forgets' = Forgets /\ Added' = Added /\ anyBudget' = anyBudget
    BY <1>1, <1>2, SameModels, SameFormula DEF Added, InSlot, locals
  <2>3. PICK sk \in Models[f] : Ahead(sk)
    BY <1>2, <2>1, <2>2 DEF SlotLeft, SlotsLeft
  <2> DEFINE D == Differs(sk)
             E == Differs(sk)'
             d == Min(D)
             S(p) == SlotValue(sk, p)
  <2>4. D # {} /\ d \in D /\ (\A p \in D : d <= p) /\ d \in Unflipped
    BY <1>1, <2>1, <2>2, <2>3, Refuted
  <2>5. d <= i /\ d \in 1..nextSlot /\ ~ decisions[d].flipped
    BY <1>3, <2>4 DEF Differs, Unflipped
  <2>6. \A p : p \in D <=> p \in 1..nextSlot /\ S(p) # slotVal[p]
    BY DEF Differs
  <2>7. \A p : p \in E <=> p \in 1..i /\ S(p) # slotVal'[p]
    <3>1. \A p : SlotValue(sk, p)' = SlotValue(sk, p)
      BY <1>1 DEF SlotValue
    <3>2. QED
      BY <1>5, <3>1 DEF Differs
  <2>8. \A p \in 1..i - 1 : slotVal'[p] = slotVal[p] /\ p \in 1..nextSlot
    BY <1>2, <1>3, <1>5
  <2>9. slotVal'[i] = -slotVal[i] /\ slotVal[i] \in {-1, 1} /\ S(i) \in {-1, 1}
    <3>1. i \in DOMAIN slots /\ ~ (i < i)
      BY <1>2, <1>3
    <3>2. slotVal'[i] = -slotVal[i]
      BY <1>5, <3>1
    <3>3. slotVal[i] \in {-1, 1}
      BY <1>2, <1>3, <1>8, <3>1
    <3>4. QED
      BY <3>2, <3>3 DEF SlotValue
  <2>10. \A p \in 1..i : p \in 1..i - 1 \/ p = i
    BY <1>4
  <2> HIDE DEF D, E, d, S
  <2>11. CASE d = i
    <3>1. \A p \in 1..i - 1 : p \notin E
      BY <1>4, <2>4, <2>6, <2>7, <2>8, <2>11
    <3>2. i \notin E
      BY <2>4, <2>6, <2>7, <2>9, <2>11
    <3>3. E = {}
      BY <2>7, <2>10, <3>1, <3>2
    <3>4. QED
      BY <2>2, <3>3, AheadIs DEF AheadIn, E
  <2>12. CASE d \in 1..i - 1
    <3>1. d \in E
      BY <1>4, <2>4, <2>6, <2>7, <2>8, <2>12
    <3>2. E \in SUBSET (1..i) /\ i \in Nat
      BY <1>4, <2>7
    <3>3. Min(E) \in E /\ Min(E) \in 1..i /\ \A p \in E : Min(E) <= p
      BY <3>1, <3>2, LeastOf
    <3> DEFINE e == Min(E)
    <3>4. e \in E /\ e \in 1..i /\ e <= d
      BY <3>1, <3>3
    <3> HIDE DEF e
    <3>5. e \in 1..i - 1
      BY <1>4, <2>12, <3>4
    <3>6. e \in D
      BY <2>6, <2>7, <2>8, <3>4, <3>5
    <3>7. e = d
      BY <2>4, <2>12, <3>4, <3>5, <3>6
    <3>8. ~ decisions'[e].flipped
      BY <1>6, <2>5, <2>12, <3>7
    <3>9. QED
      BY <2>2, <3>8, AheadIs DEF AheadIn, E, e
  <2>13. QED
    BY <1>4, <2>5, <2>11, <2>12
<1>15. QED
  BY <1>1, <1>2, <1>12, <1>13, <1>14, NoAnswer DEF SlotGoal

\* Starting over with further slots, nothing is decided.
LEMMA JudgeRefineStep ==
    ASSUME JudgeNow, JudgeRefine
    PROVE  SlotGoal
<1> DEFINE K == Cardinality(Added)
<1>1. /\ Added # {} /\ decisions' = << >>
      /\ UNCHANGED <<scenario, freeRow, firstSeen, tables, locals, slices>>
  BY DEF JudgeRefine
<1>2. /\ scenario \in Scenarios /\ SlotShape /\ SearchInv /\ answer = "none" /\ mode' = "SlotDpll"
      /\ ~ Free /\ freeRow = NumRows
      /\ Len(slots) \in Nat /\ DOMAIN slots = 1..Len(slots) /\ slots \in Seq(Cells)
  BY DEF JudgeNow, SlotNow
<1>3. NumRows' = NumRows /\ Cells' = Cells /\ NumRows \in Nat
      /\ Exs' = Exs /\ \A y, k : Cell(y, k)' = Cell(y, k)
  BY <1>1, <1>2, SameFormula, TheFormula
<1>4. CASE cegarRound' >= MaxRounds
  <2>1. /\ answer' = "Done" /\ slotVal' = [p \in DOMAIN slots |-> 0]
        /\ UNCHANGED <<slots, nextSlot, newConflicts>>
    BY <1>4 DEF JudgeRefine, Return
  <2>2. slotVal' \in [1..Len(slots) -> {-1, 0, 1}]
    BY <1>2, <2>1
  <2>3. slotVal' \in Seq({-1, 0, 1})
    BY <1>2, <2>2
  <2>4. SlotShape'
    BY <1>1, <1>2, <1>3, <2>1, <2>3 DEF SlotShape, locals
  <2>5. QED
    BY <2>1, <2>4 DEF SlotGoal, AnswerInv, SatIsModel, UnsatIsFalse
<1>5. CASE ~ (cegarRound' >= MaxRounds)
  <2>1. PICK order \in [1..K -> Added] :
          {order[j] : j \in DOMAIN order} = Added /\ slots' = slots \o order
    BY <1>5 DEF JudgeRefine
  <2>2. /\ slotVal' = [p \in DOMAIN slots' |-> 0] /\ nextSlot' = 0 /\ newConflicts' = {}
        /\ pc' = "decide" /\ answer' = answer
    BY <1>5 DEF JudgeRefine
  <2>3. Added \subseteq Cells /\ IsFiniteSet(Added) /\ K \in Nat
    <3>1. Added \subseteq Cells
      BY <1>2 DEF Added, SlotShape
    <3>2. QED
      BY <1>2, <3>1, FiniteCells, FS_CardinalityType
  <2> HIDE DEF K
  <2>4. \A j, k \in 1..K : order[j] = order[k] => j = k
    <3>1. order \in Surjection(1..K, Added)
      <4>1. \A c \in Added : \E j \in 1..K : order[j] = c
        BY <2>1
      <4>2. QED
        BY <4>1 DEF Surjection
    <3>2. IsFiniteSet(1..K) /\ Cardinality(1..K) = K
      <4>1. 1 \in Int /\ K \in Int
        BY <2>3
      <4>2. QED
        BY <2>3, <4>1, FS_Interval
    <3>3. Cardinality(1..K) = Cardinality(Added)
      BY <3>2 DEF K
    <3>4. order \in Injection(1..K, Added)
      BY <2>3, <3>1, <3>2, <3>3, FS_SurjSameCardinalityImpliesInj
    <3>5. QED
      BY <3>4 DEF Injection, IsInjective
  <2>5. order \in Seq(Cells) /\ Len(order) = K
    <3>1. order \in [1..K -> Cells]
      BY <2>3
    <3>2. QED
      BY <2>3, <3>1
  <2>6. Joined(Cells, slots, order, slots')
    BY <1>2, <2>1, <2>5, Appends
  <2>7. /\ slots' \in Seq(Cells) /\ Len(slots') = Len(slots) + K
        /\ \A p \in 1..Len(slots) : slots'[p] = slots[p]
        /\ \A j \in 1..K : slots'[Len(slots) + j] = order[j]
    BY <2>5, <2>6 DEF Joined
  <2>8. DOMAIN slots' = 1..Len(slots')
    BY <2>7
  <2>9. \A p \in DOMAIN slots' : p \in 1..Len(slots) \/ \E j \in 1..K : p = Len(slots) + j
    <3>1. ASSUME NEW p \in 1..Len(slots') PROVE p \in 1..Len(slots) \/ \E j \in 1..K : p = Len(slots) + j
      <4>1. CASE p <= Len(slots)
        BY <1>2, <4>1
      <4>2. CASE p > Len(slots)
        <5>1. p - Len(slots) \in 1..K /\ p = Len(slots) + (p - Len(slots))
          BY <1>2, <2>3, <2>7, <4>2
        <5>2. QED
          BY <5>1
      <4>3. QED
        BY <1>2, <4>1, <4>2
    <3>2. QED
      BY <2>8, <3>1
  <2>10. \A p, q \in DOMAIN slots' : slots'[p] = slots'[q] => p = q
    <3>1. \A p \in 1..Len(slots), j \in 1..K : slots'[p] # slots'[Len(slots) + j]
      <4>1. \A p \in 1..Len(slots) : slots[p] \notin Added
        BY <1>2 DEF Added, InSlot
      <4>2. QED
        BY <2>7, <4>1
    <3>2. \A p, q \in 1..Len(slots) : slots'[p] = slots'[q] => p = q
      BY <1>2, <2>7 DEF SlotShape
    <3>3. \A j, k \in 1..K : slots'[Len(slots) + j] = slots'[Len(slots) + k] => j = k
      BY <2>4, <2>7
    <3>4. QED
      BY <2>9, <3>1, <3>2, <3>3
  <2>11. slotVal' \in Seq({-1, 0, 1}) /\ DOMAIN slotVal' = DOMAIN slots'
    <3>1. slotVal' \in [1..Len(slots') -> {-1, 0, 1}] /\ Len(slots') \in Nat
      BY <2>2, <2>7, <2>8
    <3>2. QED
      BY <2>2, <3>1
  <2>12. decisions' \in Seq([slot : Nat, flipped : BOOLEAN]) /\ Len(decisions') = 0
    BY <1>1
  <2>13. SlotShape'
    BY <1>1, <1>2, <1>3, <2>2, <2>7, <2>10, <2>11, <2>12 DEF SlotShape, locals
  <2>14. ASSUME NEW p \in DOMAIN slots' PROVE firstSeen'[slots'[p]] # 0
    <3>1. slots'[p] \in Cells
      BY <2>7
    <3>2. PICK n \in AllRows : slots'[p] = Cell(slots'[p][1], n) /\ slots'[p][1] \in Exs
      BY <1>2, <3>1, CellNames
    <3>3. n \in 0..freeRow - 1
      BY <1>2 DEF AllRows
    <3>4. firstSeen[slots'[p]] # 0
      BY <1>2, <3>2, <3>3 DEF SearchInv
    <3>5. QED
      BY <1>1, <3>4
  <2>15. SearchInv'
    <3>1. ~ Free' /\ freeRow' = NumRows'
      BY <1>1, <1>2, <1>3, <2>2 DEF Free
    <3>2. \A k : RowAgrees(firstSeen, k)' <=> RowAgrees(firstSeen, k)
      BY <1>1, <1>2, SameModels
    <3>3. slots' = << >> => slots = << >>
      BY <1>2, <2>3, <2>7
    <3>4. \A p \in DOMAIN slotVal' : slotVal'[p] # 0 <=> p <= nextSlot'
      BY <2>2, <2>8, <2>11
    <3>5. nextSlot' <= Len(slots') /\ Len(decisions') = nextSlot' /\ DOMAIN decisions' = {}
      BY <1>1, <1>2, <2>2, <2>3, <2>7
    <3>6. QED
      BY <1>1, <1>2, <1>3, <2>11, <2>14, <3>1, <3>2, <3>3, <3>4, <3>5 DEF SearchInv, locals
  <2>16. SlotLeft'
    <3>1. \A sk : Ahead(sk)'
      BY <2>2 DEF Ahead
    <3>2. QED
      BY <3>1 DEF SlotLeft, SlotsLeft
  <2>17. QED
    BY <1>2, <2>2, <2>13, <2>15, <2>16, NoAnswer DEF SlotGoal
<1>6. QED
  BY <1>4, <1>5

\* Time runs out in the slot search.
LEMMA SlotPendingStep ==
    ASSUME SlotNow, SlotPending
    PROVE  SlotGoal
<1>1. pc' = "pending" /\ UNCHANGED <<scenario, fields, locals, answer>>
  BY DEF SlotPending, PendingInFreePass, PendingInLoop, PendingInRows, Pending
<1>2. scenario \in Scenarios /\ SlotShape /\ SearchInv /\ SlotLeft /\ answer' = "none"
  BY <1>1 DEF SlotNow
<1>3. NumRows' = NumRows /\ Cells' = Cells /\ Exs' = Exs /\ NumRows \in Nat
      /\ \A y, k : Cell(y, k)' = Cell(y, k)
  BY <1>1, <1>2, SameFormula, TheFormula
<1>4. SlotShape'
  BY <1>1, <1>2, <1>3 DEF SlotShape, fields, locals
<1>5. SlotLeft'
  BY <1>1, <1>2, LeftSame DEF fields, locals
<1>6. SearchInv'
  <2>1. CASE PendingInFreePass
    <3>1. Free /\ Free'
      BY <1>1, <1>3, <2>1 DEF Free, PendingInFreePass, fields
    <3>2. \A k : RowAgrees(firstSeen, k)' <=> RowAgrees(firstSeen, k)
      BY <1>1, <1>2, SameModels DEF fields
    <3>3. QED
      BY <1>1, <1>2, <1>3, <3>1, <3>2 DEF SearchInv, fields, locals
  <2>2. CASE PendingInLoop \/ PendingInRows
    <3>1. freeRow = NumRows /\ ~ Free
      BY <1>2, <1>3, <2>2 DEF PendingInLoop, PendingInRows, SearchInv, Free
    <3>2. anyBudget' => scenario.budgetHits
      BY <1>1, <1>2 DEF SearchInv, locals
    <3>3. QED
      BY <1>1, <1>2, <3>1, <3>2, SearchSame DEF fields
  <2>3. QED
    BY <2>1, <2>2 DEF SlotPending
<1>7. QED
  BY <1>1, <1>2, <1>4, <1>5, <1>6, NoAnswer DEF SlotGoal

\* Every step of the slot search.
LEMMA SlotMoveStep ==
    ASSUME ControlInv, SlotInv, SlotMove
    PROVE  SlotInv' /\ AnswerInv'
<1>1. SlotNow /\ mode' = "SlotDpll"
  BY SlotStarts DEF SlotNow
<1>2. SlotGoal
  <2>1. CASE \E m \in [Exs -> {-1, 1}] : FreeModel(m) \/ RowModel(m)
    <3>1. PICK m : FreeModel(m) \/ RowModel(m)
      BY <2>1
    <3>2. CASE FreeModel(m)
      <4>1. answer' = "none"
        BY <1>1, <3>2 DEF FreeModel, SlotNow
      <4>2. QED
        BY <1>1, <3>2, <4>1, FreeModelStep, NoAnswer DEF SlotGoal
    <3>3. CASE RowModel(m)
      BY <1>1, <3>3, RowModelStep
    <3>4. QED
      BY <3>1, <3>2, <3>3
  <2>2. CASE \E budgetHit \in BOOLEAN : FreeFailure(budgetHit) \/ RowFailure(budgetHit)
    BY <1>1, <2>2, FreeFailureStep, RowFailureStep
  <2>3. CASE FreePassDone \/ Decide \/ RowsDone
    BY <1>1, <2>3, FreePassDoneStep, DecideStep, RowsDoneStep
  <2>4. CASE JudgeSat \/ JudgeContinue \/ JudgeBacktrack \/ JudgeExhausted \/ JudgeRefine
    <3>1. JudgeNow
      BY <1>1, <2>4, JudgeStarts DEF JudgeSat, JudgeContinue, JudgeBacktrack, JudgeExhausted,
         JudgeRefine
    <3>2. QED
      BY <2>4, <3>1, JudgeSatStep, JudgeContinueStep, JudgeBacktrackStep, JudgeExhaustedStep,
         JudgeRefineStep
  <2>5. CASE SlotPending
    BY <1>1, <2>5, SlotPendingStep
  <2>6. QED
    BY <2>1, <2>2, <2>3, <2>4, <2>5 DEF SlotMove, SlotStep
<1>3. QED
  BY <1>1, <1>2 DEF SlotGoal, SlotInv

\* The other searches leave the slots as they are.
SlotRest == <<freeRow, firstSeen, slots, slotVal, decisions, nextSlot, newConflicts, anyBudget,
              prune, soft>>

\* So a search that has not started stays so.
LEMMA OtherModes ==
    ASSUME scenario \in Scenarios, scenario' = scenario, SlotInv, UNCHANGED SlotRest,
           mode # "SlotDpll", mode' # "SlotDpll",
           ub' \in 0..NumRows, tables' \in [Cells -> {-1, 0, 1}]
    PROVE  SlotInv'
<1>1. NumRows' = NumRows /\ Cells' = Cells
  BY SameFormula
<1>2. SlotShape'
  BY <1>1 DEF SlotInv, SlotShape, SlotRest
<1>3. SlotStart'
  BY <1>1 DEF SlotInv, SlotStart, SlotRest
<1>4. QED
  BY <1>2, <1>3 DEF SlotInv

\* Nor does a new call change them, and it starts where the last one was.
LEMMA SlotResume ==
    ASSUME ControlInv, SlotInv, Resume
    PROVE  SlotInv'
<1>1. /\ pc = "pending" /\ UNCHANGED fields /\ mode' = mode /\ answer' = answer /\ pc' = Entry(mode)
      /\ iters' = 0 /\ anyBudget' = FALSE /\ ub' = 0 /\ prune' = FALSE /\ soft' = FALSE
      /\ scenario' = scenario /\ scenario \in Scenarios /\ SlotShape
  BY DEF Resume, FreshLocals, ControlInv, SlotInv
<1>2. NumRows' = NumRows /\ Cells' = Cells /\ Exs' = Exs /\ NumRows \in Nat
      /\ \A y, k : Cell(y, k)' = Cell(y, k)
  BY <1>1, SameFormula, TheFormula
<1>3. SlotShape'
  <2>1. ub' \in 0..NumRows'
    BY <1>1, <1>2
  <2>2. anyBudget' \in BOOLEAN /\ prune' \in BOOLEAN /\ soft' \in BOOLEAN
    BY <1>1, Zenon
  <2>3. QED
    BY <1>1, <1>2, <2>1, <2>2 DEF SlotShape, fields
<1>4. CASE mode # "SlotDpll"
  <2>1. SlotStart'
    BY <1>1, <1>2, <1>4 DEF SlotInv, SlotStart, fields
  <2>2. QED
    BY <1>1, <1>3, <1>4, <2>1 DEF SlotInv
<1>5. CASE mode = "SlotDpll"
  <2>1. answer = "none" /\ SearchInv /\ SlotLeft
    BY <1>1, <1>5 DEF SlotInv, ControlInv
  <2>2. pc' = IF freeRow < NumRows THEN "free" ELSE "decide"
    BY <1>1, <1>5 DEF Entry, SlotEntry
  <2>3. freeRow' = freeRow /\ freeRow \in 0..NumRows
    BY <1>1 DEF SlotShape, fields
  <2>4. Free' <=> Free
    BY <1>1, <1>2, <2>2, <2>3 DEF Free
  <2>5. \A k : RowAgrees(firstSeen, k)' <=> RowAgrees(firstSeen, k)
    BY <1>1, SameModels DEF fields
  <2>6. SearchInv'
    <3>1. pc' \in {"decide", "rows", "judge"} => freeRow' = NumRows'
      BY <1>2, <2>2, <2>3
    <3>2. QED
      BY <1>1, <1>2, <2>1, <2>4, <2>5, <3>1 DEF SearchInv, fields
  <2>7. ~ Forgets => ~ anyBudget
    <3>1. scenario.slices > 0
      BY <1>1 DEF ControlInv
    <3>2. QED
      BY <2>1, <3>1 DEF Forgets, SearchInv
  <2>8. SlotLeft'
    BY <1>1, <2>1, <2>7, LeftSame DEF fields
  <2>9. pc' \notin {"rows", "judge"}
    BY <2>2
  <2>10. QED
    BY <1>1, <1>3, <1>5, <2>6, <2>8, <2>9 DEF SlotInv
<1>6. QED
  BY <1>4, <1>5

\* Definability hands over a search that has not started.
LEMMA SlotBail ==
    ASSUME ControlInv, SlotInv, Bail
    PROVE  SlotInv'
<1>1. /\ UNCHANGED <<scenario, fields, locals, answer>> /\ mode' \in {"Partial", "SlotDpll"}
      /\ pc' = Entry(mode') /\ mode = "Definability"
      /\ scenario \in Scenarios /\ SlotShape /\ SlotStart
  BY OtherControl DEF Bail, ControlInv, SlotInv
<1>2. NumRows' = NumRows /\ Cells' = Cells /\ Exs' = Exs /\ NumRows \in Nat \ {0}
      /\ \A y, k : Cell(y, k)' = Cell(y, k)
  BY <1>1, SameFormula, TheFormula
<1>3. SlotShape' /\ SlotStart'
  BY <1>1, <1>2 DEF SlotShape, SlotStart, fields, locals
<1>4. mode' = "SlotDpll" => pc' = "free"
  BY <1>1, <1>2 DEF Entry, SlotEntry, SlotStart, fields
<1>5. mode' = "SlotDpll" => SearchInv' /\ SlotLeft'
  <2>1. SUFFICES ASSUME mode' = "SlotDpll" PROVE SearchInv' /\ SlotLeft'
    OBVIOUS
  <2>2. pc' = "free" /\ freeRow' = 0 /\ slots' = << >> /\ slotVal' = << >> /\ decisions' = << >>
        /\ nextSlot' = 0 /\ anyBudget' = FALSE
    BY <1>3, <1>4, <2>1 DEF SlotStart
  <2>3. Free' /\ 0..freeRow' - 1 = {} /\ DOMAIN slots' = {} /\ DOMAIN slotVal' = {}
        /\ DOMAIN decisions' = {} /\ Len(slots') = 0 /\ Len(decisions') = 0
    BY <2>2 DEF Free
  <2>4. SearchInv'
    BY <2>2, <2>3 DEF SearchInv
  <2>5. \A sk : Ahead(sk)'
    BY <2>2 DEF Ahead
  <2>6. QED
    BY <2>4, <2>5 DEF SlotLeft, SlotsLeft
<1>6. QED
  BY <1>1, <1>3, <1>4, <1>5 DEF SlotInv

-----------------------------------------------------------------------------
(* The search over the outer existentials.                                 *)

\* The picker may return the outer part of any tables that are a model.
LEMMA PickerAllows ==
    ASSUME scenario \in Scenarios, OuterSound, NEW sk \in Models[f]
    PROVE  OuterPart(sk) \in Picks
<1> DEFINE p == OuterPart(sk)
<1>1. Outer \subseteq Exs /\ \A y \in Outer : f.dependencies[y] = {}
  BY DEF Outer
<1>2. p \in [Outer -> {-1, 1}]
  BY <1>1 DEF OuterPart, RowOf
<1>3. \A b \in blocks : \E l \in b : Agrees(p, l)
  BY DEF OuterSound
<1>4. ASSUME NEW n \in loaded
      PROVE  \E m \in [Exs -> {-1, 1}] :
                /\ \A y \in Outer : m[y] = p[y]
                /\ \A c \in Copy(n) : \E l \in c : Agrees(m, l)
  <2> DEFINE m == RowOf(sk, n)
  <2>1. m \in RowModels(n, {})
    BY RowOfModel
  <2>2. m \in [Exs -> {-1, 1}] /\ \A c \in f.clauses : \E l \in c : Satisfies(m, n, l)
    BY <2>1 DEF RowModels
  <2>3. \A y \in Outer : m[y] = p[y]
    BY <1>1 DEF OuterPart, RowOf, Key
  <2>4. ASSUME NEW c \in Copy(n) PROVE \E l \in c : Agrees(m, l)
    <3>1. c \in Residual(n)
      BY DEF Copy
    <3>2. PICK d \in f.clauses :
            /\ ~ \E l \in d : IsUniversal(f, Var(l)) /\ Row(n)[Var(l)] = (l > 0)
            /\ c = {l \in d : ~ IsUniversal(f, Var(l))}
      BY <3>1 DEF Residual
    <3>3. PICK l \in d : Satisfies(m, n, l)
      BY <2>2
    <3>4. ~ IsUniversal(f, Var(l))
      BY <3>2, <3>3 DEF Satisfies
    <3> HIDE DEF m
    <3>5. QED
      BY <3>2, <3>3, <3>4 DEF Satisfies, Agrees
  <2> HIDE DEF m
  <2>5. QED
    BY <2>2, <2>3, <2>4
<1> HIDE DEF p
<1>5. QED
  BY <1>2, <1>3, <1>4 DEF Picks, p

\* The table of an outer existential has one entry.
LEMMA OuterTables ==
    ASSUME scenario \in Scenarios, NEW sk \in Models[f], NEW y \in Outer, NEW k \in DOMAIN sk[y]
    PROVE  sk[y][k] = (OuterPart(sk)[y] = 1)
<1>1. y \in Exs /\ f.dependencies[y] = {} /\ sk \in SkolemTuples(f)
  BY TheModels DEF Outer
<1>2. k = Key(Row(0), f.dependencies[y])
  <2>1. k \in [{} -> BOOLEAN] /\ Key(Row(0), f.dependencies[y]) \in [{} -> BOOLEAN]
    BY <1>1, TableLookup
  <2>2. QED
    BY <2>1
<1>3. sk[y][k] \in BOOLEAN
  BY <1>1, <1>2, TableLookup
<1>4. OuterPart(sk)[y] = IF sk[y][k] THEN 1 ELSE -1
  BY <1>1, <1>2 DEF OuterPart, RowOf
<1>5. QED
  BY <1>3, <1>4

\* So nothing is lost.
LEMMA PickerLeft ==
    ASSUME scenario \in Scenarios, OuterSound, Models[f] # {}
    PROVE  PicksLeft
BY PickerAllows, OuterTables DEF PicksLeft

\* A clause that excludes a choice that refutes a row excludes no model.
LEMMA BlockSound ==
    ASSUME scenario \in Scenarios, NEW sk \in Models[f], NEW ys \in SUBSET Outer, NEW n,
           pins \in [Outer -> {-1, 1}], ~ Solvable(n, PinsOf(ys))
    PROVE  \E l \in BlockingClause(ys) : Agrees(OuterPart(sk), l)
<1>1. SUFFICES ASSUME \A l \in BlockingClause(ys) : ~ Agrees(OuterPart(sk), l) PROVE FALSE
  OBVIOUS
<1>2. RowOf(sk, n) \in RowModels(n, {})
  BY RowOfModel
<1>3. ASSUME NEW y \in ys PROVE RowOf(sk, n)[y] = pins[y]
  <2> DEFINE l == -(y * pins[y])
             v == OuterPart(sk)[y]
  <2>1. y \in Exs /\ f.dependencies[y] = {} /\ y \in Nat \ {0}
    BY TheFormula DEF Outer
  <2>2. pins[y] \in {-1, 1}
    OBVIOUS
  <2>3. RowOf(sk, n)[y] = v /\ v \in {-1, 1}
    BY <2>1 DEF OuterPart, RowOf, Key
  <2>4. ~ Agrees(OuterPart(sk), l)
    BY <1>1 DEF BlockingClause
  <2>5. Var(l) = y /\ (l > 0 <=> pins[y] = -1)
    BY <2>1, <2>2 DEF Var
  <2>6. ~ ((v > 0) = (l > 0))
    BY <2>4, <2>5 DEF Agrees
  <2> HIDE DEF l, v
  <2>7. CASE pins[y] = 1
    <3>1. ~ (l > 0)
      BY <2>5, <2>7
    <3>2. v > 0
      BY <2>6, <3>1
    <3>3. v = 1
      BY <2>3, <3>2
    <3>4. QED
      BY <2>3, <2>7, <3>3
  <2>8. CASE pins[y] = -1
    <3>1. l > 0
      BY <2>5, <2>8
    <3>2. ~ (v > 0)
      BY <2>6, <3>1
    <3>3. v = -1
      BY <2>3, <3>2
    <3>4. QED
      BY <2>3, <2>8, <3>3
  <2>9. QED
    BY <2>2, <2>7, <2>8
<1>4. RowOf(sk, n) \in RowModels(n, PinsOf(ys))
  BY <1>2, <1>3 DEF RowModels, PinsOf
<1>5. QED
  BY <1>4 DEF Solvable

\* Two rows share no cell but those of the outer existentials.
LEMMA CellsApart ==
    ASSUME scenario \in Scenarios, Eae, NEW y \in Exs \ Outer, NEW n \in AllRows, NEW k \in AllRows,
           Cell(y, n) = Cell(y, k)
    PROVE  n = k
<1>1. f.dependencies[y] = f.universals
  BY DEF Eae, Outer
<1>2. Key(Row(n), f.universals) = Key(Row(k), f.universals)
  BY <1>1, CellNames
<1>3. Row(n) = Row(k)
  BY <1>2 DEF Key, Row
<1>4. QED
  BY <1>3, RowNames

\* A row is scanned: its cells get the model.
LEMMA ScanFills ==
    ASSUME scenario \in Scenarios, Eae, tables \in [Cells -> {-1, 0, 1}], NEW n \in AllRows,
           \A c \in Cells : tables[c] # 0 => \E k \in 0..n - 1 : c = Cell(c[1], k),
           NEW m \in [Exs -> {-1, 1}]
    PROVE  /\ \A y \in Exs \ Outer : Filled(tables, m, n)[Cell(y, n)] = m[y]
           /\ \A y \in Exs \ Outer, k \in 0..n - 1 :
                 Filled(tables, m, n)[Cell(y, k)] = tables[Cell(y, k)]
           /\ \A c \in Cells :
                 Filled(tables, m, n)[c] # 0 => \E k \in 0..n : c = Cell(c[1], k)
<1>1. n \in Nat /\ n < NumRows /\ NumRows \in Nat /\ 0..n - 1 \subseteq AllRows
  BY TheFormula DEF AllRows
<1>2. \A c \in Cells : Filled(tables, m, n)[c] = IF tables[c] = 0 /\ c = Cell(c[1], n) THEN m[c[1]] ELSE tables[c]
  BY DEF Filled
<1>3. \A y \in Exs, k \in AllRows : Cell(y, k) \in Cells /\ Cell(y, k)[1] = y
  BY CellNames
<1>4. ASSUME NEW y \in Exs \ Outer PROVE tables[Cell(y, n)] = 0
  <2>1. SUFFICES ASSUME NEW k \in 0..n - 1, Cell(y, n) = Cell(y, k) PROVE FALSE
    BY <1>3
  <2>2. n = k
    BY <1>1, <2>1, CellsApart
  <2>3. QED
    BY <1>1, <2>1, <2>2
<1>5. ASSUME NEW y \in Exs \ Outer, NEW k \in 0..n - 1
      PROVE  Filled(tables, m, n)[Cell(y, k)] = tables[Cell(y, k)]
  <2>1. k \in AllRows /\ k # n
    BY <1>1
  <2>2. Cell(y, k) # Cell(y, n)
    BY <2>1, CellsApart
  <2>3. QED
    BY <1>2, <1>3, <2>1, <2>2
<1>6. ASSUME NEW c \in Cells, Filled(tables, m, n)[c] # 0 PROVE \E k \in 0..n : c = Cell(c[1], k)
  <2>1. CASE tables[c] # 0
    <3>1. PICK k \in 0..n - 1 : c = Cell(c[1], k)
      BY <2>1
    <3>2. k \in 0..n
      BY <1>1
    <3>3. QED
      BY <3>1, <3>2
  <2>2. CASE tables[c] = 0
    <3>1. c = Cell(c[1], n)
      BY <1>2, <1>6, <2>2
    <3>2. n \in 0..n
      BY <1>1
    <3>3. QED
      BY <3>1, <3>2
  <2>3. QED
    BY <2>1, <2>2
<1>7. QED
  BY <1>2, <1>3, <1>4, <1>5, <1>6

\* The lesser of two numbers.
LEMMA LeastOfTwo ==
    ASSUME NEW a \in Nat, NEW b \in Nat
    PROVE  Min({a, b}) \in Nat /\ Min({a, b}) <= a /\ Min({a, b}) <= b
<1>1. Min({a, b}) \in {a, b} /\ \A y \in {a, b} : Min({a, b}) <= y
  <2>1. \E x \in {a, b} : \A y \in {a, b} : x <= y
    <3>1. CASE a <= b
      BY <3>1
    <3>2. CASE b <= a
      BY <3>2
    <3>3. QED
      BY <3>1, <3>2
  <2>2. QED
    BY <2>1 DEF Min
<1>2. QED
  BY <1>1

\* What a step of the outer search starts from and arrives at.
OuterNow ==
    /\ scenario \in Scenarios /\ scenario' = scenario
    /\ mode = "OuterCegar" /\ mode' = "OuterCegar" /\ answer = "none"
    /\ SlotShape /\ OuterInv

\* And what it arrives at.
OuterGoal ==
    /\ OuterInv' /\ AnswerInv'
    /\ ub' \in 0..NumRows /\ tables' \in [Cells -> {-1, 0, 1}]

\* What stays with the formula.
LEMMA SameOuter ==
    ASSUME scenario \in Scenarios, scenario' = scenario
    PROVE  /\ NumRows' = NumRows /\ Cells' = Cells /\ Exs' = Exs /\ Outer' = Outer /\ Eae' = Eae
           /\ AllRows' = AllRows /\ CegisRows' = CegisRows
           /\ \A y, k : Cell(y, k)' = Cell(y, k)
           /\ blocks' = blocks /\ OuterSound => OuterSound'
           /\ pins' = pins => PinsOf(Outer)' = PinsOf(Outer)
           /\ NumRows \in Nat \ {0} /\ AllRows = 0..NumRows - 1
<1>1. /\ NumRows' = NumRows /\ Cells' = Cells /\ Exs' = Exs /\ Outer' = Outer /\ Eae' = Eae
      /\ AllRows' = AllRows /\ CegisRows' = CegisRows
      /\ \A y, k : Cell(y, k)' = Cell(y, k)
  BY SameFormula
<1>2. Models[f]' = Models[f] /\ \A sk : RowOf(sk, 0)' = RowOf(sk, 0)
  BY SameModels
<1>3. \A sk : OuterPart(sk)' = OuterPart(sk)
  BY <1>1, <1>2 DEF OuterPart
<1>4. blocks' = blocks /\ OuterSound => OuterSound'
  BY <1>2, <1>3 DEF OuterSound, Agrees
<1>5. pins' = pins => PinsOf(Outer)' = PinsOf(Outer)
  BY <1>1 DEF PinsOf
<1>6. QED
  BY <1>1, <1>4, <1>5, TheFormula DEF AllRows

\* The picker chooses.
LEMMA PickStep ==
    ASSUME OuterNow, Pick
    PROVE  OuterGoal
<1>1. /\ pins' \in Picks /\ tables' = [c \in Cells |-> 0]
      /\ todo' = SubSeq(Reverse(badRows), 1, Min({Len(badRows), History}))
      /\ pc' = "history" /\ answer' = "none"
      /\ UNCHANGED <<ub, loaded, blocks, badRows, model>>
  BY DEF Pick, OuterNow
<1>2. scenario \in Scenarios /\ scenario' = scenario /\ SlotShape /\ OuterOK /\ Eae /\ OuterSound
  BY DEF OuterNow, OuterInv
<1>3. pins' \in [Outer -> {-1, 1}]
  BY <1>1 DEF Picks
<1>4. todo' \in Seq(AllRows)
  <2> DEFINE h == Min({Len(badRows), History})
             r == Reverse(badRows)
  <2>1. badRows \in Seq(AllRows) /\ Len(badRows) \in Nat /\ History \in Nat
    BY <1>2, OuterAssumption DEF OuterOK, AllRows
  <2>2. r \in Seq(AllRows) /\ Len(r) = Len(badRows)
    <3>1. \A j \in 1..Len(badRows) : badRows[(Len(badRows) - j) + 1] \in AllRows
      BY <2>1
    <3>2. r \in [1..Len(badRows) -> AllRows]
      BY <2>1, <3>1 DEF Reverse
    <3>3. QED
      BY <2>1, <3>2
  <2>3. h \in Nat /\ h <= Len(r)
    <3>1. h \in Nat /\ h <= Len(badRows)
      BY <2>1, LeastOfTwo
    <3> HIDE DEF h, r
    <3>2. QED
      BY <2>2, <3>1
  <2> HIDE DEF h, r
  <2>4. SubSeq(r, 1, h) \in Seq(AllRows)
    BY <2>2, <2>3
  <2>5. QED
    BY <1>1, <2>4 DEF h, r
<1>5. OuterOK'
  BY <1>1, <1>2, <1>3, SameOuter DEF OuterOK
<1>6. tables' \in [Cells -> {-1, 0, 1}] /\ ub' \in 0..NumRows
  BY <1>1, <1>2 DEF SlotShape
<1>7. OuterInv'
  BY <1>1, <1>2, <1>4, <1>5, SameOuter DEF OuterInv
<1>8. QED
  BY <1>1, <1>6, <1>7, NoAnswer DEF OuterGoal

\* Without a choice the formula is false.
LEMMA PickerUnsatStep ==
    ASSUME OuterNow, PickerUnsat
    PROVE  OuterGoal
<1>1. /\ pc = "pick" /\ Picks = {} /\ pc' = "returned" /\ answer' = "Unsat"
      /\ UNCHANGED <<ub, tables, outerFields, outerLocals>>
  BY DEF PickerUnsat, Return
<1>2. /\ scenario \in Scenarios /\ scenario' = scenario /\ SlotShape /\ OuterInv /\ Eae /\ OuterSound
      /\ mode = "OuterCegar" /\ mode' = "OuterCegar"
  BY DEF OuterNow, OuterInv
<1>3. ~ IsTrue(f)
  <2>1. SUFFICES ASSUME IsTrue(f) PROVE FALSE
    OBVIOUS
  <2>2. PICK sk \in Models[f] : TRUE
    BY <1>2, <2>1, TheModels
  <2>3. OuterPart(sk) \in Picks
    BY <1>2, PickerAllows
  <2>4. QED
    BY <1>1, <2>3
<1>4. ~ IsTrue(f)'
  BY <1>2, <1>3, SameModels
<1>5. AnswerInv'
  BY <1>1, <1>2, <1>4 DEF AnswerInv, SatIsModel, UnsatIsFalse
<1>6. OuterOK'
  BY <1>1, <1>2, SameOuter DEF OuterInv, OuterOK, outerFields
<1>7. OuterInv'
  BY <1>1, <1>2, <1>6, SameOuter DEF OuterInv, outerFields, outerLocals
<1>8. QED
  BY <1>1, <1>2, <1>5, <1>7 DEF OuterGoal, SlotShape

\* A row refutes the choice.
LEMMA BadStep ==
    ASSUME OuterNow, NEW n \in AllRows, Bad(n)
    PROVE  OuterGoal
<1>1. /\ badRow' = n /\ pc' = "bad" /\ answer' = "none"
      /\ UNCHANGED <<ub, tables, outerFields, todo, skipped>>
  BY DEF Bad, OuterNow
<1>2. /\ scenario \in Scenarios /\ scenario' = scenario /\ SlotShape /\ OuterInv /\ Eae /\ OuterSound
      /\ mode = "OuterCegar" /\ mode' = "OuterCegar"
  BY DEF OuterNow, OuterInv
<1>3. OuterOK'
  BY <1>1, <1>2, SameOuter DEF OuterInv, OuterOK, outerFields
<1>4. OuterInv'
  BY <1>1, <1>2, <1>3, SameOuter DEF OuterInv, outerFields
<1>5. QED
  BY <1>1, <1>2, <1>4, NoAnswer DEF OuterGoal, SlotShape

\* The model of the solver has its shape.
LEMMA ModelShape ==
    ASSUME OuterNow, NEW n, Good(n) \/ Undecided(n)
    PROVE  model' \in [Exs -> {-1, 1}]
BY DEF OuterNow, OuterInv, OuterOK, Good, Undecided, RowModels

\* Rows that refuted a choice are tried first.
LEMMA HistoryStep ==
    ASSUME OuterNow, HistoryRow \/ HistoryDone \/ FuzzDone
    PROVE  OuterGoal
<1>1. /\ scenario \in Scenarios /\ scenario' = scenario /\ SlotShape /\ OuterInv /\ Eae /\ OuterSound
      /\ mode = "OuterCegar" /\ mode' = "OuterCegar" /\ OuterOK /\ todo \in Seq(AllRows)
      /\ answer = "none"
  BY DEF OuterNow, OuterInv
<1>2. /\ pc \in {"history", "fuzz"} /\ pc' \in {"history", "fuzz", "scan"}
      /\ UNCHANGED <<tables, answer, pins, loaded, blocks, badRows>>
      /\ tables = [c \in Cells |-> 0]
  BY <1>1 DEF HistoryRow, HistoryDone, FuzzDone, OuterInv, outerFields
<1>3. pc' \in {"fuzz", "scan"} => ub' = 0
  BY <1>1 DEF HistoryRow, HistoryDone, FuzzDone, OuterInv
<1>4. ub' \in 0..NumRows
  <2>1. ub' = ub \/ ub' = 0
    BY DEF HistoryRow, HistoryDone, FuzzDone
  <2>2. ub \in 0..NumRows /\ NumRows \in Nat
    BY <1>1, TheFormula DEF SlotShape
  <2>3. QED
    BY <2>1, <2>2
<1>5. todo' \in Seq(AllRows)
  BY <1>1 DEF HistoryRow, HistoryDone, FuzzDone, outerLocals
<1>6. model' \in [Exs -> {-1, 1}]
  <2>1. CASE HistoryDone
    BY <1>1, <2>1 DEF HistoryDone, outerFields, OuterOK
  <2>2. CASE HistoryRow \/ FuzzDone
    BY <2>2, ModelShape DEF HistoryRow, FuzzDone
  <2>3. QED
    BY <2>1, <2>2
<1>7. OuterOK'
  BY <1>1, <1>2, <1>6, SameOuter DEF OuterOK
<1>8. tables' = [c \in Cells |-> 0]
  BY <1>2
<1>9. ASSUME pc' = "scan" PROVE ScanSound'
  <2>1. ub' = 0 /\ \A c \in Cells' : tables'[c] = 0
    BY <1>1, <1>3, <1>8, <1>9, SameOuter
  <2>2. 0..ub' - 1 = {}
    BY <2>1
  <2>3. QED
    BY <2>1, <2>2 DEF ScanSound
<1>10. OuterInv'
  BY <1>1, <1>2, <1>3, <1>5, <1>7, <1>8, <1>9, SameOuter DEF OuterInv
<1>11. tables' \in [Cells -> {-1, 0, 1}]
  BY <1>8
<1>12. QED
  BY <1>1, <1>2, <1>4, <1>10, <1>11, NoAnswer DEF OuterGoal

\* A row that is scanned has the picked model, unless it is undecided.
LEMMA ScanRowStep ==
    ASSUME OuterNow, ScanRow
    PROVE  OuterGoal
<1> DEFINE n == ub
           m == model'
<1>1. /\ pc = "scan" /\ n < NumRows /\ pc' = "scan" /\ ub' = n + 1 /\ answer' = answer
      /\ UNCHANGED <<pins, loaded, blocks, badRows, todo, badRow>>
      /\ tables' = Filled(tables, m, n)
      /\ Good(n) \/ Undecided(n)
      /\ ~ skipped' => Good(n) /\ ~ skipped
  BY DEF ScanRow, Filled
<1>2. /\ scenario \in Scenarios /\ scenario' = scenario /\ SlotShape /\ OuterInv /\ Eae /\ OuterSound
      /\ mode = "OuterCegar" /\ mode' = "OuterCegar" /\ OuterOK /\ todo \in Seq(AllRows)
      /\ answer = "none" /\ ScanSound
  BY <1>1 DEF OuterNow, OuterInv
<1>3. m \in [Exs -> {-1, 1}]
  BY <1>1, ModelShape
<1>4. n \in AllRows /\ n \in Nat /\ n + 1 \in 0..NumRows /\ NumRows \in Nat
  BY <1>1, <1>2, TheFormula DEF SlotShape, AllRows
<1>5. tables \in [Cells -> {-1, 0, 1}] /\ tables' \in [Cells -> {-1, 0, 1}]
  BY <1>1, <1>2, <1>3, <1>4, FillFacts DEF SlotShape
<1> HIDE DEF m
<1>6. OuterOK'
  BY <1>1, <1>2, <1>3, SameOuter DEF OuterOK, m
<1>7. /\ \A y \in Exs \ Outer : tables'[Cell(y, n)] = m[y]
      /\ \A y \in Exs \ Outer, k \in 0..n - 1 : tables'[Cell(y, k)] = tables[Cell(y, k)]
      /\ \A c \in Cells : tables'[c] # 0 => \E k \in 0..n : c = Cell(c[1], k)
  <2>1. \A c \in Cells : tables[c] # 0 => \E k \in 0..n - 1 : c = Cell(c[1], k)
    BY <1>2 DEF ScanSound
  <2>2. QED
    BY <1>1, <1>2, <1>3, <1>4, <1>5, <2>1, ScanFills
<1>8. ASSUME ~ skipped', NEW k \in 0..n PROVE PickedRow(k)'
  <2>1. PickedRow(k)' <=> \E l \in RowModels(k, PinsOf(Outer)) :
                             \A y \in Exs \ Outer : tables'[Cell(y, k)] = l[y]
    <3>1. RowModels(k, PinsOf(Outer))' = RowModels(k, PinsOf(Outer))
      BY <1>1, <1>2, SameModels, SameOuter
    <3>2. QED
      BY <1>2, <3>1, SameOuter DEF PickedRow
  <2>2. CASE k = n
    <3>1. m \in RowModels(n, PinsOf(Outer))
      BY <1>1, <1>8 DEF Good, m
    <3>2. QED
      BY <1>7, <2>1, <2>2, <3>1
  <2>3. CASE k \in 0..n - 1
    <3>1. PickedRow(k)
      BY <1>1, <1>2, <1>8, <2>3 DEF ScanSound
    <3>2. QED
      BY <1>7, <2>1, <2>3, <3>1 DEF PickedRow
  <2>4. QED
    BY <1>4, <2>2, <2>3
<1>9. ScanSound'
  <2>1. 0..ub' - 1 = 0..n
    BY <1>1, <1>4
  <2>2. \A c \in Cells' : tables'[c] # 0 => \E k \in 0..ub' - 1 : c = Cell(c[1], k)'
    <3>1. Cells' = Cells /\ \A y, k : Cell(y, k)' = Cell(y, k)
      BY <1>2, SameOuter
    <3> HIDE DEF n
    <3>2. QED
      BY <1>7, <2>1, <3>1
  <2> HIDE DEF n
  <2>3. QED
    BY <1>8, <2>1, <2>2 DEF ScanSound
<1>10. OuterInv'
  BY <1>1, <1>2, <1>6, <1>9, SameOuter DEF OuterInv
<1>11. QED
  BY <1>1, <1>2, <1>4, <1>5, <1>10, NoAnswer DEF OuterGoal

\* After the last row the choice and the tables are a model.
LEMMA ScanDoneStep ==
    ASSUME OuterNow, ScanDone
    PROVE  OuterGoal
<1>1. /\ pc = "scan" /\ ub = NumRows /\ pc' = "returned" /\ answer' = "Sat"
      /\ UNCHANGED <<ub, outerFields, outerLocals>>
      /\ tables' = [c \in Cells |-> IF c[1] \in Outer THEN pins[c[1]] ELSE tables[c]]
  BY DEF ScanDone, Return
<1>2. /\ scenario \in Scenarios /\ scenario' = scenario /\ SlotShape /\ OuterInv /\ Eae /\ OuterSound
      /\ mode = "OuterCegar" /\ mode' = "OuterCegar" /\ OuterOK /\ todo \in Seq(AllRows)
      /\ ScanSound
  BY <1>1 DEF OuterNow, OuterInv
<1>3. tables' \in [Cells -> {-1, 0, 1}]
  BY <1>1, <1>2 DEF OuterOK, SlotShape
<1>4. OuterOK'
  BY <1>1, <1>2, SameOuter DEF OuterOK, outerFields
<1>5. OuterInv'
  BY <1>1, <1>2, <1>4, SameOuter DEF OuterInv, outerFields, outerLocals
<1>6. ASSUME ~ skipped, NEW n \in AllRows PROVE RowAgrees(tables', n)
  <2>1. PickedRow(n)
    BY <1>1, <1>2, <1>6 DEF ScanSound, AllRows
  <2>2. PICK m \in RowModels(n, PinsOf(Outer)) : \A y \in Exs \ Outer : tables[Cell(y, n)] = m[y]
    BY <2>1 DEF PickedRow
  <2>3. m \in RowModels(n, {}) /\ \A y \in Outer : m[y] = pins[y]
    <3>1. \A y \in Outer : <<y, pins[y]>> \in PinsOf(Outer)
      BY DEF PinsOf
    <3>2. \A q \in PinsOf(Outer) : m[q[1]] = q[2]
      BY DEF RowModels
    <3>3. \A y \in Outer : m[y] = pins[y]
      BY <3>1, <3>2
    <3>4. QED
      BY <3>3 DEF RowModels
  <2>4. ASSUME NEW y \in Exs PROVE tables'[Cell(y, n)] = m[y]
    <3>1. Cell(y, n) \in Cells /\ Cell(y, n)[1] = y
      BY <1>2, CellNames
    <3>2. QED
      BY <1>1, <2>2, <2>3, <3>1
  <2>5. QED
    BY <2>3, <2>4 DEF RowAgrees
<1>7. AnswerInv'
  <2>1. CASE skipped
    <3>1. skipped'
      BY <1>1, <2>1 DEF outerLocals
    <3>2. QED
      BY <1>1, <1>2, <3>1 DEF AnswerInv, SatIsModel, UnsatIsFalse
  <2>2. CASE ~ skipped
    BY <1>1, <1>2, <1>6, <2>2, SatAnswer
  <2>3. QED
    BY <2>1, <2>2
<1>8. QED
  BY <1>1, <1>2, <1>3, <1>5, <1>7 DEF OuterGoal, SlotShape

\* The picker gets a copy of the row.
LEMMA AddCopyStep ==
    ASSUME OuterNow, AddCopy
    PROVE  OuterGoal
<1>1. /\ pc = "bad" /\ Cardinality(loaded) < CegisRows
      /\ loaded' = loaded \cup {badRow} /\ badRows' = Append(badRows, badRow) /\ pc' = "pick"
      /\ UNCHANGED <<ub, tables, answer, pins, blocks, model, outerLocals>>
  BY DEF AddCopy, Room, OuterEntry
<1>2. /\ scenario \in Scenarios /\ scenario' = scenario /\ SlotShape /\ OuterInv /\ Eae /\ OuterSound
      /\ mode = "OuterCegar" /\ mode' = "OuterCegar" /\ OuterOK /\ todo \in Seq(AllRows)
      /\ answer = "none" /\ badRow \in AllRows
  BY <1>1 DEF OuterNow, OuterInv
<1>3. Cardinality(loaded') <= CegisRows /\ loaded' \subseteq AllRows
  <2>1. AllRows = 0..NumRows - 1 /\ NumRows \in Nat /\ scenario.cegisRows \in Nat
    BY <1>2, TheFormula, OuterAssumption DEF AllRows
  <2>2. loaded \subseteq AllRows
    BY <1>2 DEF OuterOK, AllRows
  <2>3. IsFiniteSet(AllRows)
    <3>1. 0 \in Int /\ NumRows - 1 \in Int
      BY <2>1
    <3>2. QED
      BY <2>1, <3>1, FS_Interval
  <2>4. IsFiniteSet(loaded) /\ Cardinality(loaded) \in Nat
    BY <2>2, <2>3, FS_Subset, FS_CardinalityType
  <2>5. CegisRows \in Nat
    BY <2>1, LeastOfTwo DEF CegisRows
  <2>6. Cardinality(loaded') = Cardinality(loaded) \/ Cardinality(loaded') = Cardinality(loaded) + 1
    BY <1>1, <2>4, FS_AddElement
  <2>7. QED
    BY <1>1, <1>2, <2>2, <2>4, <2>5, <2>6
<1>4. OuterOK'
  <2>1. badRows' \in Seq(AllRows)
    BY <1>1, <1>2 DEF OuterOK, AllRows
  <2>2. QED
    BY <1>1, <1>2, <1>3, <2>1, SameOuter DEF OuterOK, AllRows
<1>5. OuterInv'
  BY <1>1, <1>2, <1>4, SameOuter DEF OuterInv, outerLocals
<1>6. QED
  BY <1>1, <1>2, <1>5, NoAnswer DEF OuterGoal, SlotShape

\* Or a clause that excludes the part of the choice that refutes it.
LEMMA BlockStep ==
    ASSUME OuterNow, Block
    PROVE  OuterGoal
<1>1. /\ pc = "bad" /\ badRows' = Append(badRows, badRow) /\ pc' = "pick"
      /\ UNCHANGED <<ub, tables, answer, pins, loaded, outerLocals>>
  BY DEF Block, OuterEntry
<1>2. PICK ys \in Cores :
        /\ blocks' = blocks \cup {BlockingClause(ys)}
        /\ model' \in {model} \cup UNION {RowModels(badRow, PinsOf(ys \ {y})) : y \in ys}
  BY DEF Block
<1>3. /\ scenario \in Scenarios /\ scenario' = scenario /\ SlotShape /\ OuterInv /\ Eae /\ OuterSound
      /\ mode = "OuterCegar" /\ mode' = "OuterCegar" /\ OuterOK /\ todo \in Seq(AllRows)
      /\ answer = "none" /\ badRow \in AllRows
  BY <1>1 DEF OuterNow, OuterInv
<1>4. ys \in SUBSET Outer /\ ~ Solvable(badRow, PinsOf(ys))
  BY <1>2 DEF Cores
<1>5. model' \in [Exs -> {-1, 1}]
  BY <1>2, <1>3 DEF RowModels, OuterOK
<1>6. OuterOK'
  <2>1. badRows' \in Seq(AllRows)
    BY <1>1, <1>3 DEF OuterOK, AllRows
  <2>2. QED
    BY <1>1, <1>3, <1>5, <2>1, SameOuter DEF OuterOK, AllRows
<1>7. OuterSound'
  <2>1. Models[f]' = Models[f] /\ \A sk : RowOf(sk, 0)' = RowOf(sk, 0)
    BY <1>3, SameModels
  <2>2. \A sk : OuterPart(sk)' = OuterPart(sk)
    BY <1>3, <2>1, SameOuter DEF OuterPart
  <2>3. ASSUME NEW sk \in Models[f], NEW b \in blocks' PROVE \E l \in b : Agrees(OuterPart(sk), l)
    <3>1. CASE b \in blocks
      BY <1>3, <3>1 DEF OuterSound
    <3>2. CASE b = BlockingClause(ys)
      BY <1>3, <1>4, <3>2, BlockSound DEF OuterOK
    <3>3. QED
      BY <1>2, <3>1, <3>2
  <2>4. QED
    BY <2>1, <2>2, <2>3 DEF OuterSound, Agrees
<1>8. OuterInv'
  BY <1>1, <1>3, <1>6, <1>7, SameOuter DEF OuterInv, outerLocals
<1>9. QED
  BY <1>1, <1>3, <1>8, NoAnswer DEF OuterGoal, SlotShape

\* Time runs out in the outer search.
LEMMA OuterPendingStep ==
    ASSUME OuterNow, OuterPending
    PROVE  OuterGoal
<1>1. pc' = "pending" /\ UNCHANGED <<fields, locals, answer, outerFields, outerLocals>>
  BY DEF OuterPending, PendingInPick, PendingInScan, Pending
<1>2. /\ scenario \in Scenarios /\ scenario' = scenario /\ SlotShape /\ OuterInv /\ Eae /\ OuterSound
      /\ mode = "OuterCegar" /\ mode' = "OuterCegar" /\ OuterOK /\ todo \in Seq(AllRows)
      /\ answer = "none"
  BY DEF OuterNow, OuterInv
<1>3. OuterOK'
  BY <1>1, <1>2, SameOuter DEF OuterOK, outerFields
<1>4. OuterInv'
  BY <1>1, <1>2, <1>3, SameOuter DEF OuterInv, outerFields, outerLocals
<1>5. QED
  BY <1>1, <1>2, <1>4, NoAnswer DEF OuterGoal, SlotShape, fields, locals

\* Every step of the outer search.
LEMMA OuterMoveStep ==
    ASSUME ControlInv, SlotInv, OuterInv, OuterMove
    PROVE  SlotInv' /\ OuterInv' /\ AnswerInv'
<1>1. scenario' = scenario
  BY SameScenario DEF Next, Step, OuterMove
<1>2. OuterNow
  BY <1>1, OuterControl DEF OuterNow, ControlInv, SlotInv
<1>3. OuterGoal
  <2>1. ASSUME pc \in {"history", "scan"} PROVE Head(todo) \in AllRows \/ todo = << >>
    BY <1>2 DEF OuterNow, OuterInv
  <2>2. CASE HistoryBad
    BY <1>2, <2>1, <2>2, BadStep DEF HistoryBad
  <2>3. CASE FuzzBad
    BY <1>2, <2>3, BadStep DEF FuzzBad, AllRows
  <2>4. CASE ScanBad
    <3>1. ub \in AllRows
      BY <1>2, <2>4, TheFormula DEF ScanBad, OuterNow, SlotShape, AllRows
    <3>2. QED
      BY <1>2, <2>4, <3>1, BadStep DEF ScanBad
  <2>5. QED
    BY <1>2, <2>2, <2>3, <2>4, PickStep, PickerUnsatStep, HistoryStep, ScanRowStep, ScanDoneStep,
       AddCopyStep, BlockStep, OuterPendingStep DEF OuterMove, OuterStep
<1>4. UNCHANGED SlotRest
  <2>1. CASE OuterStep
    BY <2>1 DEF OuterStep, Pick, PickerUnsat, HistoryBad, HistoryRow, HistoryDone, FuzzBad, FuzzDone,
       ScanBad, ScanRow, ScanDone, AddCopy, Block, Bad, Rest, SlotRest
  <2>2. CASE OuterPending
    BY <2>2 DEF OuterPending, PendingInPick, PendingInScan, Pending, fields, locals, SlotRest
  <2>3. QED
    BY <2>1, <2>2 DEF OuterMove
<1>5. SlotInv'
  BY <1>2, <1>3, <1>4, OtherModes DEF OuterNow, OuterGoal
<1>6. QED
  BY <1>3, <1>5 DEF OuterGoal

\* The other searches leave it as it is.
LEMMA OuterKept ==
    ASSUME scenario \in Scenarios, scenario' = scenario, OuterInv, UNCHANGED outerFields,
           todo' \in Seq(AllRows), mode' # "OuterCegar"
    PROVE  OuterInv'
<1>1. OuterOK'
  BY SameOuter DEF OuterInv, OuterOK, outerFields
<1>2. QED
  BY <1>1, SameOuter DEF OuterInv

\* A new call starts with the picker.
LEMMA OuterResume ==
    ASSUME ControlInv, OuterInv, Resume
    PROVE  OuterInv'
<1>1. /\ UNCHANGED outerFields /\ todo' = << >> /\ scenario' = scenario /\ scenario \in Scenarios
      /\ mode' = mode /\ pc' = Entry(mode)
  BY DEF Resume, FreshOuterLocals, ControlInv
<1>2. OuterOK' /\ todo' \in Seq(AllRows')
  BY <1>1, SameOuter DEF OuterInv, OuterOK, outerFields
<1>3. mode = "OuterCegar" => pc' = "pick"
  BY <1>1 DEF Entry, OuterEntry
<1>4. blocks' = blocks
  BY <1>1 DEF outerFields
<1>5. QED
  BY <1>1, <1>2, <1>3, <1>4, SameOuter DEF OuterInv

-----------------------------------------------------------------------------
(* The scan of partial rows.                                               *)

\* A partial row stands for a row of the formula, so one without a model refutes it.
LEMMA PartialSound ==
    ASSUME scenario \in Scenarios, IsTrue(f)
    PROVE  PartialSolvable
<1> DEFINE us == TopUniversals(Levels[level])
           bit(u) == (ub \div 2 ^ Cardinality({w \in us : w < u})) % 2 = 1
           a == [u \in f.universals |-> bit(u)]
<1>1. us \subseteq f.universals
  BY DEF TopUniversals
<1> HIDE DEF us
<1>2. \A u : bit(u) \in BOOLEAN
  OBVIOUS
<1> HIDE DEF bit
<1>3. a \in Rows(f)
  BY <1>2 DEF Rows
<1>4. PICK r \in AllRows : Row(r) = a
  BY <1>3, RowNames
<1>5. \A u \in us : Row(r)[u] = bit(u)
  BY <1>1, <1>4
<1>6. r \in Covered(us, ub)
  BY <1>5 DEF Covered, AllRows, bit
<1>7. Solvable(r, {})
  BY RowSolvable
<1>8. QED
  BY <1>6, <1>7 DEF PartialSolvable, us

\* There are as many partial rows as the level has, and no more than rows.
LEMMA PartialRows ==
    ASSUME scenario \in Scenarios, level \in Nat \ {0}, level <= Len(Levels),
           Levels[level] <= NumUniversals
    PROVE  2 ^ Levels[level] \in Nat \ {0} /\ 2 ^ Levels[level] <= NumRows
<1>1. Levels[level] \in Nat /\ NumUniversals \in Nat
  <2>1. Levels \in Seq(Nat) /\ level \in 1..Len(Levels)
    BY ModesAssumption
  <2>2. NumUniversals \in Nat
    BY TheFormula, FS_CardinalityType DEF NumUniversals
  <2>3. QED
    BY <2>1, <2>2
<1> DEFINE a == Levels[level]
           p == 2 ^ a
<1>2. a \in Nat /\ a <= NumUniversals
  BY <1>1
<1> HIDE DEF a
<1>3. p \in Nat \ {0} /\ NumRows = 2 ^ NumUniversals /\ NumRows \in Nat \ {0}
  BY <1>2, PowerDoubles, TheFormula DEF NumRows, NumUniversals
<1>4. CASE a = NumUniversals
  BY <1>3, <1>4 DEF a
<1>5. CASE a < NumUniversals
  <2>1. PICK q \in Nat : 2 ^ NumUniversals = 2 * q * p
    BY <1>1, <1>2, <1>5, PowerSplits
  <2> HIDE DEF p
  <2>2. q # 0
    BY <1>3, <2>1
  <2>3. q * p >= p
    BY <1>3, <2>2
  <2>4. q * p \in Nat /\ 2 * q * p = q * p + q * p
    BY <1>3
  <2>5. p <= NumRows
    BY <1>3, <2>1, <2>3, <2>4
  <2>6. QED
    BY <1>3, <2>5 DEF p, a
<1>6. QED
  BY <1>1, <1>2, <1>4, <1>5

\* Every step of the scan.
LEMMA PartialMoveStep ==
    ASSUME ControlInv, SlotInv, OuterInv, PartialInv, PartialMove
    PROVE  SlotInv' /\ OuterInv' /\ PartialInv' /\ AnswerInv'
<1>1. /\ scenario' = scenario /\ scenario \in Scenarios /\ mode = "Partial" /\ mode' = "Partial"
      /\ answer = "none" /\ pc = "Partial"
  BY PartialControl, SameScenario DEF Next, Step, PartialMove, ControlInv
<1>2. UNCHANGED SlotRest /\ UNCHANGED outerFields /\ todo' = todo /\ tables' = tables
  BY DEF PartialMove, PartialRow, PartialUnsat, PartialDone, PendingInPartial, Pending, fields,
     locals, outerLocals, SlotRest
<1>3. OuterInv'
  <2>1. todo' \in Seq(AllRows)
    BY <1>2 DEF OuterInv
  <2>2. QED
    BY <1>1, <1>2, <2>1, OuterKept
<1>4. ub \in 0..NumRows /\ NumRows \in Nat /\ tables \in [Cells -> {-1, 0, 1}] /\ level \in Nat \ {0}
  BY <1>1, TheFormula DEF SlotInv, SlotShape, PartialInv
<1>5. NumUniversals' = NumUniversals
  BY <1>1, SameFormula
<1>6. CASE PartialRow
  <2> DEFINE size == 2 ^ Levels[level]
  <2>1. /\ level <= Len(Levels) /\ Levels[level] <= NumUniversals /\ ub < size
        /\ answer' = answer
        /\ \/ ub + 1 = size /\ ub' = 0 /\ level' = level + 1
           \/ ub + 1 # size /\ ub' = ub + 1 /\ level' = level
    BY <1>6 DEF PartialRow, AtLevel, PartialInv
  <2>2. size \in Nat \ {0} /\ size <= NumRows
    BY <1>1, <1>4, <2>1, PartialRows
  <2>3. ub' \in 0..NumRows /\ level' \in Nat \ {0}
    <3> HIDE DEF size
    <3>1. QED
      BY <1>4, <2>1, <2>2
  <2>4. AtLevel' => ub' < 2 ^ Levels[level']
    <3>1. CASE level' = level
      <4> HIDE DEF size
      <4>1. ub' < size
        BY <1>4, <2>1, <2>2, <3>1
      <4>2. QED
        BY <3>1, <4>1 DEF size
    <3>2. CASE level' = level + 1 /\ ub' = 0
      <4>1. SUFFICES ASSUME AtLevel' PROVE 0 < 2 ^ Levels[level']
        BY <3>2
      <4>2. level' \in 1..Len(Levels)
        BY <2>3, <4>1 DEF AtLevel
      <4>3. Levels[level'] \in Nat
        BY <4>2, ModesAssumption
      <4>4. 2 ^ Levels[level'] \in Nat \ {0}
        BY <4>3, PowerDoubles
      <4>5. QED
        BY <4>4
    <3>3. QED
      BY <2>1, <3>1, <3>2
  <2>5. PartialInv'
    BY <1>1, <2>3, <2>4 DEF PartialInv
  <2>6. SlotInv'
    BY <1>1, <1>2, <1>4, <2>3, OtherModes
  <2>7. QED
    BY <1>1, <1>3, <2>1, <2>5, <2>6, NoAnswer
<1>7. CASE PartialUnsat \/ PartialDone \/ PendingInPartial
  <2>1. ub' = ub /\ level' = level /\ pc' # "Partial"
    BY <1>7 DEF PartialUnsat, PartialDone, PendingInPartial, Pending, Return, locals
  <2>2. PartialInv'
    BY <1>1, <1>4, <2>1 DEF PartialInv, AtLevel
  <2>3. SlotInv'
    BY <1>1, <1>2, <1>4, <2>1, OtherModes
  <2>4. answer' \in {"none", "UnsatRow", "Done"}
    BY <1>1, <1>7 DEF PartialUnsat, PartialDone, PendingInPartial, Pending, Return
  <2>5. answer' = "UnsatRow" => ~ IsTrue(f)'
    <3>1. answer' = "UnsatRow" => ~ PartialSolvable
      BY <1>1, <1>7 DEF PartialUnsat, PartialDone, PendingInPartial, Pending, Return
    <3>2. answer' = "UnsatRow" => ~ IsTrue(f)
      BY <1>1, <3>1, PartialSound
    <3>3. QED
      BY <1>1, <3>2, SameModels
  <2>6. AnswerInv'
    BY <1>1, <2>4, <2>5 DEF AnswerInv, SatIsModel, UnsatIsFalse
  <2>7. QED
    BY <1>3, <2>2, <2>3, <2>6
<1>8. QED
  BY <1>6, <1>7 DEF PartialMove

-----------------------------------------------------------------------------
(* Definability: what cubes and tables have to do with each other.         *)

\* A key is what a row gives to its universals.
LEMMA KeyFacts ==
    ASSUME scenario \in Scenarios, NEW us \in SUBSET f.universals, NEW n
    PROVE  /\ Key(Row(n), us) \in [us -> BOOLEAN]
           /\ \A u \in us : Key(Row(n), us)[u] = Row(n)[u]
           /\ \A k : Holds(Key(Row(n), us), k) <=> Key(Row(k), us) = Key(Row(n), us)
<1>1. Row(n) \in [f.universals -> BOOLEAN]
  BY RowNames DEF Rows
<1>2. \A k : Key(Row(k), us) = [u \in us |-> Row(k)[u]]
  <2>1. TAKE k
  <2>2. Row(k) \in [f.universals -> BOOLEAN]
    BY RowNames DEF Rows
  <2>3. us \cap DOMAIN Row(k) = us
    BY <2>2
  <2>4. QED
    BY <2>3 DEF Key
<1>3. Key(Row(n), us) \in [us -> BOOLEAN] /\ \A u \in us : Key(Row(n), us)[u] = Row(n)[u]
  BY <1>1, <1>2
<1>4. ASSUME NEW k PROVE Holds(Key(Row(n), us), k) <=> Key(Row(k), us) = Key(Row(n), us)
  BY <1>2 DEF Holds
<1>5. QED
  BY <1>3, <1>4

\* Any values for some of the universals occur in a row.
LEMMA RowWith ==
    ASSUME scenario \in Scenarios, NEW us \in SUBSET f.universals, NEW k \in [us -> BOOLEAN]
    PROVE  \E n \in AllRows : Key(Row(n), us) = k
<1> DEFINE a == [u \in f.universals |-> IF u \in us THEN k[u] ELSE FALSE]
<1>1. a \in Rows(f)
  BY DEF Rows
<1>2. PICK n \in AllRows : Row(n) = a
  BY <1>1, RowNames
<1>3. Key(Row(n), us) \in [us -> BOOLEAN] /\ \A u \in us : Key(Row(n), us)[u] = Row(n)[u]
  BY KeyFacts
<1>4. \A u \in us : Row(n)[u] = k[u]
  BY <1>2
<1>5. Key(Row(n), us) = k
  BY <1>3, <1>4
<1>6. QED
  BY <1>5

\* Tables obey a cube when their rows do.
LEMMA ObeysRows ==
    ASSUME scenario \in Scenarios, NEW sk \in Models[f], NEW y \in Exs, NEW cube,
           DOMAIN cube \subseteq f.dependencies[y], NEW v \in {-1, 1}
    PROVE  Obeys(sk, y, cube, v) <=> \A n \in AllRows : Holds(cube, n) => RowOf(sk, n)[y] = v
<1> DEFINE d == f.dependencies[y]
<1>1. d \in SUBSET f.universals
  BY TheFormula
<1>2. \A n : /\ Key(Row(n), d) \in [d -> BOOLEAN]
             /\ \A u \in d : Key(Row(n), d)[u] = Row(n)[u]
  BY <1>1, KeyFacts
<1>3. sk \in SkolemTuples(f)
  BY TheModels
<1>4. \A n : Key(Row(n), d) \in DOMAIN sk[y] /\ sk[y][Key(Row(n), d)] \in BOOLEAN
  BY <1>3, TableLookup
<1>5. DOMAIN sk[y] = [d -> BOOLEAN]
  BY <1>3, TableLookup
<1>6. \A n : RowOf(sk, n)[y] = IF sk[y][Key(Row(n), d)] THEN 1 ELSE -1
  BY DEF RowOf
<1>7. \A n : RowOf(sk, n)[y] = v <=> sk[y][Key(Row(n), d)] = (v = 1)
  <2>1. TAKE n
  <2>2. CASE sk[y][Key(Row(n), d)]
    <3>1. RowOf(sk, n)[y] = 1
      BY <1>6, <2>2
    <3>2. sk[y][Key(Row(n), d)] = TRUE
      BY <1>4, <2>2
    <3>3. RowOf(sk, n)[y] = v <=> v = 1
      BY <3>1
    <3>4. QED
      BY <3>2, <3>3
  <2>3. CASE ~ sk[y][Key(Row(n), d)]
    <3>1. RowOf(sk, n)[y] = -1
      BY <1>6, <2>3
    <3>2. sk[y][Key(Row(n), d)] = FALSE
      BY <1>4, <2>3
    <3>3. RowOf(sk, n)[y] = v <=> ~ (v = 1)
      BY <3>1
    <3>4. QED
      BY <3>2, <3>3
  <2>4. QED
    BY <2>2, <2>3
<1>8. ASSUME Obeys(sk, y, cube, v), NEW n \in AllRows, Holds(cube, n)
      PROVE  RowOf(sk, n)[y] = v
  <2>1. \A u \in DOMAIN cube : Key(Row(n), d)[u] = cube[u]
    BY <1>2, <1>8 DEF Holds
  <2>2. sk[y][Key(Row(n), d)] = (v = 1)
    BY <1>4, <1>8, <2>1 DEF Obeys
  <2>3. QED
    BY <1>7, <2>2
<1>9. ASSUME \A n \in AllRows : Holds(cube, n) => RowOf(sk, n)[y] = v,
             NEW k \in DOMAIN sk[y], \A u \in DOMAIN cube : k[u] = cube[u]
      PROVE  sk[y][k] = (v = 1)
  <2>1. PICK n \in AllRows : Key(Row(n), d) = k
    BY <1>1, <1>5, RowWith
  <2>2. \A u \in DOMAIN cube : Row(n)[u] = cube[u]
    BY <1>2, <1>9, <2>1
  <2>3. RowOf(sk, n)[y] = v
    BY <1>9, <2>2 DEF Holds
  <2>4. QED
    BY <1>7, <2>1, <2>3
<1>10. QED
  BY <1>8, <1>9 DEF Obeys

\* The arguments of one existential name those of another with as many.
LEMMA OppositeCube ==
    ASSUME scenario \in Scenarios, NEW y \in Exs, NEW z \in Exs, NEW cube,
           Cardinality(f.dependencies[y]) = Cardinality(f.dependencies[z])
    PROVE  /\ DOMAIN Opposite(y, z, cube) \subseteq f.dependencies[z]
           /\ cube \in [f.dependencies[y] -> BOOLEAN] =>
                 Opposite(y, z, cube) \in [f.dependencies[z] -> BOOLEAN]
<1> DEFINE dy == f.dependencies[y]
           dz == f.dependencies[z]
           at(w) == CHOOSE u \in DOMAIN cube : Rank(dy, u) = Rank(dz, w)
<1>1. dy \in SUBSET Int /\ dz \in SUBSET Int /\ IsFiniteSet(dy) /\ IsFiniteSet(dz)
  <2>1. dy \subseteq f.universals /\ dz \subseteq f.universals
    BY TheFormula
  <2>2. IsFiniteSet(f.universals) /\ f.universals \in SUBSET Int
    BY TheFormula
  <2>3. QED
    BY <2>1, <2>2, FS_Subset
<1>2. DOMAIN Opposite(y, z, cube) \subseteq dz
  BY DEF Opposite
<1>3. ASSUME cube \in [dy -> BOOLEAN]
      PROVE  Opposite(y, z, cube) \in [dz -> BOOLEAN]
  <2>1. ASSUME NEW w \in dz PROVE \E u \in DOMAIN cube : Rank(dy, u) = Rank(dz, w)
    <3>1. Cardinality({j \in dz : j < w}) \in 0..Cardinality(dy) - 1
      BY <1>1, BelowTells
    <3>2. \E u \in dy : Cardinality({j \in dy : j < u}) = Cardinality({j \in dz : j < w})
      BY <1>1, <3>1, CountBelow
    <3>3. QED
      BY <1>3, <3>2 DEF Rank
  <2>2. \A w \in dz : cube[at(w)] \in BOOLEAN
    <3>1. TAKE w \in dz
    <3>2. at(w) \in DOMAIN cube
      BY <2>1
    <3>3. QED
      BY <1>3, <3>2
  <2>3. Opposite(y, z, cube) = [w \in dz |-> cube[at(w)]]
    BY <2>1 DEF Opposite
  <2>4. QED
    BY <2>2, <2>3
<1>4. QED
  BY <1>2, <1>3

\* Two partners have the same value in a row with matching arguments, and so matching
\* entries in their tables.
LEMMA PartnersAgree ==
    ASSUME scenario \in Scenarios, NEW sk \in Models[f], NEW y \in Exs, NEW z \in Exs, Alike(y, z),
           NEW cube \in [f.dependencies[y] -> BOOLEAN]
    PROVE  /\ \A n \in AllRows : Holds(cube, n) /\ Holds(Opposite(y, z, cube), n)
                 => RowOf(sk, n)[y] = RowOf(sk, n)[z]
           /\ sk[y][cube] = sk[z][Opposite(y, z, cube)]
<1> DEFINE dy == f.dependencies[y]
           dz == f.dependencies[z]
           opp == Opposite(y, z, cube)
<1>1. dy \in SUBSET f.universals /\ dz \in SUBSET f.universals
  BY TheFormula
<1>2. Cardinality(dy) = Cardinality(dz) /\ dy \cap dz = {}
  BY DEF Alike
<1>3. opp \in [dz -> BOOLEAN]
  BY <1>2, OppositeCube
<1>4. ASSUME NEW n PROVE /\ Holds(cube, n) <=> Key(Row(n), dy) = cube
                         /\ Holds(opp, n) <=> Key(Row(n), dz) = opp
  <2>1. /\ Key(Row(n), dy) \in [dy -> BOOLEAN] /\ \A u \in dy : Key(Row(n), dy)[u] = Row(n)[u]
        /\ Key(Row(n), dz) \in [dz -> BOOLEAN] /\ \A u \in dz : Key(Row(n), dz)[u] = Row(n)[u]
    BY <1>1, KeyFacts
  <2>2. Holds(cube, n) <=> Key(Row(n), dy) = cube
    BY <2>1 DEF Holds
  <2>3. Holds(opp, n) <=> Key(Row(n), dz) = opp
    <3> HIDE DEF opp
    <3>1. QED
      BY <1>3, <2>1 DEF Holds
  <2>4. QED
    BY <2>2, <2>3
<1>5. ASSUME NEW n \in AllRows, Holds(cube, n), Holds(opp, n)
      PROVE  RowOf(sk, n)[y] = RowOf(sk, n)[z]
  <2>1. Key(Row(n), dy) = cube /\ Key(Row(n), dz) = opp
    BY <1>4, <1>5
  <2>2. Opposite(y, z, Key(Row(n), dy)) = Key(Row(n), dz)
    BY <2>1
  <2>3. RowOf(sk, n) \in RowModels(n, {})
    BY RowOfModel
  <2>4. QED
    BY <2>2, <2>3 DEF Alike
<1>6. sk[y][cube] = sk[z][opp]
  <2> DEFINE k == [u \in dy \cup dz |-> IF u \in dy THEN cube[u] ELSE opp[u]]
  <2>1. k \in [dy \cup dz -> BOOLEAN]
    BY <1>3
  <2>2. PICK n \in AllRows : Key(Row(n), dy \cup dz) = k
    BY <1>1, <2>1, RowWith
  <2>3. \A u \in dy \cup dz : Row(n)[u] = k[u]
    <3>1. dy \cup dz \in SUBSET f.universals
      BY <1>1
    <3>2. \A u \in dy \cup dz : Key(Row(n), dy \cup dz)[u] = Row(n)[u]
      BY <3>1, KeyFacts
    <3>3. QED
      BY <2>2, <3>2
  <2>4. Holds(cube, n)
    BY <2>3 DEF Holds
  <2>5. Holds(opp, n)
    <3>1. \A u \in dz : k[u] = opp[u]
      BY <1>2
    <3>2. DOMAIN opp = dz
      BY <1>3
    <3>3. QED
      BY <2>3, <3>1, <3>2 DEF Holds
  <2>6. Key(Row(n), dy) = cube /\ Key(Row(n), dz) = opp
    BY <1>4, <2>4, <2>5
  <2>7. RowOf(sk, n)[y] = RowOf(sk, n)[z]
    BY <1>5, <2>4, <2>5
  <2>8. sk \in SkolemTuples(f)
    BY TheModels
  <2>9. sk[y][cube] \in BOOLEAN /\ sk[z][opp] \in BOOLEAN
    <3>1. sk[y][Key(Row(n), dy)] \in BOOLEAN /\ sk[z][Key(Row(n), dz)] \in BOOLEAN
      BY <2>8, TableLookup
    <3>2. QED
      BY <2>6, <3>1
  <2>10. /\ RowOf(sk, n)[y] = IF sk[y][cube] THEN 1 ELSE -1
         /\ RowOf(sk, n)[z] = IF sk[z][opp] THEN 1 ELSE -1
    BY <2>6 DEF RowOf
  <2> HIDE DEF opp
  <2>11. sk[y][cube] <=> sk[z][opp]
    <3>1. ASSUME sk[y][cube], ~ sk[z][opp] PROVE FALSE
      <4>1. RowOf(sk, n)[y] = 1
        BY <2>10, <3>1
      <4>2. RowOf(sk, n)[z] = -1
        BY <2>10, <3>1
      <4>3. 1 = -1
        BY <2>7, <4>1, <4>2
      <4>4. QED
        BY <4>3
    <3>2. ASSUME ~ sk[y][cube], sk[z][opp] PROVE FALSE
      <4>1. RowOf(sk, n)[y] = -1
        BY <2>10, <3>2
      <4>2. RowOf(sk, n)[z] = 1
        BY <2>10, <3>2
      <4>3. 1 = -1
        BY <2>7, <4>1, <4>2
      <4>4. QED
        BY <4>3
    <3>3. QED
      BY <3>1, <3>2
  <2>12. QED
    BY <2>9, <2>11
<1>7. QED
  BY <1>5, <1>6

\* A cell is a row of the table of y, or its whole table, with what that is to its partner.
CellShape(c, y, cube) ==
    /\ y \in Exs \ DOMAIN defs /\ DOMAIN cube \subseteq f.dependencies[y]
    /\ ~ (Cardinality(f.dependencies[y]) > Cap) => cube \in [f.dependencies[y] -> BOOLEAN]
    /\ \/ c = {<<y, cube>>}
       \/ /\ y \in DOMAIN partner
          /\ c = {<<y, cube>>, <<partner[y], Opposite(y, partner[y], cube)>>}

\* The cells that are known have that shape.
LEMMA CellShapes ==
    ASSUME scenario \in Scenarios, NEW c, CellKnown(c)
    PROVE  \E y, cube : CellShape(c, y, cube)
<1>1. PICK y \in Exs \ DOMAIN defs, n \in AllRows : c = CellFor(y, n)
  BY DEF CellKnown
<1> DEFINE d == f.dependencies[y]
           cube == IF Cardinality(d) > Cap THEN << >> ELSE Key(Row(n), d)
<1>2. d \in SUBSET f.universals
  BY TheFormula
<1>3. Key(Row(n), d) \in [d -> BOOLEAN]
  BY <1>2, KeyFacts
<1>4. DOMAIN cube \subseteq d /\ (~ (Cardinality(d) > Cap) => cube \in [d -> BOOLEAN])
  BY <1>3
<1>5. c = {<<y, cube>>} \cup
          {<<partner[z], Opposite(z, partner[z], cube)>> : z \in {y} \cap DOMAIN partner}
  BY <1>1 DEF CellFor
<1> HIDE DEF cube
<1>6. CASE y \in DOMAIN partner
  <2>1. {<<partner[z], Opposite(z, partner[z], cube)>> : z \in {y} \cap DOMAIN partner}
           = {<<partner[y], Opposite(y, partner[y], cube)>>}
    BY <1>6
  <2>2. c = {<<y, cube>>, <<partner[y], Opposite(y, partner[y], cube)>>}
    BY <1>5, <2>1
  <2>3. CellShape(c, y, cube)
    BY <1>4, <1>6, <2>2 DEF CellShape
  <2>4. QED
    BY <2>3
<1>7. CASE y \notin DOMAIN partner
  <2>1. {<<partner[z], Opposite(z, partner[z], cube)>> : z \in {y} \cap DOMAIN partner} = {}
    BY <1>7
  <2>2. c = {<<y, cube>>}
    BY <1>5, <2>1
  <2>3. CellShape(c, y, cube)
    BY <1>4, <2>2 DEF CellShape
  <2>4. QED
    BY <2>3
<1>8. QED
  BY <1>6, <1>7

\* Its links are about existentials that are not defined.
LinkOK(l) ==
    /\ l[1] \in Exs \ DOMAIN defs
    /\ DOMAIN l[2] \subseteq f.dependencies[l[1]]
    /\ ~ (Cardinality(f.dependencies[l[1]]) > Cap) => l[2] \in [f.dependencies[l[1]] -> BOOLEAN]

\* It is so for every link of a cell that is known.
LEMMA LinkFacts ==
    ASSUME scenario \in Scenarios, Decided, Partners, NEW c, CellKnown(c), NEW l \in c
    PROVE  LinkOK(l)
<1>1. PICK y, cube : CellShape(c, y, cube)
  BY CellShapes
<1>2. CASE l = <<y, cube>>
  BY <1>1, <1>2 DEF CellShape, LinkOK
<1>3. CASE y \in DOMAIN partner /\ l = <<partner[y], Opposite(y, partner[y], cube)>>
  <2> DEFINE z == partner[y]
  <2>1. z \in DOMAIN partner /\ Alike(y, z)
    BY <1>3 DEF Partners
  <2>2. y \in Exs /\ z \in Exs \ DOMAIN defs
    BY <1>1, <2>1 DEF CellShape, Partners, Decided
  <2>3. Cardinality(f.dependencies[y]) = Cardinality(f.dependencies[z])
    BY <2>1 DEF Alike
  <2>4. /\ DOMAIN Opposite(y, z, cube) \subseteq f.dependencies[z]
        /\ cube \in [f.dependencies[y] -> BOOLEAN] =>
              Opposite(y, z, cube) \in [f.dependencies[z] -> BOOLEAN]
    BY <2>2, <2>3, OppositeCube
  <2>5. ~ (Cardinality(f.dependencies[z]) > Cap) => cube \in [f.dependencies[y] -> BOOLEAN]
    BY <1>1, <2>3 DEF CellShape
  <2>6. l[1] = z /\ l[2] = Opposite(y, z, cube)
    BY <1>3
  <2>7. QED
    BY <2>2, <2>4, <2>5, <2>6 DEF LinkOK
<1>4. QED
  BY <1>1, <1>2, <1>3 DEF CellShape

\* Two things are more than one.
LEMMA PairCount ==
    ASSUME NEW a, NEW b, a # b
    PROVE  Cardinality({a, b}) > 1
<1>1. IsFiniteSet({a}) /\ Cardinality({a}) = 1
  BY FS_Singleton
<1>2. Cardinality({a} \cup {b}) = 2
  BY <1>1, FS_AddElement
<1>3. {a} \cup {b} = {a, b}
  OBVIOUS
<1>4. QED
  BY <1>2, <1>3

\* Unless a cell links the tables of two partners, its links agree in all tables that are
\* a model.
LEMMA LinksAgree ==
    ASSUME scenario \in Scenarios, Decided, Partners, Learnt, ~ ConstantLink,
           NEW sk \in Models[f], NEW c \in DOMAIN arbs, NEW k \in c, NEW l \in c
    PROVE  /\ \A n \in AllRows : Holds(k[2], n) /\ Holds(l[2], n)
                 => RowOf(sk, n)[k[1]] = RowOf(sk, n)[l[1]]
           /\ sk[k[1]][k[2]] = sk[l[1]][l[2]]
<1>1. PICK y, cube : CellShape(c, y, cube)
  BY CellShapes DEF Learnt
<1>2. CASE k = l
  BY <1>2
<1>3. CASE k # l
  <2> DEFINE z == partner[y]
             opp == Opposite(y, z, cube)
  <2>1. y \in DOMAIN partner /\ c = {<<y, cube>>, <<z, opp>>}
    BY <1>1, <1>3 DEF CellShape
  <2>2. z \in DOMAIN partner /\ Alike(y, z) /\ y \in Exs /\ z \in Exs
    BY <2>1 DEF Partners, Decided
  <2>3. y # z /\ Cardinality(f.dependencies[y]) = Cardinality(f.dependencies[z])
    BY <2>2 DEF Alike
  <2>4. ~ (Cardinality(f.dependencies[y]) > Cap)
    <3>1. SUFFICES ASSUME Cardinality(f.dependencies[y]) > Cap PROVE ConstantLink
      OBVIOUS
    <3>2. Cardinality(c) > 1
      BY <2>1, <2>3, PairCount
    <3>3. \A x \in c : Cardinality(f.dependencies[x[1]]) > Cap
      BY <2>1, <2>3, <3>1
    <3>4. QED
      BY <3>2, <3>3 DEF ConstantLink
  <2>5. cube \in [f.dependencies[y] -> BOOLEAN]
    BY <1>1, <2>4 DEF CellShape
  <2>6. /\ \A n \in AllRows : Holds(cube, n) /\ Holds(opp, n)
                 => RowOf(sk, n)[y] = RowOf(sk, n)[z]
        /\ sk[y][cube] = sk[z][opp]
    BY <2>2, <2>5, PartnersAgree
  <2> HIDE DEF opp, z
  <2>7. CASE k = <<y, cube>> /\ l = <<z, opp>>
    BY <2>6, <2>7
  <2>8. CASE l = <<y, cube>> /\ k = <<z, opp>>
    BY <2>6, <2>8
  <2>9. QED
    BY <1>3, <2>1, <2>7, <2>8
<1>4. QED
  BY <1>2, <1>3

\* What is in a sequence is in the set that it is over.
LEMMA SeqElement ==
    ASSUME NEW S, NEW s \in Seq(S), NEW e \in Range(s)
    PROVE  e \in S
<1>1. PICK i \in DOMAIN s : e = s[i]
  BY DEF Range
<1>2. QED
  BY <1>1

\* Then each row of these tables is consistent with what was learned.
LEMMA ConsistentRow ==
    ASSUME scenario \in Scenarios, Decided, Partners, Learnt, LearntSound, ~ ConstantLink,
           NEW sk \in Models[f], NEW n \in AllRows
    PROVE  RowOf(sk, n) \in Consistent(n)
<1>1. RowOf(sk, n) \in RowModels(n, {})
  BY RowOfModel
<1>2. Spares(sk)
  BY DEF LearntSound
<1>3. Forced(n, RowOf(sk, n))
  <2>1. ASSUME NEW c \in Range(forcing), Holds(c.ante, n) PROVE RowOf(sk, n)[c.y] = c.value
    <3>1. Obeys(sk, c.y, c.ante, c.value)
      BY <1>2 DEF Spares
    <3>2. c \in [ante : Cubes, y : Exs \ DOMAIN defs, value : {-1, 1}]
      BY SeqElement DEF Learnt
    <3>3. c.y \in Exs /\ c.value \in {-1, 1}
      BY <3>2
    <3>4. DOMAIN c.ante \subseteq f.dependencies[c.y]
      BY DEF Learnt
    <3>5. QED
      BY <2>1, <3>1, <3>3, <3>4, ObeysRows
  <2>2. QED
    BY <2>1 DEF Forced
<1>4. Tied(n, RowOf(sk, n))
  BY LinksAgree DEF Tied
<1>5. QED
  BY <1>1, <1>3, <1>4 DEF Consistent

\* So a row without a consistent model refutes the formula.
LEMMA RowIsRefuted ==
    ASSUME scenario \in Scenarios, Decided, Partners, Learnt, LearntSound, ~ ConstantLink,
           row \in AllRows, Refuting({})
    PROVE  ~ IsTrue(f)
<1>1. SUFFICES ASSUME NEW sk \in Models[f] PROVE FALSE
  BY TheModels
<1>2. RowOf(sk, row) \in Consistent(row)
  BY ConsistentRow
<1>3. QED
  BY <1>2 DEF Refuting, Chosen

\* A core excludes no tables that are a model.
LEMMA CoreSound ==
    ASSUME scenario \in Scenarios, Decided, Partners, Learnt, LearntSound, ~ ConstantLink,
           row \in AllRows, NEW core \in CellCores, NEW sk \in Models[f]
    PROVE  \E x \in core : \E l \in x[1] : ~ Obeys(sk, l[1], l[2], x[2])
<1> DEFINE here == {c \in DOMAIN arbs : \E l \in c : Holds(l[2], row)}
           wrong(c) == \A n \in AllRows : \A m \in Consistent(n) : ~ Chosen(n, m, {c})
<1>1. RowOf(sk, row) \in Consistent(row)
  BY ConsistentRow
<1>2. ASSUME NEW cs \in SUBSET DOMAIN arbs, ~ Chosen(row, RowOf(sk, row), cs)
      PROVE  \E c \in cs : \E l \in c : ~ Obeys(sk, l[1], l[2], arbs[c])
  <2>1. PICK c \in cs : \E l \in c : Holds(l[2], row) /\ RowOf(sk, row)[l[1]] # arbs[c]
    BY <1>2 DEF Chosen
  <2>2. PICK l \in c : Holds(l[2], row) /\ RowOf(sk, row)[l[1]] # arbs[c]
    BY <2>1
  <2>3. LinkOK(l) /\ arbs[c] \in {-1, 1}
    BY LinkFacts DEF Learnt
  <2>4. ~ Obeys(sk, l[1], l[2], arbs[c])
    BY <2>2, <2>3, ObeysRows DEF LinkOK
  <2>5. QED
    BY <2>4
<1>3. CASE \E cs \in SUBSET here : Refuting(cs) /\ core = {<<c, arbs[c]>> : c \in cs}
  <2>1. PICK cs \in SUBSET here : Refuting(cs) /\ core = {<<c, arbs[c]>> : c \in cs}
    BY <1>3
  <2>2. ~ Chosen(row, RowOf(sk, row), cs)
    BY <1>1, <2>1 DEF Refuting
  <2>3. PICK c \in cs : \E l \in c : ~ Obeys(sk, l[1], l[2], arbs[c])
    BY <1>2, <2>1, <2>2
  <2>4. <<c, arbs[c]>> \in core
    BY <2>1
  <2>5. QED
    BY <2>3, <2>4
<1>4. CASE \E c \in here : wrong(c) /\ core = {<<c, 1>>, <<c, -1>>}
  <2>1. PICK c \in here : wrong(c) /\ core = {<<c, 1>>, <<c, -1>>}
    BY <1>4
  <2>2. ~ Chosen(row, RowOf(sk, row), {c})
    BY <1>1, <2>1
  <2>3. \E l \in c : ~ Obeys(sk, l[1], l[2], arbs[c])
    BY <1>2, <2>1, <2>2
  <2>4. arbs[c] \in {-1, 1}
    BY DEF Learnt
  <2>5. <<c, arbs[c]>> \in core
    BY <2>1, <2>4
  <2>6. QED
    BY <2>3, <2>5
<1>5. QED
  BY <1>3, <1>4 DEF CellCores

\* With cells for single rows only, tables that are a model are a choice that the cores
\* allow.
LEMMA ChoiceLeft ==
    ASSUME scenario \in Scenarios, Decided, Partners, Learnt, ~ AnyConst,
           NEW sk \in Models[f], NEW cores,
           \A core \in cores : \A x \in core : x[1] \in DOMAIN arbs /\ x[2] \in {-1, 1},
           \A core \in cores : \E x \in core : \E l \in x[1] : ~ Obeys(sk, l[1], l[2], x[2])
    PROVE  CellChoices(cores) # {}
<1> DEFINE p == [c \in DOMAIN arbs |-> IF \E l \in c : sk[l[1]][l[2]] THEN 1 ELSE -1]
<1>1. ~ ConstantLink
  <2>1. SUFFICES ASSUME NEW c \in DOMAIN arbs, Cardinality(c) > 1,
                        \A l \in c : Cardinality(f.dependencies[l[1]]) > Cap
                 PROVE  AnyConst
    BY DEF ConstantLink
  <2>2. PICK y, cube : CellShape(c, y, cube)
    BY CellShapes DEF Learnt
  <2>3. <<y, cube>> \in c
    BY <2>2 DEF CellShape
  <2>4. QED
    BY <2>1, <2>3 DEF AnyConst
<1>2. p \in [DOMAIN arbs -> {-1, 1}]
  OBVIOUS
<1>3. ASSUME NEW core \in cores PROVE \E x \in core : p[x[1]] # x[2]
  <2>1. PICK x \in core : \E l \in x[1] : ~ Obeys(sk, l[1], l[2], x[2])
    OBVIOUS
  <2>2. PICK l \in x[1] : ~ Obeys(sk, l[1], l[2], x[2])
    BY <2>1
  <2>3. x[1] \in DOMAIN arbs /\ x[2] \in {-1, 1}
    OBVIOUS
  <2>4. LinkOK(l) /\ ~ (Cardinality(f.dependencies[l[1]]) > Cap)
    BY <2>3, LinkFacts DEF Learnt, AnyConst
  <2>5. l[1] \in Exs /\ l[2] \in [f.dependencies[l[1]] -> BOOLEAN]
    BY <2>4 DEF LinkOK
  <2>6. DOMAIN sk[l[1]] = [f.dependencies[l[1]] -> BOOLEAN] /\ sk[l[1]][l[2]] \in BOOLEAN
    <3>1. sk \in SkolemTuples(f)
      BY TheModels
    <3>2. sk[l[1]] \in [[f.dependencies[l[1]] -> BOOLEAN] -> BOOLEAN]
      BY <2>5, <3>1, TableLookup
    <3>3. QED
      BY <2>5, <3>2
  <2>7. sk[l[1]][l[2]] # (x[2] = 1)
    <3>1. SUFFICES ASSUME sk[l[1]][l[2]] = (x[2] = 1), NEW k \in DOMAIN sk[l[1]],
                          \A u \in DOMAIN l[2] : k[u] = l[2][u]
                   PROVE  sk[l[1]][k] = (x[2] = 1)
      BY <2>2 DEF Obeys
    <3>2. k = l[2]
      BY <2>5, <2>6, <3>1
    <3>3. QED
      BY <3>1, <3>2
  <2>8. p[x[1]] = 1 <=> sk[l[1]][l[2]]
    <3>1. \A k \in x[1] : sk[k[1]][k[2]] = sk[l[1]][l[2]]
      BY <1>1, <2>3, LinksAgree
    <3>2. (\E k \in x[1] : sk[k[1]][k[2]]) <=> sk[l[1]][l[2]]
      BY <3>1
    <3>3. p[x[1]] = IF \E k \in x[1] : sk[k[1]][k[2]] THEN 1 ELSE -1
      BY <2>3
    <3>4. QED
      BY <3>2, <3>3
  <2>9. p[x[1]] # x[2]
    <3> HIDE DEF p
    <3>1. p[x[1]] = x[2] => (x[2] = 1 <=> sk[l[1]][l[2]])
      BY <2>8
    <3>2. QED
      BY <2>6, <2>7, <3>1
  <2>10. QED
    BY <2>9
<1>4. p \in CellChoices(cores)
  BY <1>2, <1>3 DEF CellChoices
<1>5. QED
  BY <1>4

-----------------------------------------------------------------------------
(* Definability: what stays.                                               *)

\* The formula decides what cubes mean.
LEMMA SameCubes ==
    ASSUME scenario' = scenario
    PROVE  /\ \A cube, n : Holds(cube, n)' <=> Holds(cube, n)
           /\ \A y, z, cube : Opposite(y, z, cube)' = Opposite(y, z, cube)
           /\ \A y, z : Alike(y, z)' <=> Alike(y, z)
           /\ \A y, n : Key(Row(n), f.dependencies[y])' = Key(Row(n), f.dependencies[y])
           /\ \A y, zs : Views(y, zs)' = Views(y, zs)
           /\ \A y, zs, n, m : Seen(y, zs, n, m)' = Seen(y, zs, n, m)
           /\ Cubes' = Cubes
<1>1. /\ f' = f /\ Exs' = Exs /\ AllRows' = AllRows
      /\ \A n : Row(n)' = Row(n)
  BY SameFormula
<1>2. \A n, ps : RowModels(n, ps)' = RowModels(n, ps)
  BY SameModels
<1>3. \A cube, n : Holds(cube, n)' <=> Holds(cube, n)
  BY <1>1 DEF Holds
<1>4. \A y, z, cube : Opposite(y, z, cube)' = Opposite(y, z, cube)
  BY <1>1 DEF Opposite
<1>5. \A y, n : Key(Row(n), f.dependencies[y])' = Key(Row(n), f.dependencies[y])
  BY <1>1
<1>6. \A y, z : Alike(y, z)' <=> Alike(y, z)
  BY <1>1, <1>2, <1>4, <1>5 DEF Alike
<1>7. \A y, zs : Views(y, zs)' = Views(y, zs)
  BY <1>1 DEF Views
<1>8. \A y, zs, n, m : Seen(y, zs, n, m)' = Seen(y, zs, n, m)
  BY <1>1, <1>5 DEF Seen
<1>9. Cubes' = Cubes
  BY <1>1 DEF Cubes
<1>10. QED
  BY <1>3, <1>4, <1>5, <1>6, <1>7, <1>8, <1>9

\* The roots and their partners decide what the cells are.
LEMMA SameCells ==
    ASSUME scenario' = scenario, UNCHANGED <<roots, partner>>
    PROVE  /\ Cap' = Cap
           /\ \A y, n : CellFor(y, n)' = CellFor(y, n)
<1>1. f' = f /\ \A n : Row(n)' = Row(n)
  BY SameFormula
<1>2. \A y, z, cube : Opposite(y, z, cube)' = Opposite(y, z, cube)
  BY SameCubes
<1>3. Cap' = Cap
  BY DEF Cap
<1>4. \A y, n : Key(Row(n), f.dependencies[y])' = Key(Row(n), f.dependencies[y])
  BY SameCubes
<1>5. \A y, n : CellFor(y, n)' = CellFor(y, n)
  BY <1>1, <1>2, <1>3, <1>4 DEF CellFor
<1>6. QED
  BY <1>3, <1>5

\* What the preparation leaves to the loop.
Prep == <<roots, defs, partner>>

\* It stays when its fields stay.
LEMMA SamePreparation ==
    ASSUME scenario' = scenario, UNCHANGED Prep
    PROVE  /\ Decided /\ undefined' \in SUBSET Exs => Decided'
           /\ Partners => Partners'
           /\ \A c : CellKnown(c)' <=> CellKnown(c)
           /\ \A b : OrderedBelow(b)' <=> OrderedBelow(b)
<1>1. f' = f /\ Exs' = Exs /\ AllRows' = AllRows
  BY SameFormula
<1>2. /\ \A y, z : Alike(y, z)' <=> Alike(y, z)
      /\ \A y, zs : Views(y, zs)' = Views(y, zs)
  BY SameCubes
<1>3. roots' = roots /\ defs' = defs /\ partner' = partner
  BY DEF Prep
<1>4. \A y, n : CellFor(y, n)' = CellFor(y, n)
  BY <1>3, SameCells
<1>5. \A c : CellKnown(c)' <=> CellKnown(c)
  BY <1>1, <1>3, <1>4 DEF CellKnown
<1>6. \A b : OrderedBelow(b)' <=> OrderedBelow(b)
  BY <1>1, <1>3 DEF OrderedBelow
<1>7. Partners => Partners'
  BY <1>2, <1>3 DEF Partners
<1>8. \A y : DefOK(y) => DefOK(y)'
  BY <1>1, <1>2, <1>3 DEF DefOK
<1>9. Decided /\ undefined' \in SUBSET Exs => Decided'
  BY <1>1, <1>3, <1>8 DEF Decided
<1>10. QED
  BY <1>5, <1>6, <1>7, <1>9

\* What was learned says the same of the tables.
LEMMA SameSpares ==
    ASSUME scenario' = scenario, UNCHANGED <<forcing, conflicts>>
    PROVE  \A sk : Spares(sk)' <=> Spares(sk)
<1>1. \A sk, y, cube, v : Obeys(sk, y, cube, v)' <=> Obeys(sk, y, cube, v)
  BY DEF Obeys
<1>2. QED
  BY <1>1 DEF Spares

\* So does what is learned.
LEMMA SameLearnt ==
    ASSUME scenario' = scenario, UNCHANGED Prep, UNCHANGED <<forcing, arbs, conflicts>>
    PROVE  /\ Learnt => Learnt'
           /\ LearntSound => LearntSound'
           /\ ConstantLink' <=> ConstantLink
           /\ AnyConst' <=> AnyConst
           /\ \A n : Encoded(n)' = Encoded(n)
           /\ Masked' <=> Masked
<1>1. /\ f' = f /\ Exs' = Exs /\ AllRows' = AllRows
      /\ Models[f]' = Models[f]
  BY SameFormula, SameModels
<1>2. roots' = roots /\ defs' = defs /\ partner' = partner
  BY DEF Prep
<1>3. Cap' = Cap /\ Cubes' = Cubes
  BY <1>2, SameCells, SameCubes
<1>4. ConstantLink' <=> ConstantLink
  BY <1>1, <1>3 DEF ConstantLink
<1>5. AnyConst' <=> AnyConst
  BY <1>1, <1>3 DEF AnyConst
<1>6. LearntSound => LearntSound'
  BY <1>1, <1>4, SameSpares DEF LearntSound
<1>7. \A c : CellKnown(c)' <=> CellKnown(c)
  BY SamePreparation
<1>8. Learnt => Learnt'
  BY <1>1, <1>2, <1>3, <1>7 DEF Learnt
<1>9. /\ \A cube, n : Holds(cube, n)' <=> Holds(cube, n)
      /\ \A y, zs, n, m : Seen(y, zs, n, m)' = Seen(y, zs, n, m)
  BY SameCubes
<1>10. /\ \A n, m : Forced(n, m)' <=> Forced(n, m)
       /\ \A n, m, cs : Chosen(n, m, cs)' <=> Chosen(n, m, cs)
       /\ \A n, m : Defined(n, m)' <=> Defined(n, m)
  BY <1>2, <1>9 DEF Forced, Chosen, Defined
<1>11. \A n : Encoded(n)' = Encoded(n)
  BY <1>1, <1>10 DEF Encoded
<1>12. Masked' <=> Masked
  BY <1>1, <1>11 DEF Masked
<1>13. QED
  BY <1>4, <1>5, <1>6, <1>8, <1>11, <1>12

-----------------------------------------------------------------------------
(* Definability: the tables of a certificate.                              *)

\* The clauses and the cells for y in row n.
ClausesFor(y, n) == {i \in DOMAIN forcing : forcing[i].y = y /\ Holds(forcing[i].ante, n)}
CellsFor(y, n) == {c \in DOMAIN arbs : \E l \in c : l[1] = y /\ Holds(l[2], n)}

\* A function is one of them, or false.
LEMMA FunctionIs ==
    ASSUME Learnt, NEW y, NEW n
    PROVE  \/ \E i \in ClausesFor(y, n) : Function(y, n) = forcing[i].value
           \/ ClausesFor(y, n) = {} /\ \E c \in CellsFor(y, n) : Function(y, n) = arbs[c]
           \/ ClausesFor(y, n) = {} /\ CellsFor(y, n) = {} /\ Function(y, n) = -1
<1> DEFINE clauses == ClausesFor(y, n)
           cells == CellsFor(y, n)
<1>1. Function(y, n) = IF clauses # {} THEN forcing[Min(clauses)].value
                       ELSE IF cells # {} THEN arbs[CHOOSE c \in cells : TRUE] ELSE -1
  BY DEF Function, ClausesFor, CellsFor
<1>2. clauses # {} => Min(clauses) \in clauses
  <2>1. clauses \subseteq 1..Len(forcing) /\ Len(forcing) \in Nat
    BY DEF Learnt, ClausesFor
  <2>2. IsFiniteSet(1..Len(forcing))
    BY <2>1, FS_Interval
  <2>3. IsFiniteSet(clauses) /\ clauses \in SUBSET Int
    BY <2>1, <2>2, FS_Subset
  <2>4. QED
    BY <2>3, MinIsLeast
<1>3. cells # {} => (CHOOSE c \in cells : TRUE) \in cells
  OBVIOUS
<1> HIDE DEF clauses, cells
<1>4. CASE clauses # {}
  BY <1>1, <1>2, <1>4 DEF clauses
<1>5. CASE clauses = {} /\ cells # {}
  BY <1>1, <1>3, <1>5 DEF clauses, cells
<1>6. CASE clauses = {} /\ cells = {}
  BY <1>1, <1>6 DEF clauses, cells
<1>7. QED
  BY <1>4, <1>5, <1>6

\* It is a value,
LEMMA FunctionType ==
    ASSUME Learnt, NEW y, NEW n
    PROVE  Function(y, n) \in {-1, 1}
<1>1. ASSUME NEW i \in ClausesFor(y, n) PROVE forcing[i].value \in {-1, 1}
  <2>1. forcing[i] \in Range(forcing)
    BY DEF ClausesFor, Range
  <2>2. forcing[i] \in [ante : Cubes, y : Exs \ DOMAIN defs, value : {-1, 1}]
    BY <2>1, SeqElement DEF Learnt
  <2>3. QED
    BY <2>2
<1>2. \A c \in CellsFor(y, n) : arbs[c] \in {-1, 1}
  BY DEF Learnt, CellsFor
<1>3. QED
  BY <1>1, <1>2, FunctionIs

\* and agrees with whatever satisfies the clauses and has the values of the cells.
LEMMA FunctionAgrees ==
    ASSUME Learnt, NEW n, NEW e \in Encoded(n), NEW y,
           ClausesFor(y, n) # {} \/ CellsFor(y, n) # {}
    PROVE  Function(y, n) = e[y]
<1>1. Forced(n, e) /\ Chosen(n, e, DOMAIN arbs)
  BY DEF Encoded
<1>2. \A i \in ClausesFor(y, n) : forcing[i].value = e[y]
  BY <1>1 DEF ClausesFor, Forced, Range
<1>3. \A c \in CellsFor(y, n) : arbs[c] = e[y]
  BY <1>1 DEF CellsFor, Chosen
<1>4. QED
  BY <1>2, <1>3, FunctionIs

\* Rows that are the same for y have the same clauses and cells.
LEMMA FunctionLocal ==
    ASSUME scenario \in Scenarios, Decided, Partners, Learnt, NEW y \in Exs, NEW n, NEW k,
           Key(Row(n), f.dependencies[y]) = Key(Row(k), f.dependencies[y])
    PROVE  Function(y, n) = Function(y, k)
<1>1. f.dependencies[y] \in SUBSET f.universals
  BY TheFormula
<1>2. \A u \in f.dependencies[y] : Row(n)[u] = Row(k)[u]
  <2>1. \A u \in f.dependencies[y] : Key(Row(n), f.dependencies[y])[u] = Row(n)[u]
    BY <1>1, KeyFacts
  <2>2. \A u \in f.dependencies[y] : Key(Row(k), f.dependencies[y])[u] = Row(k)[u]
    BY <1>1, KeyFacts
  <2>3. QED
    BY <2>1, <2>2
<1>3. \A cube : DOMAIN cube \subseteq f.dependencies[y] => (Holds(cube, n) <=> Holds(cube, k))
  BY <1>2 DEF Holds
<1>4. ClausesFor(y, n) = ClausesFor(y, k)
  <2>1. ASSUME NEW i \in DOMAIN forcing, forcing[i].y = y
        PROVE  DOMAIN forcing[i].ante \subseteq f.dependencies[y]
    <3>1. forcing[i] \in Range(forcing)
      BY DEF Range
    <3>2. QED
      BY <2>1, <3>1 DEF Learnt
  <2>2. \A i \in DOMAIN forcing : forcing[i].y = y =>
           (Holds(forcing[i].ante, n) <=> Holds(forcing[i].ante, k))
    BY <1>3, <2>1
  <2>3. QED
    BY <2>2 DEF ClausesFor
<1>5. CellsFor(y, n) = CellsFor(y, k)
  <2>1. ASSUME NEW c \in DOMAIN arbs, NEW l \in c, l[1] = y
        PROVE  Holds(l[2], n) <=> Holds(l[2], k)
    <3>1. LinkOK(l)
      BY LinkFacts DEF Learnt
    <3>2. QED
      BY <1>3, <2>1, <3>1 DEF LinkOK
  <2>2. QED
    BY <2>1 DEF CellsFor
<1>6. \A j : Function(y, j) = IF ClausesFor(y, j) # {} THEN forcing[Min(ClausesFor(y, j))].value
                             ELSE IF CellsFor(y, j) # {} THEN arbs[CHOOSE c \in CellsFor(y, j) : TRUE]
                             ELSE -1
  BY DEF Function, ClausesFor, CellsFor
<1>7. QED
  BY <1>4, <1>5, <1>6

\* What a row of the certificate is: the values of the definitions follow from those of
\* the functions.
DefFits(h, n, y) == h[y] = defs[y].value[Seen(y, defs[y].inputs, n, h)]
CertRow(h, n) ==
    /\ h \in [Exs -> {-1, 1}]
    /\ \A y \in Exs \ DOMAIN defs : h[y] = Function(y, n)
    /\ \A y \in DOMAIN defs : DefFits(h, n, y)

\* A definition gives a value to what it is over.
LEMMA DefValue ==
    ASSUME scenario \in Scenarios, Decided, NEW n, NEW h \in [Exs -> {-1, 1}], NEW y \in DOMAIN defs
    PROVE  /\ defs[y].value[Seen(y, defs[y].inputs, n, h)] \in {-1, 1}
           /\ defs[y].inputs \subseteq Exs /\ y \in Exs
<1>1. DefOK(y) /\ y \in Exs /\ DOMAIN defs \subseteq Exs /\ roots \subseteq Exs
  BY DEF Decided
<1>2. defs[y].inputs \subseteq Exs
  BY <1>1 DEF DefOK
<1>3. f.dependencies[y] \in SUBSET f.universals
  BY <1>1, TheFormula
<1>4. Key(Row(n), f.dependencies[y]) \in [f.dependencies[y] -> BOOLEAN]
  BY <1>3, KeyFacts
<1>5. [z \in defs[y].inputs |-> h[z]] \in [defs[y].inputs -> {-1, 1}]
  BY <1>2
<1>6. Seen(y, defs[y].inputs, n, h) \in Views(y, defs[y].inputs)
  BY <1>4, <1>5 DEF Seen, Views
<1>7. defs[y].value \in [Views(y, defs[y].inputs) -> {-1, 1}]
  BY <1>1 DEF DefOK
<1>8. QED
  BY <1>1, <1>2, <1>6, <1>7

\* There is one, as each definition comes after what it is over.
LEMMA CertificateExists ==
    ASSUME scenario \in Scenarios, Decided, Learnt, NEW b \in Nat, OrderedBelow(b), NEW n
    PROVE  \E h : CertRow(h, n)
<1>1. PICK r \in [Exs -> 0..b] :
         \A y \in DOMAIN defs : r[y] < b /\ \A z \in defs[y].inputs : r[z] < r[y]
  BY DEF OrderedBelow
<1> DEFINE Upto(h, j) ==
             /\ h \in [Exs -> {-1, 1}]
             /\ \A y \in Exs \ DOMAIN defs : h[y] = Function(y, n)
             /\ \A y \in DOMAIN defs : r[y] < j => DefFits(h, n, y)
           T == {j \in Nat : \E h : Upto(h, j)}
<1>2. 0 \in T
  <2> DEFINE h == [y \in Exs |-> IF y \in DOMAIN defs THEN 1 ELSE Function(y, n)]
  <2>1. h \in [Exs -> {-1, 1}]
    BY FunctionType
  <2>2. \A y \in DOMAIN defs : ~ (r[y] < 0)
    BY <1>1 DEF Decided
  <2>3. \A y \in Exs \ DOMAIN defs : h[y] = Function(y, n)
    OBVIOUS
  <2>4. Upto(h, 0)
    BY <2>1, <2>2, <2>3
  <2>5. QED
    BY <2>4
<1>3. ASSUME NEW j \in 0..b - 1, j \in T PROVE j + 1 \in T
  <2>1. PICK g : Upto(g, j)
    BY <1>3
  <2> DEFINE val(y) == defs[y].value[Seen(y, defs[y].inputs, n, g)]
             h == [y \in Exs |-> IF y \in DOMAIN defs /\ r[y] = j THEN val(y) ELSE g[y]]
  <2>2. \A y \in DOMAIN defs : val(y) \in {-1, 1} /\ defs[y].inputs \subseteq Exs /\ y \in Exs
    BY <2>1, DefValue
  <2>3. h \in [Exs -> {-1, 1}]
    BY <2>1, <2>2
  <2>4. \A y \in Exs \ DOMAIN defs : h[y] = Function(y, n)
    BY <2>1
  <2>5. ASSUME NEW y \in DOMAIN defs, r[y] < j + 1 PROVE DefFits(h, n, y)
    <3>1. r[y] \in Nat /\ j \in Nat /\ \A z \in defs[y].inputs : r[z] \in Nat
      BY <1>1, <2>2
    <3>2. \A z \in defs[y].inputs : r[z] # j
      BY <1>1, <2>5, <3>1
    <3>3. \A z \in defs[y].inputs : h[z] = g[z]
      BY <2>2, <3>2
    <3>4. Seen(y, defs[y].inputs, n, h) = Seen(y, defs[y].inputs, n, g)
      <4> HIDE DEF h
      <4>1. QED
        BY <3>3 DEF Seen
    <3>5. CASE r[y] = j
      <4>1. h[y] = val(y)
        BY <2>2, <3>5
      <4>2. QED
        BY <3>4, <4>1 DEF DefFits
    <3>6. CASE r[y] # j
      <4>1. h[y] = g[y] /\ r[y] < j
        BY <2>2, <2>5, <3>1, <3>6
      <4>2. DefFits(g, n, y)
        BY <2>1, <4>1
      <4>3. QED
        BY <3>4, <4>1, <4>2 DEF DefFits
    <3>7. QED
      BY <3>5, <3>6
  <2> HIDE DEF h
  <2>6. Upto(h, j + 1)
    BY <2>3, <2>4, <2>5
  <2>7. QED
    BY <2>6
<1>4. 0..b \subseteq T
  <2> HIDE DEF T
  <2>1. QED
    BY <1>2, <1>3, UpTo
<1>5. PICK h : Upto(h, b)
  BY <1>4
<1>6. CertRow(h, n)
  BY <1>1, <1>5 DEF CertRow
<1>7. QED
  BY <1>6

\* What passes from what a definition is over to what it defines holds of all.
LEMMA ByDefinition ==
    ASSUME Decided, NEW b \in Nat, OrderedBelow(b), NEW S,
           Exs \ DOMAIN defs \subseteq S,
           \A y \in DOMAIN defs : defs[y].inputs \subseteq S => y \in S
    PROVE  Exs \subseteq S
<1>1. PICK r \in [Exs -> 0..b] :
         \A y \in DOMAIN defs : r[y] < b /\ \A z \in defs[y].inputs : r[z] < r[y]
  BY DEF OrderedBelow
<1> DEFINE T == {j \in Nat : \A y \in DOMAIN defs : r[y] < j => y \in S}
<1>2. DOMAIN defs \subseteq Exs /\ \A y \in DOMAIN defs : defs[y].inputs \subseteq Exs
  BY DEF Decided, DefOK
<1>3. 0 \in T
  BY <1>1, <1>2
<1>4. ASSUME NEW j \in 0..b - 1, j \in T PROVE j + 1 \in T
  <2>1. ASSUME NEW y \in DOMAIN defs, r[y] < j + 1 PROVE y \in S
    <3>1. \A z \in defs[y].inputs : z \in S
      <4>1. TAKE z \in defs[y].inputs
      <4>2. z \in Exs /\ r[z] \in 0..b /\ r[y] \in 0..b /\ r[z] < r[y] /\ j \in Nat
        BY <1>1, <1>2
      <4>3. r[z] < j
        BY <2>1, <4>2
      <4>4. QED
        BY <1>4, <4>2, <4>3
    <3>2. QED
      BY <3>1
  <2>2. QED
    BY <2>1
<1>5. 0..b \subseteq T
  <2> HIDE DEF T
  <2>1. QED
    BY <1>3, <1>4, UpTo
<1>6. b \in T
  BY <1>5
<1>7. DOMAIN defs \subseteq S
  BY <1>1, <1>6
<1>8. QED
  BY <1>7

\* So Certificate is one.
LEMMA CertificateIs ==
    ASSUME scenario \in Scenarios, Decided, Learnt, NEW b \in Nat, OrderedBelow(b), NEW n
    PROVE  CertRow(Certificate(n), n)
<1> DEFINE body(h) ==
             [y \in Exs |->
                 IF y \in DOMAIN defs
                 THEN defs[y].value[<<Key(Row(n), f.dependencies[y]), [z \in defs[y].inputs |-> h[z]]>>]
                 ELSE Function(y, n)]
<1>1. PICK g : CertRow(g, n)
  BY CertificateExists
<1>2. g = body(g)
  <2>1. \A y \in DOMAIN defs : y \in Exs
    BY DEF Decided
  <2>2. \A y \in Exs : g[y] = body(g)[y]
    BY <1>1, <2>1 DEF CertRow, DefFits, Seen
  <2>3. g \in [Exs -> {-1, 1}]
    BY <1>1 DEF CertRow
  <2>4. QED
    BY <2>2, <2>3
<1>3. Certificate(n) = body(Certificate(n))
  BY <1>2 DEF Certificate
<1> DEFINE h == Certificate(n)
<1> HIDE DEF h
<1>4. h = body(h)
  BY <1>3 DEF h
<1>5. \A y \in Exs \ DOMAIN defs : h[y] = Function(y, n)
  BY <1>4
<1>6. \A y \in DOMAIN defs : DefFits(h, n, y)
  <2>1. \A y \in DOMAIN defs : y \in Exs
    BY DEF Decided
  <2>2. QED
    BY <1>4, <2>1 DEF DefFits, Seen
<1>7. h \in [Exs -> {-1, 1}]
  <2> DEFINE S == {y \in Exs : h[y] = g[y]}
  <2>1. Exs \ DOMAIN defs \subseteq S
    BY <1>1, <1>5 DEF CertRow
  <2>2. ASSUME NEW y \in DOMAIN defs, defs[y].inputs \subseteq S PROVE y \in S
    <3>1. Seen(y, defs[y].inputs, n, h) = Seen(y, defs[y].inputs, n, g)
      BY <2>2 DEF Seen
    <3>2. QED
      BY <1>1, <1>6, <3>1 DEF CertRow, DefFits, Decided
  <2>3. Exs \subseteq S
    <3> HIDE DEF S
    <3>1. QED
      BY <2>1, <2>2, ByDefinition
  <2>4. g \in [Exs -> {-1, 1}]
    BY <1>1 DEF CertRow
  <2>5. DOMAIN h = Exs
    BY <1>4
  <2>6. \A y \in Exs : h[y] \in {-1, 1}
    BY <2>3, <2>4
  <2>7. h = [y \in Exs |-> h[y]]
    BY <1>4
  <2>8. QED
    BY <2>6, <2>7
<1>8. QED
  BY <1>5, <1>6, <1>7 DEF CertRow, h

\* In a row that the solver has not lost, the certificate satisfies what it knows.
LEMMA CertificateEncoded ==
    ASSUME scenario \in Scenarios, Decided, Partners, Learnt, NEW b \in Nat, OrderedBelow(b),
           NEW n, Encoded(n) # {}
    PROVE  Certificate(n) \in Encoded(n)
<1> DEFINE h == Certificate(n)
<1>1. CertRow(h, n)
  BY CertificateIs
<1> HIDE DEF h
<1>2. PICK e \in Encoded(n) : TRUE
  OBVIOUS
<1>3. Forced(n, h)
  <2>1. ASSUME NEW c \in Range(forcing), Holds(c.ante, n) PROVE h[c.y] = c.value
    <3>1. PICK i \in DOMAIN forcing : c = forcing[i]
      BY DEF Range
    <3>2. c \in [ante : Cubes, y : Exs \ DOMAIN defs, value : {-1, 1}]
      BY SeqElement DEF Learnt
    <3>3. c.y \in Exs \ DOMAIN defs
      BY <3>2
    <3>4. i \in ClausesFor(c.y, n)
      BY <2>1, <3>1 DEF ClausesFor
    <3>5. Function(c.y, n) = e[c.y]
      BY <3>4, FunctionAgrees
    <3>6. e[c.y] = c.value
      BY <2>1 DEF Encoded, Forced
    <3>7. QED
      BY <1>1, <3>3, <3>5, <3>6 DEF CertRow
  <2>2. QED
    BY <2>1 DEF Forced
<1>4. Chosen(n, h, DOMAIN arbs)
  <2>1. ASSUME NEW c \in DOMAIN arbs, NEW l \in c, Holds(l[2], n) PROVE h[l[1]] = arbs[c]
    <3>1. LinkOK(l)
      BY LinkFacts DEF Learnt
    <3>2. c \in CellsFor(l[1], n)
      BY <2>1 DEF CellsFor
    <3>3. Function(l[1], n) = e[l[1]]
      BY <3>2, FunctionAgrees
    <3>4. e[l[1]] = arbs[c]
      BY <2>1 DEF Encoded, Chosen
    <3>5. QED
      BY <1>1, <3>1, <3>3, <3>4 DEF CertRow, LinkOK
  <2>2. QED
    BY <2>1 DEF Chosen
<1>5. Defined(n, h)
  BY <1>1 DEF CertRow, DefFits, Defined
<1>6. h \in Encoded(n)
  BY <1>1, <1>3, <1>4, <1>5 DEF CertRow, Encoded
<1>7. QED
  BY <1>6 DEF h

\* What is over fewer dependencies is the same in more rows.
LEMMA FewerDependencies ==
    ASSUME scenario \in Scenarios, NEW y \in Exs, NEW z \in Exs,
           f.dependencies[z] \subseteq f.dependencies[y], NEW n, NEW k,
           Key(Row(n), f.dependencies[y]) = Key(Row(k), f.dependencies[y])
    PROVE  Key(Row(n), f.dependencies[z]) = Key(Row(k), f.dependencies[z])
<1> DEFINE dy == f.dependencies[y]
           dz == f.dependencies[z]
<1>1. dy \in SUBSET f.universals /\ dz \in SUBSET f.universals
  BY TheFormula
<1>2. \A u \in dy : Key(Row(n), dy)[u] = Row(n)[u]
  BY <1>1, KeyFacts
<1>3. \A u \in dy : Key(Row(k), dy)[u] = Row(k)[u]
  BY <1>1, KeyFacts
<1>4. \A u \in dz : Row(n)[u] = Row(k)[u]
  BY <1>2, <1>3
<1>5. Holds(Key(Row(n), dz), k)
  <2>1. Key(Row(n), dz) \in [dz -> BOOLEAN] /\ \A u \in dz : Key(Row(n), dz)[u] = Row(n)[u]
    BY <1>1, KeyFacts
  <2>2. QED
    BY <1>4, <2>1 DEF Holds
<1>6. QED
  BY <1>1, <1>5, KeyFacts

\* The certificate depends on what its existentials depend on.
LEMMA CertificateLocal ==
    ASSUME scenario \in Scenarios, Decided, Partners, Learnt, NEW b \in Nat, OrderedBelow(b),
           NEW n, NEW k, NEW y \in Exs,
           Key(Row(n), f.dependencies[y]) = Key(Row(k), f.dependencies[y])
    PROVE  Certificate(n)[y] = Certificate(k)[y]
<1> DEFINE g == Certificate(n)
           h == Certificate(k)
           S == {z \in Exs : Key(Row(n), f.dependencies[z]) = Key(Row(k), f.dependencies[z])
                                => g[z] = h[z]}
<1>1. CertRow(g, n) /\ CertRow(h, k)
  BY CertificateIs
<1> HIDE DEF g, h
<1>2. Exs \ DOMAIN defs \subseteq S
  <2>1. SUFFICES ASSUME NEW z \in Exs \ DOMAIN defs,
                        Key(Row(n), f.dependencies[z]) = Key(Row(k), f.dependencies[z])
                 PROVE  g[z] = h[z]
    OBVIOUS
  <2>2. Function(z, n) = Function(z, k)
    BY <2>1, FunctionLocal
  <2>3. QED
    BY <1>1, <2>2 DEF CertRow
<1>3. ASSUME NEW z \in DOMAIN defs, defs[z].inputs \subseteq S PROVE z \in S
  <2>1. DefOK(z) /\ z \in Exs /\ defs[z].inputs \subseteq Exs
    BY <1>3 DEF Decided
  <2>2. SUFFICES ASSUME Key(Row(n), f.dependencies[z]) = Key(Row(k), f.dependencies[z])
                 PROVE  g[z] = h[z]
    BY <2>1
  <2>3. \A x \in defs[z].inputs : g[x] = h[x]
    <3>1. TAKE x \in defs[z].inputs
    <3>2. f.dependencies[x] \subseteq f.dependencies[z] /\ x \in Exs
      BY <2>1 DEF DefOK
    <3>3. Key(Row(n), f.dependencies[x]) = Key(Row(k), f.dependencies[x])
      BY <2>1, <2>2, <3>2, FewerDependencies
    <3>4. QED
      BY <1>3, <3>3
  <2>4. Seen(z, defs[z].inputs, n, g) = Seen(z, defs[z].inputs, k, h)
    BY <2>2, <2>3 DEF Seen
  <2>5. QED
    BY <1>1, <2>4 DEF CertRow, DefFits
<1>4. Exs \subseteq S
  <2> HIDE DEF S
  <2>1. QED
    BY <1>2, <1>3, ByDefinition
<1>5. g[y] = h[y]
  BY <1>4
<1>6. QED
  BY <1>5 DEF g, h

\* The tables of the certificate.
CertificateTables ==
    [c \in Cells |-> Certificate(CHOOSE n \in AllRows : Cell(c[1], n) = c)[c[1]]]

\* They are tables of values, and a model unless a row is masked.
LEMMA CertificateTablesFit ==
    ASSUME scenario \in Scenarios, Decided, Partners, Learnt, NEW b \in Nat, OrderedBelow(b)
    PROVE  /\ CertificateTables \in [Cells -> {-1, 1}]
           /\ (\A n \in AllRows : Encoded(n) \subseteq RowModels(n, {})) /\ ~ Masked =>
                 \A n \in AllRows : RowAgrees(CertificateTables, n)
<1> DEFINE t == CertificateTables
           at(c) == CHOOSE n \in AllRows : Cell(c[1], n) = c
<1>1. t = [c \in Cells |-> Certificate(at(c))[c[1]]]
  BY DEF CertificateTables
<1> HIDE DEF t
<1>2. \A c \in Cells : at(c) \in AllRows /\ Cell(c[1], at(c)) = c /\ c[1] \in Exs
  BY CellNames
<1> HIDE DEF at
<1>3. t \in [Cells -> {-1, 1}]
  <2>1. ASSUME NEW c \in Cells PROVE Certificate(at(c))[c[1]] \in {-1, 1}
    <3>1. CertRow(Certificate(at(c)), at(c))
      BY CertificateIs
    <3>2. Certificate(at(c)) \in [Exs -> {-1, 1}]
      BY <3>1 DEF CertRow
    <3>3. QED
      BY <1>2, <3>2
  <2>2. QED
    BY <1>1, <2>1
<1>4. ASSUME \A n \in AllRows : Encoded(n) \subseteq RowModels(n, {}), ~ Masked,
             NEW n \in AllRows
      PROVE  RowAgrees(t, n)
  <2>1. Certificate(n) \in Encoded(n)
    BY <1>4, CertificateEncoded DEF Masked
  <2>2. Certificate(n) \in RowModels(n, {})
    BY <1>4, <2>1
  <2>3. \A y \in Exs : t[Cell(y, n)] = Certificate(n)[y]
    <3>1. TAKE y \in Exs
    <3> DEFINE c == Cell(y, n)
               k == at(c)
    <3>2. c \in Cells /\ c[1] = y /\ c[2] = Key(Row(n), f.dependencies[y])
      BY CellNames
    <3> HIDE DEF c
    <3>3. Cell(y, k) = c
      BY <1>2, <3>2
    <3>4. Key(Row(k), f.dependencies[y]) = Key(Row(n), f.dependencies[y])
      BY <3>2, <3>3 DEF Cell
    <3>5. Certificate(k)[y] = Certificate(n)[y]
      BY <3>4, CertificateLocal
    <3>6. t[c] = Certificate(n)[y]
      BY <1>1, <3>2, <3>5
    <3>7. QED
      BY <3>6 DEF c
  <2>4. QED
    BY <2>2, <2>3 DEF RowAgrees
<1>5. QED
  BY <1>3, <1>4 DEF t

-----------------------------------------------------------------------------
(* Definability: what prepares the loop.                                   *)

\* What a step of definability starts from.
ArbNow ==
    /\ scenario \in Scenarios /\ scenario' = scenario
    /\ mode = "Definability" /\ mode' = "Definability" /\ answer = "none"
    /\ Decided /\ Partners /\ Learnt /\ LearntSound /\ RoundState
    /\ \E b \in Nat : OrderedBelow(b)

\* What a step arrives at.
ArbGoal ==
    /\ Decided' /\ Partners' /\ Learnt' /\ LearntSound' /\ RoundState'
    /\ \E b \in Nat : OrderedBelow(b)'

\* Nothing is learned yet.
LEMMA NothingLearnt ==
    ASSUME forcing' = << >>, arbs' = << >>, conflicts' = {}
    PROVE  Learnt' /\ LearntSound'
<1>1. DOMAIN arbs' = {} /\ Range(forcing') = {} /\ IsFiniteSet(DOMAIN arbs')
  BY FS_EmptySet DEF Range
<1>2. arbs' \in [DOMAIN arbs' -> {-1, 1}]
  <2>1. arbs' = [x \in {} |-> x]
    OBVIOUS
  <2>2. [x \in {} |-> x] \in [{} -> {-1, 1}]
    OBVIOUS
  <2>3. QED
    BY <1>1, <2>1, <2>2
<1>3. Learnt'
  BY <1>1, <1>2 DEF Learnt
<1>4. LearntSound'
  BY <1>1 DEF LearntSound, Spares
<1>5. QED
  BY <1>3, <1>4

\* There are no partners before the loop.
LEMMA NoPartners ==
    ASSUME partner' = << >>
    PROVE  Partners'
BY DEF Partners

\* The constants are defined over nothing.
LEMMA PadoaStep ==
    ASSUME ArbNow, Padoa
    PROVE  ArbGoal
<1>1. /\ pc' = "interpolate" /\ answer' = answer
      /\ UNCHANGED <<roots, partner, forcing, arbs, conflicts, cegar, row, vmodel, cmodel, visit>>
      /\ roots = {} /\ partner = << >> /\ forcing = << >> /\ arbs = << >> /\ conflicts = {}
      /\ cegar = "none" /\ row = NoRow /\ vmodel = << >> /\ cmodel = << >> /\ visit = {}
  BY DEF Padoa, ArbNow, RoundState
<1>2. PICK c \in Constants :
         /\ defs' = [y \in DOMAIN c |-> [inputs |-> {}, value |-> [v \in Views(y, {}) |-> c[y]]]]
         /\ undefined' \in SUBSET (Live \ DOMAIN c)
  BY DEF Padoa
<1>3. DOMAIN c \subseteq Live /\ \A y \in DOMAIN c : c[y] \in {-1, 1}
  BY DEF Constants
<1>4. Live \subseteq Exs
  BY DEF Live
<1>5. f' = f /\ Exs' = Exs
  BY SameFormula DEF ArbNow
<1>6. \A y, zs : Views(y, zs)' = Views(y, zs)
  BY SameCubes DEF ArbNow
<1>7. DOMAIN defs' = DOMAIN c
  BY <1>2
<1>8. \A y \in DOMAIN c : defs'[y].inputs = {} /\ defs'[y].value = [v \in Views(y, {}) |-> c[y]]
  BY <1>2
<1>9. \A y \in DOMAIN c : defs'[y].value \in [Views(y, {}) -> {-1, 1}]
  BY <1>3, <1>8
<1>10. \A y \in DOMAIN defs' : DefOK(y)'
  BY <1>6, <1>7, <1>8, <1>9 DEF DefOK
<1>11. Decided'
  BY <1>1, <1>2, <1>3, <1>4, <1>5, <1>7, <1>10 DEF Decided
<1>12. OrderedBelow(1)'
  <2> DEFINE r == [y \in Exs |-> 0]
  <2>1. r \in [Exs -> 0..1]
    OBVIOUS
  <2>2. /\ \A y \in DOMAIN defs' : r[y] < 1 /\ \A z \in defs'[y].inputs : r[z] < r[y]
        /\ \A y \in roots' : r[y] < 1
    <3>1. \A y \in Exs : r[y] < 1
      OBVIOUS
    <3>2. DOMAIN defs' \subseteq Exs /\ roots' = {}
      BY <1>1, <1>3, <1>4, <1>7
    <3>3. \A y \in DOMAIN defs' : defs'[y].inputs = {}
      BY <1>7, <1>8
    <3> HIDE DEF r
    <3>4. QED
      BY <3>1, <3>2, <3>3
  <2> HIDE DEF r
  <2>3. QED
    BY <1>5, <2>1, <2>2 DEF OrderedBelow
<1>13. RoundState'
  BY <1>1 DEF RoundState, NoRow
<1>14. Learnt' /\ LearntSound' /\ Partners'
  BY <1>1, NothingLearnt, NoPartners
<1>15. QED
  BY <1>11, <1>12, <1>13, <1>14 DEF ArbGoal

\* What is put into a map is there, and the rest stays.
LEMMA Puts ==
    ASSUME NEW g, NEW k, NEW v
    PROVE  /\ DOMAIN Put(g, k, v) = DOMAIN g \cup {k} /\ Put(g, k, v)[k] = v
           /\ \A x \in DOMAIN g \ {k} : Put(g, k, v)[x] = g[x]
           /\ Put(g, k, v) = [x \in DOMAIN g \cup {k} |-> Put(g, k, v)[x]]
BY DEF Put

\* An existential is defined over others that were decided before.
LEMMA InterpolateStep ==
    ASSUME ArbNow, NEW y \in Exs, Interpolate(y)
    PROVE  ArbGoal
<1>1. /\ pc = "interpolate" /\ pc' = pc /\ y \in Open /\ answer' = answer
      /\ UNCHANGED <<roots, partner, forcing, arbs, conflicts, cegar, undefined, row, vmodel,
                     cmodel, visit>>
      /\ partner = << >> /\ forcing = << >> /\ arbs = << >> /\ conflicts = {}
  BY DEF Interpolate, BeforeLoop, ArbNow, RoundState
<1>2. PICK g \in Interpolants(y) : defs' = Put(defs, y, [inputs |-> Linked(y), value |-> g])
  BY DEF Interpolate
<1>3. f' = f /\ Exs' = Exs
  BY SameFormula DEF ArbNow
<1>4. \A x, zs : Views(x, zs)' = Views(x, zs)
  BY SameCubes DEF ArbNow
<1>5. y \notin DOMAIN defs /\ y \notin roots
  BY <1>1 DEF Open
<1>6. /\ DOMAIN defs' = DOMAIN defs \cup {y}
      /\ defs'[y] = [inputs |-> Linked(y), value |-> g]
      /\ \A x \in DOMAIN defs : defs'[x] = defs[x]
  <2> DEFINE d == [inputs |-> Linked(y), value |-> g]
  <2> HIDE DEF d
  <2>1. /\ DOMAIN Put(defs, y, d) = DOMAIN defs \cup {y} /\ Put(defs, y, d)[y] = d
        /\ \A x \in DOMAIN defs \ {y} : Put(defs, y, d)[x] = defs[x]
    BY DEF Put
  <2>2. defs' = Put(defs, y, d)
    BY <1>2 DEF d
  <2>3. DOMAIN defs \ {y} = DOMAIN defs
    BY <1>5
  <2>4. QED
    BY <2>1, <2>2, <2>3 DEF d
<1>7. defs'[y].inputs = Linked(y) /\ defs'[y].value = g
  BY <1>6
<1>8. g \in [Views(y, Linked(y)) -> {-1, 1}]
  BY DEF Interpolants
<1>9. DefOK(y)'
  BY <1>1, <1>3, <1>4, <1>6, <1>7, <1>8 DEF DefOK, Linked
<1>10. \A x \in DOMAIN defs : DefOK(x)'
  <2>1. \A x \in DOMAIN defs : DefOK(x)
    BY DEF ArbNow, Decided
  <2>2. QED
    BY <1>1, <1>3, <1>4, <1>6, <2>1 DEF DefOK
<1>11. Decided'
  BY <1>1, <1>3, <1>5, <1>6, <1>9, <1>10 DEF Decided, ArbNow
<1>12. PICK b \in Nat : OrderedBelow(b)
  BY DEF ArbNow
<1>13. OrderedBelow(b + 1)'
  <2>1. PICK r \in [Exs -> 0..b] :
           /\ \A x \in DOMAIN defs : r[x] < b /\ \A z \in defs[x].inputs : r[z] < r[x]
           /\ \A x \in roots : r[x] < b
    BY <1>12 DEF OrderedBelow
  <2> DEFINE s == [x \in Exs |-> IF x = y THEN b ELSE r[x]]
  <2>2. s \in [Exs -> 0..b + 1]
    OBVIOUS
  <2>3. roots \subseteq Exs /\ DOMAIN defs \subseteq Exs
        /\ \A x \in DOMAIN defs : defs[x].inputs \subseteq DOMAIN defs \cup roots
    BY DEF ArbNow, Decided, DefOK
  <2>4. \A x \in DOMAIN defs \cup roots : s[x] = r[x] /\ r[x] < b
    BY <1>5, <2>1, <2>3
  <2>5. s[y] = b
    OBVIOUS
  <2> HIDE DEF s
  <2>6. \A x \in DOMAIN defs : s[x] < b + 1 /\ \A z \in defs'[x].inputs : s[z] < s[x]
    <3>1. TAKE x \in DOMAIN defs
    <3>2. s[x] \in 0..b + 1 /\ s[x] < b
      BY <2>2, <2>3, <2>4
    <3>3. \A z \in defs[x].inputs : s[z] < s[x]
      BY <2>1, <2>3, <2>4
    <3>4. QED
      BY <1>6, <3>2, <3>3
  <2>7. s[y] < b + 1 /\ \A z \in defs'[y].inputs : s[z] < s[y]
    BY <1>7, <2>4, <2>5 DEF Linked
  <2>8. \A x \in roots' : s[x] < b + 1
    <3>1. TAKE x \in roots'
    <3>2. s[x] \in 0..b + 1 /\ s[x] < b
      BY <1>1, <2>2, <2>3, <2>4
    <3>3. QED
      BY <3>2
  <2>9. QED
    BY <1>3, <1>6, <2>2, <2>6, <2>7, <2>8 DEF OrderedBelow
<1>14. RoundState'
  BY <1>1 DEF RoundState, ArbNow, NoRow
<1>15. Learnt' /\ LearntSound' /\ Partners'
  BY <1>1, NothingLearnt, NoPartners
<1>16. QED
  BY <1>11, <1>13, <1>14, <1>15 DEF ArbGoal

\* With more roots what is defined stays.
LEMMA MoreRoots ==
    ASSUME ArbNow, defs' = defs, roots' \in SUBSET Exs, roots \subseteq roots',
           roots' \cap DOMAIN defs = {}, undefined' \in SUBSET Exs
    PROVE  Decided' /\ \E b \in Nat : OrderedBelow(b)'
<1>1. f' = f /\ Exs' = Exs
  BY SameFormula DEF ArbNow
<1>2. \A x, zs : Views(x, zs)' = Views(x, zs)
  BY SameCubes DEF ArbNow
<1>3. \A x \in DOMAIN defs : DefOK(x)'
  <2>1. \A x \in DOMAIN defs : DefOK(x)
    BY DEF ArbNow, Decided
  <2>2. QED
    BY <1>1, <1>2, <2>1 DEF DefOK
<1>4. Decided'
  BY <1>1, <1>3 DEF Decided, ArbNow
<1>5. PICK b \in Nat : OrderedBelow(b)
  BY DEF ArbNow
<1>6. OrderedBelow(b + 1)'
  <2>1. PICK r \in [Exs -> 0..b] :
           \A x \in DOMAIN defs : r[x] < b /\ \A z \in defs[x].inputs : r[z] < r[x]
    BY <1>5 DEF OrderedBelow
  <2>2. r \in [Exs -> 0..b + 1] /\ \A x \in Exs : r[x] < b + 1
    OBVIOUS
  <2>3. DOMAIN defs \subseteq Exs
    BY DEF ArbNow, Decided
  <2>4. QED
    BY <1>1, <2>1, <2>2, <2>3 DEF OrderedBelow
<1>7. QED
  BY <1>4, <1>6

\* An existential that is not determined is a root.
LEMMA RootStep ==
    ASSUME ArbNow, NEW y \in Exs, Root(y)
    PROVE  ArbGoal
<1>1. /\ pc = "interpolate" /\ pc' = pc /\ y \in Open /\ answer' = answer
      /\ UNCHANGED <<defs, partner, forcing, arbs, conflicts, cegar, undefined, row, vmodel,
                     cmodel, visit>>
      /\ roots' = roots \cup {y}
      /\ partner = << >> /\ forcing = << >> /\ arbs = << >> /\ conflicts = {}
  BY DEF Root, BeforeLoop, ArbNow, RoundState
<1>2. roots' \in SUBSET Exs /\ roots' \cap DOMAIN defs = {} /\ undefined' \in SUBSET Exs
  BY <1>1 DEF Open, ArbNow, Decided
<1>3. Decided' /\ \E b \in Nat : OrderedBelow(b)'
  BY <1>1, <1>2, MoreRoots
<1>4. RoundState'
  BY <1>1 DEF RoundState, ArbNow, NoRow
<1>5. Learnt' /\ LearntSound' /\ Partners'
  BY <1>1, NothingLearnt, NoPartners
<1>6. QED
  BY <1>3, <1>4, <1>5 DEF ArbGoal

\* The loop starts with all others as roots, and with partners among them.
LEMMA PreparedStep ==
    ASSUME ArbNow, Prepared
    PROVE  ArbGoal
<1>1. /\ pc = "interpolate" /\ pc' = "validity" /\ answer' = answer /\ cegar' = "new"
      /\ UNCHANGED <<defs, forcing, arbs, conflicts, row, vmodel, cmodel, visit>>
      /\ roots' = roots \cup (undefined \ DOMAIN defs) /\ undefined' = {}
      /\ partner' \in Pairings(roots')
      /\ forcing = << >> /\ arbs = << >> /\ conflicts = {}
  BY DEF Prepared, ArbNow, RoundState
<1>2. roots' \in SUBSET Exs /\ roots' \cap DOMAIN defs = {} /\ undefined' \in SUBSET Exs
  BY <1>1 DEF ArbNow, Decided
<1>3. Decided' /\ \E b \in Nat : OrderedBelow(b)'
  BY <1>1, <1>2, MoreRoots
<1>4. Partners'
  <2>1. PICK s \in SUBSET roots' : partner' \in [s -> s]
    BY <1>1 DEF Pairings
  <2>2. \A y \in DOMAIN partner' : Alike(y, partner'[y]) /\ partner'[partner'[y]] = y
    BY <1>1 DEF Pairings
  <2>3. \A y, z : Alike(y, z)' <=> Alike(y, z)
    BY SameCubes DEF ArbNow
  <2>4. \A y \in DOMAIN partner' : y \in roots' /\ partner'[y] \in DOMAIN partner'
    BY <2>1
  <2>5. QED
    BY <2>2, <2>3, <2>4 DEF Partners
<1>5. RoundState'
  BY <1>1 DEF RoundState, ArbNow, NoRow
<1>6. Learnt' /\ LearntSound'
  BY <1>1, NothingLearnt
<1>7. QED
  BY <1>3, <1>4, <1>5, <1>6 DEF ArbGoal

-----------------------------------------------------------------------------
(* Definability: the loop.                                                 *)

\* The loop leaves what was prepared as it is.
LEMMA LoopKept ==
    ASSUME ArbNow, UNCHANGED Prep, undefined' = undefined
    PROVE  Decided' /\ Partners' /\ \E b \in Nat : OrderedBelow(b)'
<1>1. undefined' \in SUBSET Exs
  BY DEF ArbNow, Decided
<1>2. Decided' /\ Partners'
  BY <1>1, SamePreparation DEF ArbNow
<1>3. PICK b \in Nat : OrderedBelow(b)
  BY DEF ArbNow
<1>4. OrderedBelow(b)'
  BY <1>3, SamePreparation DEF ArbNow
<1>5. QED
  BY <1>2, <1>4

\* The steps that learn nothing.
QuietStep ==
    \/ NoConflictsLeft \/ Counterexample \/ NoCounterexample \/ RowModelFound \/ RowRefuted
    \/ Learned \/ PendingInCegar

\* They keep what is known.
LEMMA QuietStepKeeps ==
    ASSUME ArbNow, QuietStep
    PROVE  ArbGoal
<1>1. UNCHANGED Prep /\ undefined' = undefined /\ UNCHANGED <<forcing, arbs, conflicts>>
  BY DEF QuietStep, NoConflictsLeft, Counterexample, NoCounterexample, RowModelFound, RowRefuted,
     Learned, PendingInCegar, Outside, Prep, arbFields, arbLocals
<1>2. Decided' /\ Partners' /\ \E b \in Nat : OrderedBelow(b)'
  BY <1>1, LoopKept
<1>3. Learnt' /\ LearntSound'
  BY <1>1, SameLearnt DEF ArbNow
<1>4. f' = f /\ Exs' = Exs /\ AllRows' = AllRows /\ defs' = defs
  BY <1>1, SameFormula DEF ArbNow, Prep
<1>5. RoundState'
  <2>1. CASE NoConflictsLeft
    BY <2>1 DEF NoConflictsLeft, GiveUp, RoundState, ArbNow
  <2>2. CASE Counterexample
    BY <1>4, <2>2 DEF Counterexample, RoundState, ArbNow
  <2>3. CASE NoCounterexample
    BY <2>3 DEF NoCounterexample, Return, RoundState, ArbNow, arbFields, arbLocals
  <2>4. CASE RowModelFound
    <3>1. /\ pc = "consist" /\ row' = row /\ vmodel' = << >> /\ cegar' = "running"
          /\ pc' \in {"bail", "learn"} /\ visit' \subseteq Exs \ DOMAIN defs
          /\ cmodel' \in Consistent(row)
      BY <2>4 DEF RowModelFound, GiveUp
    <3>2. cmodel' \in [Exs -> {-1, 1}]
      BY <3>1 DEF Consistent, RowModels
    <3>3. row \in AllRows
      BY <3>1 DEF ArbNow, RoundState
    <3>4. QED
      BY <1>4, <3>1, <3>2, <3>3 DEF RoundState
  <2>5. CASE RowRefuted
    BY <2>5 DEF RowRefuted, GiveUp, Return, RoundState, ArbNow
  <2>6. CASE Learned
    BY <2>6 DEF Learned, RoundState, ArbNow, NoRow
  <2>7. CASE PendingInCegar
    BY <2>7 DEF PendingInCegar, Pending, RoundState, ArbNow, arbFields, arbLocals, NoRow
  <2>8. QED
    BY <2>1, <2>2, <2>3, <2>4, <2>5, <2>6, <2>7 DEF QuietStep
<1>6. QED
  BY <1>2, <1>3, <1>5 DEF ArbGoal

\* A core is learned: it is about cells, and all tables that are a model avoid it.
LEMMA CoreLearned ==
    ASSUME ArbNow, UNCHANGED Prep, forcing' = forcing, row \in AllRows,
           NEW core \in CellCores, conflicts' = conflicts \cup {core},
           arbs' \in [DOMAIN arbs -> {-1, 1}]
    PROVE  /\ Learnt' /\ LearntSound' /\ (ConstantLink' <=> ConstantLink)
           /\ \A k \in conflicts' : \A x \in k : x[1] \in DOMAIN arbs /\ x[2] \in {-1, 1}
<1>1. /\ f' = f /\ Exs' = Exs /\ AllRows' = AllRows /\ Models[f]' = Models[f] /\ scenario' = scenario
      /\ scenario \in Scenarios
  BY SameFormula, SameModels DEF ArbNow
<1>2. roots' = roots /\ defs' = defs /\ partner' = partner
  BY DEF Prep
<1>3. Cap' = Cap /\ Cubes' = Cubes
  BY <1>1, <1>2, SameCells, SameCubes
<1>4. DOMAIN arbs' = DOMAIN arbs
  OBVIOUS
<1>5. ConstantLink' <=> ConstantLink
  BY <1>1, <1>3, <1>4 DEF ConstantLink
<1>6. \A x \in core : x[1] \in DOMAIN arbs /\ x[2] \in {-1, 1}
  <2> DEFINE pairs(cs) == {<<c, arbs[c]>> : c \in cs}
             both(c) == {<<c, 1>>, <<c, -1>>}
  <2>1. \A c \in DOMAIN arbs : arbs[c] \in {-1, 1}
    BY DEF ArbNow, Learnt
  <2>2. \/ \E cs \in SUBSET DOMAIN arbs : core = pairs(cs)
        \/ \E c \in DOMAIN arbs : core = both(c)
    BY DEF CellCores
  <2>3. \A cs \in SUBSET DOMAIN arbs : \A x \in pairs(cs) : x[1] \in DOMAIN arbs /\ x[2] \in {-1, 1}
    BY <2>1
  <2>4. \A c \in DOMAIN arbs : \A x \in both(c) : x[1] \in DOMAIN arbs /\ x[2] \in {-1, 1}
    OBVIOUS
  <2> HIDE DEF pairs, both
  <2>5. QED
    BY <2>2, <2>3, <2>4
<1>7. \A k \in conflicts' : \A x \in k : x[1] \in DOMAIN arbs /\ x[2] \in {-1, 1}
  BY <1>6 DEF ArbNow, Learnt
<1>8. \A c : CellKnown(c)' <=> CellKnown(c)
  BY <1>1, SamePreparation
<1>9. Learnt'
  BY <1>1, <1>2, <1>3, <1>4, <1>7, <1>8 DEF Learnt, ArbNow
<1>10. LearntSound'
  <2>1. SUFFICES ASSUME ~ ConstantLink, NEW sk \in Models[f] PROVE Spares(sk)'
    BY <1>1, <1>5 DEF LearntSound
  <2>2. Spares(sk)
    BY <2>1 DEF ArbNow, LearntSound
  <2>3. \E x \in core : \E l \in x[1] : ~ Obeys(sk, l[1], l[2], x[2])
    BY <2>1, CoreSound DEF ArbNow
  <2>4. \A y, cube, v : Obeys(sk, y, cube, v)' <=> Obeys(sk, y, cube, v)
    BY DEF Obeys
  <2>5. QED
    BY <2>2, <2>3, <2>4 DEF Spares
<1>11. QED
  BY <1>5, <1>7, <1>9, <1>10

\* arbsolve chooses again, or gives up.
LEMMA ChooseStep ==
    ASSUME ArbNow, Choose \/ Exhausted
    PROVE  ArbGoal
<1>1. /\ pc = "consist" /\ UNCHANGED Prep /\ undefined' = undefined /\ forcing' = forcing
      /\ cegar' = cegar /\ cmodel' = cmodel /\ visit' = visit
      /\ \/ pc' = "validity" /\ row' = NoRow /\ vmodel' = << >>
         \/ pc' \in {"bail", "returned"}
  BY DEF Choose, Exhausted, GiveUp, Return, Outside, Prep
<1>2. PICK core \in CellCores : conflicts' = conflicts \cup {core}
  BY DEF Choose, Exhausted
<1>3. arbs' \in [DOMAIN arbs -> {-1, 1}]
  BY DEF Choose, Exhausted, CellChoices, ArbNow, Learnt
<1>4. row \in AllRows
  BY <1>1 DEF ArbNow, RoundState
<1>5. Learnt' /\ LearntSound'
  BY <1>1, <1>2, <1>3, <1>4, CoreLearned
<1>6. Decided' /\ Partners' /\ \E b \in Nat : OrderedBelow(b)'
  BY <1>1, LoopKept
<1>7. RoundState'
  BY <1>1 DEF RoundState, ArbNow, NoRow
<1>8. QED
  BY <1>5, <1>6, <1>7 DEF ArbGoal

\* A sequence with one more element.
LEMMA AppendedOne ==
    ASSUME NEW S, NEW s \in Seq(S), NEW e \in S
    PROVE  Append(s, e) \in Seq(S) /\ \A x \in Range(Append(s, e)) : x \in Range(s) \/ x = e
<1>1. /\ Append(s, e) \in Seq(S) /\ DOMAIN Append(s, e) = 1..Len(s) + 1 /\ Len(s) \in Nat
      /\ DOMAIN s = 1..Len(s)
      /\ Append(s, e)[Len(s) + 1] = e /\ \A i \in 1..Len(s) : Append(s, e)[i] = s[i]
  OBVIOUS
<1>2. ASSUME NEW x \in Range(Append(s, e)) PROVE x \in Range(s) \/ x = e
  <2>1. PICK i \in 1..Len(s) + 1 : x = Append(s, e)[i]
    BY <1>1 DEF Range
  <2>2. i \in 1..Len(s) \/ i = Len(s) + 1
    BY <1>1
  <2>3. QED
    BY <1>1, <2>1, <2>2 DEF Range
<1>3. QED
  BY <1>1, <1>2

\* A clause is learned: all tables that are a model obey it.
LEMMA ForcingLearned ==
    ASSUME ArbNow, UNCHANGED Prep, UNCHANGED <<arbs, conflicts>>,
           row \in AllRows, cmodel \in [Exs -> {-1, 1}],
           NEW y \in Exs \ DOMAIN defs, NEW us \in Antecedents(y),
           forcing' = Append(forcing, [ante |-> Key(Row(row), us), y |-> y, value |-> cmodel[y]])
    PROVE  Learnt' /\ LearntSound'
<1> DEFINE ante == Key(Row(row), us)
           S == [ante : Cubes, y : Exs \ DOMAIN defs, value : {-1, 1}]
           e == [ante |-> ante, y |-> y, value |-> cmodel[y]]
<1>1. /\ f' = f /\ Exs' = Exs /\ AllRows' = AllRows /\ Models[f]' = Models[f] /\ scenario' = scenario
      /\ scenario \in Scenarios
  BY SameFormula, SameModels DEF ArbNow
<1>2. roots' = roots /\ defs' = defs /\ partner' = partner
  BY DEF Prep
<1>3. Cap' = Cap /\ Cubes' = Cubes
  BY <1>1, <1>2, SameCells, SameCubes
<1>4. us \in SUBSET f.dependencies[y] /\ us \in SUBSET f.universals
  <2>1. us \in SUBSET f.dependencies[y]
    BY DEF Antecedents
  <2>2. f.dependencies[y] \subseteq f.universals
    BY <1>1, TheFormula
  <2>3. QED
    BY <2>1, <2>2
<1>5. ante \in [us -> BOOLEAN]
  BY <1>1, <1>4, KeyFacts
<1>6. e \in S
  <2>1. ante \in Cubes
    BY <1>4, <1>5 DEF Cubes
  <2>2. cmodel[y] \in {-1, 1}
    OBVIOUS
  <2> HIDE DEF ante
  <2>3. QED
    BY <2>1, <2>2
<1>7. e.ante = ante /\ e.y = y /\ e.value = cmodel[y]
  OBVIOUS
<1>8. forcing \in Seq(S) /\ forcing' = Append(forcing, e)
  BY DEF ArbNow, Learnt
<1> HIDE DEF S, e
<1>9. forcing' \in Seq(S) /\ \A x \in Range(forcing') : x \in Range(forcing) \/ x = e
  BY <1>6, <1>8, AppendedOne
<1>10. \A c : CellKnown(c)' <=> CellKnown(c)
  BY <1>1, SamePreparation
<1>11. DOMAIN e.ante \subseteq f.dependencies[e.y]
  BY <1>4, <1>5, <1>7
<1>12. Learnt'
  <2>1. forcing' \in Seq([ante : Cubes', y : Exs' \ DOMAIN defs', value : {-1, 1}])
    BY <1>1, <1>2, <1>3, <1>9 DEF S
  <2>2. \A c \in Range(forcing') : DOMAIN c.ante \subseteq f.dependencies[c.y]
    BY <1>9, <1>11 DEF ArbNow, Learnt
  <2>3. QED
    BY <1>1, <1>10, <2>1, <2>2 DEF Learnt, ArbNow
<1>13. LearntSound'
  <2>1. ConstantLink' <=> ConstantLink
    BY <1>1, <1>3 DEF ConstantLink
  <2>2. SUFFICES ASSUME ~ ConstantLink, NEW sk \in Models[f] PROVE Spares(sk)'
    BY <1>1, <2>1 DEF LearntSound
  <2>3. Spares(sk)
    BY <2>2 DEF ArbNow, LearntSound
  <2>4. Obeys(sk, y, ante, cmodel[y])
    <3>1. SUFFICES ASSUME NEW n \in AllRows, Holds(ante, n) PROVE RowOf(sk, n)[y] = cmodel[y]
      BY <1>1, <1>4, <1>5, ObeysRows
    <3>2. RowOf(sk, n) \in Consistent(n)
      BY <2>2, ConsistentRow DEF ArbNow
    <3>3. QED
      BY <3>1, <3>2 DEF Antecedents
  <2>5. Obeys(sk, e.y, e.ante, e.value)
    BY <1>7, <2>4
  <2>6. \A x, cube, v : Obeys(sk, x, cube, v)' <=> Obeys(sk, x, cube, v)
    BY DEF Obeys
  <2>7. QED
    BY <1>9, <2>3, <2>5, <2>6 DEF Spares
<1>14. QED
  BY <1>12, <1>13

\* A cell is learned: the tables that are a model need not have its value.
LEMMA CellLearned ==
    ASSUME ArbNow, UNCHANGED Prep, UNCHANGED <<forcing, conflicts>>,
           row \in AllRows, NEW y \in Exs \ DOMAIN defs, NEW v \in {-1, 1},
           arbs' = Put(arbs, CellOf(y), v), CellOf(y) \notin DOMAIN arbs,
           Cardinality(DOMAIN arbs) + 1 < scenario.cells
    PROVE  Learnt' /\ LearntSound'
<1> DEFINE c == CellOf(y)
<1>1. /\ f' = f /\ Exs' = Exs /\ AllRows' = AllRows /\ Models[f]' = Models[f] /\ scenario' = scenario
      /\ scenario \in Scenarios
  BY SameFormula, SameModels DEF ArbNow
<1>2. roots' = roots /\ defs' = defs /\ partner' = partner
  BY DEF Prep
<1>3. Cap' = Cap /\ Cubes' = Cubes
  BY <1>1, <1>2, SameCells, SameCubes
<1>4. CellKnown(c)
  BY DEF CellKnown, CellOf
<1> HIDE DEF c
<1>5. arbs' = Put(arbs, c, v) /\ c \notin DOMAIN arbs
  BY DEF c
<1>6. /\ DOMAIN arbs' = DOMAIN arbs \cup {c} /\ arbs'[c] = v
      /\ \A x \in DOMAIN arbs : arbs'[x] = arbs[x]
      /\ arbs' = [x \in DOMAIN arbs' |-> arbs'[x]]
  BY <1>5 DEF Put
<1>7. IsFiniteSet(DOMAIN arbs) /\ arbs \in [DOMAIN arbs -> {-1, 1}]
  BY DEF ArbNow, Learnt
<1>8. arbs' \in [DOMAIN arbs' -> {-1, 1}]
  <2>1. \A x \in DOMAIN arbs' : arbs'[x] \in {-1, 1}
    BY <1>6, <1>7
  <2>2. QED
    BY <1>6, <2>1
<1>9. IsFiniteSet(DOMAIN arbs') /\ Cardinality(DOMAIN arbs') < scenario.cells
  <2>1. IsFiniteSet(DOMAIN arbs \cup {c}) /\ Cardinality(DOMAIN arbs \cup {c}) = Cardinality(DOMAIN arbs) + 1
    BY <1>5, <1>7, FS_AddElement
  <2>2. QED
    BY <1>6, <2>1
<1>10. \A x : CellKnown(x)' <=> CellKnown(x)
  BY <1>1, SamePreparation
<1>11. Learnt'
  <2>1. \A x \in DOMAIN arbs' : CellKnown(x)'
    BY <1>4, <1>6, <1>10 DEF ArbNow, Learnt
  <2>2. \A core \in conflicts' : \A x \in core : x[1] \in DOMAIN arbs' /\ x[2] \in {-1, 1}
    BY <1>6 DEF ArbNow, Learnt
  <2>3. QED
    BY <1>1, <1>2, <1>3, <1>8, <1>9, <2>1, <2>2 DEF Learnt, ArbNow
<1>12. LearntSound'
  <2>1. ConstantLink => ConstantLink'
    BY <1>1, <1>3, <1>6 DEF ConstantLink
  <2>2. QED
    BY <1>1, <2>1, SameSpares DEF LearntSound, ArbNow
<1>13. QED
  BY <1>11, <1>12

\* What the model of a row teaches about one existential.
LEMMA LearnStep ==
    ASSUME ArbNow, Learn
    PROVE  ArbGoal
<1> DEFINE y == Min(visit)
<1>1. /\ pc = "learn" /\ visit # {} /\ UNCHANGED Prep /\ undefined' = undefined
      /\ conflicts' = conflicts /\ cegar' = cegar /\ UNCHANGED <<row, vmodel, cmodel>>
      /\ visit' \subseteq visit /\ pc' \in {"learn", "bail"}
  BY DEF Learn, NewForcing, NewCell, Outside, Prep
<1>2. row \in AllRows /\ cmodel \in [Exs -> {-1, 1}] /\ visit \subseteq Exs \ DOMAIN defs
  BY <1>1 DEF ArbNow, RoundState
<1>3. y \in Exs \ DOMAIN defs
  <2>1. IsFiniteSet(Exs) /\ Exs \in SUBSET (Nat \ {0})
    BY TheFormula DEF ArbNow
  <2>2. IsFiniteSet(visit) /\ visit \in SUBSET Int
    <3>1. visit \in SUBSET Exs
      BY <1>2
    <3>2. IsFiniteSet(visit)
      BY <2>1, <3>1, FS_Subset
    <3>3. visit \in SUBSET Int
      BY <2>1, <3>1
    <3>4. QED
      BY <3>2, <3>3
  <2>3. QED
    BY <1>1, <1>2, <2>2, MinIsLeast
<1>4. NewForcing(y) \/ NewCell(y)
  BY DEF Learn
<1> HIDE DEF y
<1>5. Learnt' /\ LearntSound'
  <2>1. CASE NewForcing(y)
    <3>1. PICK us \in Antecedents(y) :
             forcing' = Append(forcing, [ante |-> Key(Row(row), us), y |-> y, value |-> cmodel[y]])
      BY <2>1 DEF NewForcing
    <3>2. arbs' = arbs
      BY <2>1 DEF NewForcing
    <3>3. QED
      BY <1>1, <1>2, <1>3, <3>1, <3>2, ForcingLearned
  <2>2. CASE NewCell(y) /\ arbs' = arbs
    <3>1. forcing' = forcing
      BY <2>2 DEF NewCell
    <3>2. QED
      BY <1>1, <2>2, <3>1, SameLearnt DEF ArbNow
  <2>3. CASE NewCell(y) /\ arbs' # arbs
    <3>1. /\ CellOf(y) \notin DOMAIN arbs /\ ~ (Cardinality(DOMAIN arbs) + 1 >= scenario.cells)
          /\ arbs' = Put(arbs, CellOf(y), cmodel[y]) /\ forcing' = forcing
      BY <2>3 DEF NewCell
    <3>2. Cardinality(DOMAIN arbs) + 1 < scenario.cells
      <4>1. Cardinality(DOMAIN arbs) \in Nat
        BY FS_CardinalityType DEF ArbNow, Learnt
      <4>2. scenario.cells \in Nat
        BY ArbiterAssumption DEF ArbNow
      <4>3. QED
        BY <3>1, <4>1, <4>2
    <3>3. cmodel[y] \in {-1, 1}
      BY <1>2, <1>3
    <3>4. QED
      BY <1>1, <1>2, <1>3, <3>1, <3>2, <3>3, CellLearned
  <2>4. QED
    BY <1>4, <2>1, <2>2, <2>3
<1>6. Decided' /\ Partners' /\ \E b \in Nat : OrderedBelow(b)'
  BY <1>1, LoopKept
<1>7. RoundState'
  <2>1. f' = f /\ Exs' = Exs /\ AllRows' = AllRows /\ defs' = defs
    BY <1>1, SameFormula DEF ArbNow, Prep
  <2>2. QED
    BY <1>1, <1>2, <2>1 DEF RoundState, ArbNow
<1>8. QED
  BY <1>5, <1>6, <1>7 DEF ArbGoal

-----------------------------------------------------------------------------
(* Definability: the answers, and every step.                              *)

\* Two linked tables are two cells for a whole table.
LEMMA LinkIsConst ==
    ASSUME scenario \in Scenarios, Learnt, ConstantLink
    PROVE  AnyConst
<1>1. PICK c \in DOMAIN arbs : \A l \in c : Cardinality(f.dependencies[l[1]]) > Cap
  BY DEF ConstantLink
<1>2. PICK y, cube : CellShape(c, y, cube)
  BY CellShapes DEF Learnt
<1>3. <<y, cube>> \in c
  BY <1>2 DEF CellShape
<1>4. QED
  BY <1>1, <1>3 DEF AnyConst

\* Without a counterexample the certificate is a model, unless a row is masked.
LEMMA SatStep ==
    ASSUME ArbNow, NoCounterexample
    PROVE  tables' \in [Cells -> {-1, 0, 1}] /\ AnswerInv'
<1>1. PICK b \in Nat : OrderedBelow(b)
  BY DEF ArbNow
<1>2. /\ \A n \in AllRows : Encoded(n) \subseteq RowModels(n, {})
      /\ tables' = CertificateTables /\ answer' = "Sat"
      /\ UNCHANGED Prep /\ UNCHANGED <<forcing, arbs, conflicts>>
      /\ scenario' = scenario /\ scenario \in Scenarios
  BY DEF NoCounterexample, CertificateTables, Return, Prep, arbFields, ArbNow
<1>3. CertificateTables \in [Cells -> {-1, 1}]
  BY <1>1, CertificateTablesFit DEF ArbNow
<1>4. Masked' <=> Masked
  BY <1>2, SameLearnt
<1>5. ASSUME ~ Masked' PROVE IsModel(f, BuildSkolem(tables))'
  <2>1. \A n \in AllRows : RowAgrees(CertificateTables, n)
    BY <1>1, <1>2, <1>4, <1>5, CertificateTablesFit DEF ArbNow
  <2>2. IsModel(f, BuildSkolem(tables'))
    BY <1>2, <2>1, TablesAreModel
  <2>3. BuildSkolem(tables)' = BuildSkolem(tables') /\ f' = f
    BY <1>2, SameFormula DEF BuildSkolem
  <2>4. QED
    BY <2>2, <2>3
<1>6. AnswerInv'
  BY <1>2, <1>5 DEF ArbNow, AnswerInv, SatIsModel, UnsatIsFalse
<1>7. tables' \in [Cells -> {-1, 0, 1}]
  BY <1>2, <1>3
<1>8. QED
  BY <1>6, <1>7

\* A row that is refuted refutes the formula, unless two tables are linked.
LEMMA RowRefutedStep ==
    ASSUME ArbNow, RowRefuted
    PROVE  AnswerInv'
<1>1. /\ pc = "consist" /\ Refuting({}) /\ answer' \in {"none", "UnsatRow"}
      /\ UNCHANGED Prep /\ UNCHANGED <<forcing, arbs, conflicts>>
      /\ scenario' = scenario /\ scenario \in Scenarios
  BY DEF RowRefuted, GiveUp, Return, Outside, Prep, ArbNow
<1>2. row \in AllRows
  BY <1>1 DEF ArbNow, RoundState
<1>3. ConstantLink' <=> ConstantLink
  BY <1>1, SameLearnt
<1>4. ~ ConstantLink' => ~ IsTrue(f)'
  <2>1. SUFFICES ASSUME ~ ConstantLink PROVE ~ IsTrue(f)
    BY <1>1, <1>3, SameModels
  <2>2. QED
    BY <1>1, <1>2, <2>1, RowIsRefuted DEF ArbNow
<1>5. QED
  BY <1>1, <1>4 DEF ArbNow, AnswerInv, SatIsModel, UnsatIsFalse

\* With no choice left, and cells for single rows only, the formula is false.
LEMMA ExhaustedStep ==
    ASSUME ArbNow, Exhausted
    PROVE  AnswerInv'
<1>1. /\ pc = "consist" /\ UNCHANGED Prep /\ forcing' = forcing /\ arbs' = arbs
      /\ scenario' = scenario /\ scenario \in Scenarios
      /\ \/ answer' = "none"
         \/ ~ AnyConst /\ answer' = "Unsat" /\ skipped' = (CellChoices(conflicts') # {})
  BY DEF Exhausted, GiveUp, Return, Prep, ArbNow
<1>2. PICK core \in CellCores : conflicts' = conflicts \cup {core}
  BY DEF Exhausted
<1>3. CASE answer' = "none"
  BY <1>3, NoAnswer
<1>4. CASE ~ AnyConst /\ answer' = "Unsat" /\ skipped' = (CellChoices(conflicts') # {})
  <2>1. row \in AllRows /\ arbs' \in [DOMAIN arbs -> {-1, 1}]
    BY <1>1 DEF ArbNow, RoundState, Learnt
  <2>2. /\ LearntSound' /\ (ConstantLink' <=> ConstantLink)
        /\ \A k \in conflicts' : \A x \in k : x[1] \in DOMAIN arbs /\ x[2] \in {-1, 1}
    BY <1>1, <1>2, <2>1, CoreLearned
  <2>3. ~ ConstantLink
    BY <1>1, <1>4, LinkIsConst DEF ArbNow
  <2>4. Models[f]' = Models[f] /\ (IsTrue(f)' <=> IsTrue(f))
    BY <1>1, SameModels
  <2>5. ASSUME NEW sk \in Models[f] PROVE CellChoices(conflicts') # {}
    <3>1. Spares(sk)'
      BY <2>2, <2>3, <2>4 DEF LearntSound
    <3>2. \A y, cube, v : Obeys(sk, y, cube, v)' <=> Obeys(sk, y, cube, v)
      BY DEF Obeys
    <3>3. \A k \in conflicts' : \E x \in k : \E l \in x[1] : ~ Obeys(sk, l[1], l[2], x[2])
      BY <3>1, <3>2 DEF Spares
    <3>4. QED
      BY <1>4, <2>2, <3>3, ChoiceLeft DEF ArbNow
  <2>6. ~ skipped' => ~ IsTrue(f)'
    <3>1. ~ skipped' => CellChoices(conflicts') = {}
      BY <1>4
    <3>2. QED
      BY <1>1, <2>4, <2>5, <3>1, TheModels
  <2>7. QED
    BY <1>4, <2>6 DEF ArbNow, AnswerInv, SatIsModel, UnsatIsFalse
<1>5. QED
  BY <1>1, <1>3, <1>4

\* Every step of definability.
LEMMA ArbMoveStep ==
    ASSUME ControlInv, SlotInv, OuterInv, PartialInv, ArbInv, DefsInv, ArbMove
    PROVE  SlotInv' /\ OuterInv' /\ PartialInv' /\ ArbInv' /\ DefsInv' /\ AnswerInv'
<1>1. ArbNow
  <2>1. /\ scenario' = scenario /\ scenario \in Scenarios /\ answer = "none"
        /\ mode = "Definability" /\ mode' = "Definability"
    BY ArbControl, SameScenario DEF Next, Step, ArbMove, ControlInv
  <2>2. QED
    BY <2>1 DEF ArbNow, ArbInv, DefsInv
<1>2. \/ Padoa \/ Prepared \/ \E y \in Exs : Interpolate(y) \/ Root(y)
      \/ QuietStep \/ Choose \/ Exhausted \/ Learn
  BY DEF ArbMove, ArbStep, QuietStep
<1>3. ArbGoal
  BY <1>1, <1>2, PadoaStep, PreparedStep, InterpolateStep, RootStep, QuietStepKeeps, ChooseStep,
     LearnStep
<1>4. ArbInv' /\ DefsInv'
  BY <1>1, <1>3 DEF ArbNow, ArbGoal, ArbInv, DefsInv
<1>5. /\ UNCHANGED SlotRest /\ UNCHANGED outerFields /\ todo' = todo /\ ub' = ub /\ level' = level
      /\ pc' # "Partial"
      /\ tables' = tables \/ NoCounterexample
  <2>1. CASE Padoa \/ Prepared \/ \E y \in Exs : Interpolate(y) \/ Root(y)
    BY <2>1 DEF Padoa, Prepared, Interpolate, Root, BeforeLoop, fields, locals, outerLocals,
       SlotRest, ArbMove
  <2>2. CASE NoConflictsLeft \/ Counterexample \/ RowModelFound \/ RowRefuted \/ Learned
    BY <2>2 DEF NoConflictsLeft, Counterexample, RowModelFound, RowRefuted, Learned, Outside,
       GiveUp, Return, fields, locals, outerLocals, SlotRest, ArbMove
  <2>3. CASE NoCounterexample
    BY <2>3 DEF NoCounterexample, Return, locals, outerLocals, SlotRest, ArbMove
  <2>4. CASE PendingInCegar
    BY <2>4 DEF PendingInCegar, Pending, fields, locals, outerLocals, SlotRest, ArbMove
  <2>5. CASE Choose \/ Exhausted
    BY <2>5 DEF Choose, Exhausted, Outside, GiveUp, Return, fields, locals, outerLocals, SlotRest,
       ArbMove
  <2>6. CASE Learn
    BY <2>6 DEF Learn, NewForcing, NewCell, Outside, fields, locals, outerLocals, SlotRest, ArbMove
  <2>7. QED
    BY <1>2, <2>1, <2>2, <2>3, <2>4, <2>5, <2>6 DEF QuietStep
<1>6. SlotInv'
  <2>1. ub \in 0..NumRows /\ tables \in [Cells -> {-1, 0, 1}]
    BY DEF SlotInv, SlotShape
  <2>2. tables' \in [Cells -> {-1, 0, 1}]
    BY <1>1, <1>5, <2>1, SatStep
  <2>3. QED
    BY <1>1, <1>5, <2>1, <2>2, OtherModes DEF ArbNow
<1>7. OuterInv'
  <2>1. todo' \in Seq(AllRows)
    BY <1>5 DEF OuterInv
  <2>2. QED
    BY <1>1, <1>5, <2>1, OuterKept DEF ArbNow
<1>8. PartialInv'
  BY <1>1, <1>5 DEF PartialInv, ArbNow, AtLevel
<1>9. AnswerInv'
  <2>1. CASE NoCounterexample
    BY <1>1, <2>1, SatStep
  <2>2. CASE RowRefuted
    BY <1>1, <2>2, RowRefutedStep
  <2>3. CASE Exhausted
    BY <1>1, <2>3, ExhaustedStep
  <2>4. CASE ~ NoCounterexample /\ ~ RowRefuted /\ ~ Exhausted
    <3>1. answer' = answer
      <4>1. CASE Padoa \/ Prepared \/ \E y \in Exs : Interpolate(y) \/ Root(y)
        BY <4>1 DEF Padoa, Prepared, Interpolate, Root, BeforeLoop
      <4>2. CASE NoConflictsLeft \/ Counterexample \/ RowModelFound \/ Learned \/ PendingInCegar
        BY <4>2 DEF NoConflictsLeft, Counterexample, RowModelFound, Learned, PendingInCegar,
           Pending, GiveUp
      <4>3. CASE Choose \/ Learn
        BY <4>3 DEF Choose, Learn
      <4>4. QED
        BY <1>2, <2>4, <4>1, <4>2, <4>3 DEF QuietStep
    <3>2. QED
      BY <1>1, <3>1, NoAnswer DEF ArbNow
  <2>5. QED
    BY <2>1, <2>2, <2>3, <2>4
<1>10. QED
  BY <1>4, <1>6, <1>7, <1>8, <1>9

-----------------------------------------------------------------------------
(* Every step.                                                             *)

\* Nothing happens to the slot search,
LEMMA SlotStutter ==
    ASSUME scenario \in Scenarios, UNCHANGED vars, SlotInv
    PROVE  SlotInv'
<1>1. /\ scenario' = scenario /\ mode' = mode /\ pc' = pc /\ answer' = answer
      /\ UNCHANGED fields /\ UNCHANGED locals
  BY DEF vars
<1>2. /\ NumRows' = NumRows /\ Cells' = Cells /\ Exs' = Exs /\ Models[f]' = Models[f]
      /\ \A y, k : Cell(y, k)' = Cell(y, k)
  BY <1>1, SameFormula, SameModels
<1>3. SlotShape'
  BY <1>1, <1>2 DEF SlotInv, SlotShape, fields, locals
<1>4. SlotStart => SlotStart'
  BY <1>1, <1>2 DEF SlotStart, fields, locals
<1>5. /\ \A n : RowAgrees(firstSeen, n)' <=> RowAgrees(firstSeen, n)
      /\ \A n : RowAgrees(tables, n)' <=> RowAgrees(tables, n)
  BY <1>1, SameModels DEF fields
<1>6. SearchInv => SearchInv'
  BY <1>1, <1>2, <1>5 DEF SearchInv, Free, fields, locals
<1>7. SlotLeft => SlotLeft'
  BY <1>1, LeftSame DEF fields, locals
<1>8. \A sk : Differs(sk)' = Differs(sk)
  BY <1>1 DEF Differs, SlotValue, fields
<1>9. Added' = Added /\ (AllDecided' <=> AllDecided)
  BY <1>1 DEF Added, InSlot, AllDecided, fields
<1>10. RoundInv => RoundInv'
  BY <1>1, <1>2, <1>5, <1>8, <1>9 DEF RoundInv, fields, locals
<1>11. QED
  BY <1>1, <1>3, <1>4, <1>6, <1>7, <1>10 DEF SlotInv

\* to the outer search,
LEMMA OuterStutter ==
    ASSUME scenario \in Scenarios, UNCHANGED vars, OuterInv
    PROVE  OuterInv'
<1>1. /\ scenario' = scenario /\ mode' = mode /\ pc' = pc /\ UNCHANGED outerFields
      /\ UNCHANGED outerLocals /\ tables' = tables /\ ub' = ub
  BY DEF vars, fields, locals
<1>2. CASE mode # "OuterCegar"
  <2>1. todo' \in Seq(AllRows)
    BY <1>1 DEF OuterInv, outerLocals
  <2>2. QED
    BY <1>1, <1>2, <2>1, OuterKept
<1>3. CASE mode = "OuterCegar"
  <2>1. OuterOK' /\ todo' \in Seq(AllRows')
    BY <1>1, SameOuter DEF OuterInv, OuterOK, outerFields, outerLocals
  <2>2. PinsOf(Outer)' = PinsOf(Outer) /\ (OuterSound => OuterSound')
    BY <1>1, SameOuter DEF outerFields
  <2>3. \A n, ps : RowModels(n, ps)' = RowModels(n, ps)
    BY <1>1, SameModels
  <2>4. \A n : PickedRow(n)' <=> PickedRow(n)
    BY <1>1, <2>2, <2>3, SameOuter DEF PickedRow
  <2>5. ScanSound => ScanSound'
    BY <1>1, <2>4, SameOuter DEF ScanSound, outerLocals
  <2>6. QED
    BY <1>1, <1>3, <2>1, <2>2, <2>5, SameOuter DEF OuterInv, outerLocals
<1>4. QED
  BY <1>2, <1>3

\* or to definability.
LEMMA ArbStays ==
    ASSUME scenario \in Scenarios, scenario' = scenario, mode' = mode, UNCHANGED arbVars,
           ArbInv, DefsInv, mode = "Definability" => RoundState'
    PROVE  ArbInv' /\ DefsInv'
<1>1. /\ UNCHANGED Prep /\ undefined' = undefined /\ UNCHANGED <<forcing, arbs, conflicts>>
  BY DEF arbVars, arbFields, arbLocals, Prep
<1>2. ArbStart => ArbStart'
  BY DEF ArbStart, arbVars, arbFields, arbLocals, NoRow
<1>3. CASE mode = "Definability"
  <2>1. undefined' \in SUBSET Exs /\ Decided' /\ Partners'
    BY <1>1, <1>3, SamePreparation DEF ArbInv, Decided
  <2>2. Learnt' /\ LearntSound'
    BY <1>1, <1>3, SameLearnt DEF ArbInv
  <2>3. PICK b \in Nat : OrderedBelow(b)
    BY <1>3 DEF DefsInv
  <2>4. OrderedBelow(b)'
    BY <1>1, <2>3, SamePreparation
  <2>5. QED
    BY <1>3, <2>1, <2>2, <2>4 DEF ArbInv, DefsInv
<1>4. CASE mode # "Definability"
  BY <1>2, <1>4 DEF ArbInv, DefsInv
<1>5. QED
  BY <1>3, <1>4

\* An answer stays what it is.
LEMMA AnswerStutter ==
    ASSUME scenario \in Scenarios, UNCHANGED vars, AnswerInv
    PROVE  AnswerInv'
<1>1. /\ scenario' = scenario /\ mode' = mode /\ answer' = answer /\ skipped' = skipped
      /\ tables' = tables /\ UNCHANGED Prep /\ UNCHANGED <<forcing, arbs, conflicts>>
  BY DEF vars, fields, outerLocals, arbVars, arbFields, Prep
<1>2. (Masked' <=> Masked) /\ (ConstantLink' <=> ConstantLink)
  BY <1>1, SameLearnt
<1>3. f' = f /\ Exs' = Exs /\ Cells' = Cells /\ Forgets' = Forgets /\ (IsTrue(f)' <=> IsTrue(f))
  BY <1>1, SameFormula, SameModels
<1>4. BuildSkolem(tables)' = BuildSkolem(tables)
  BY <1>1, <1>3 DEF BuildSkolem
<1>5. IsModel(f, BuildSkolem(tables))' <=> IsModel(f, BuildSkolem(tables))
  BY <1>3, <1>4
<1>6. QED
  BY <1>1, <1>2, <1>3, <1>5 DEF AnswerInv, SatIsModel, UnsatIsFalse

\* The inductive invariant.
ExpandInv ==
    /\ ControlInv /\ SlotInv /\ OuterInv /\ PartialInv /\ ArbInv /\ DefsInv
    /\ AnswerInv

\* The other searches leave definability alone.
LEMMA NotArb ==
    ASSUME scenario \in Scenarios, scenario' = scenario, ArbInv, DefsInv, UNCHANGED arbVars,
           mode' = mode, mode # "Definability"
    PROVE  ArbInv' /\ DefsInv'
BY ArbStays

\* When a search starts in the partial scan, it starts with the first row.
LEMMA PartialStarts ==
    ASSUME ub' = 0, level' = 1
    PROVE  PartialInv'
<1>1. ASSUME AtLevel' PROVE ub' < 2 ^ Levels[level']
  <2>1. 1 \in 1..Len(Levels) /\ Levels \in Seq(Nat)
    BY <1>1, ModesAssumption DEF AtLevel
  <2>2. Levels[1] \in Nat
    BY <2>1
  <2>3. 2 ^ Levels[1] \in Nat \ {0}
    BY <2>2, PowerDoubles
  <2>4. 0 < 2 ^ Levels[1]
    BY <2>3
  <2>5. QED
    BY <2>4
<1>2. QED
  BY <1>1 DEF PartialInv

\* Outside the scan its invariant says nothing.
LEMMA NotInScan ==
    ASSUME PartialInv, level' = level, pc' # "Partial", mode' # "Definability"
    PROVE  PartialInv'
BY DEF PartialInv, AtLevel

\* A step of the slot search.
LEMMA SlotMoveKeeps ==
    ASSUME ExpandInv, SlotMove
    PROVE  ExpandInv'
<1>1. ControlInv /\ SlotInv /\ OuterInv /\ PartialInv /\ ArbInv /\ DefsInv
  BY DEF ExpandInv
<1>2. /\ mode = "SlotDpll" /\ mode' = mode /\ ControlInv'
      /\ scenario \in Scenarios /\ scenario' = scenario
  BY <1>1, SlotControl, SameScenario DEF Next, Step, SlotMove, ControlInv
<1>3. UNCHANGED outerFields /\ todo' = todo /\ UNCHANGED arbVars /\ level' = level
  BY DEF SlotMove, outerLocals
<1>4. SlotInv' /\ AnswerInv'
  BY <1>1, SlotMoveStep
<1>5. OuterInv'
  <2>1. todo' \in Seq(AllRows)
    BY <1>1, <1>3 DEF OuterInv
  <2>2. QED
    BY <1>1, <1>2, <1>3, <2>1, OuterKept
<1>6. pc' # "Partial"
  BY <1>2 DEF ControlInv, Places
<1>7. PartialInv'
  BY <1>1, <1>2, <1>3, <1>6, NotInScan
<1>8. ArbInv' /\ DefsInv'
  BY <1>1, <1>2, <1>3, NotArb
<1>9. QED
  BY <1>2, <1>4, <1>5, <1>7, <1>8 DEF ExpandInv

\* A step of the outer search.
LEMMA OuterMoveKeeps ==
    ASSUME ExpandInv, OuterMove
    PROVE  ExpandInv'
<1>1. ControlInv /\ SlotInv /\ OuterInv /\ PartialInv /\ ArbInv /\ DefsInv
  BY DEF ExpandInv
<1>2. /\ mode = "OuterCegar" /\ mode' = mode /\ ControlInv'
      /\ scenario \in Scenarios /\ scenario' = scenario
  BY <1>1, OuterControl, SameScenario DEF Next, Step, OuterMove, ControlInv
<1>3. UNCHANGED arbVars /\ level' = level
  BY DEF OuterMove
<1>4. SlotInv' /\ OuterInv' /\ AnswerInv'
  BY <1>1, OuterMoveStep
<1>5. pc' # "Partial"
  BY <1>2 DEF ControlInv, Places
<1>6. PartialInv'
  BY <1>1, <1>2, <1>3, <1>5, NotInScan
<1>7. ArbInv' /\ DefsInv'
  BY <1>1, <1>2, <1>3, NotArb
<1>8. QED
  BY <1>2, <1>4, <1>6, <1>7 DEF ExpandInv

\* A step of the scan.
LEMMA PartialMoveKeeps ==
    ASSUME ExpandInv, PartialMove
    PROVE  ExpandInv'
<1>1. ControlInv /\ SlotInv /\ OuterInv /\ PartialInv /\ ArbInv /\ DefsInv
  BY DEF ExpandInv
<1>2. /\ mode = "Partial" /\ mode' = mode /\ ControlInv'
      /\ scenario \in Scenarios /\ scenario' = scenario
  BY <1>1, PartialControl, SameScenario DEF Next, Step, PartialMove, ControlInv
<1>3. UNCHANGED arbVars
  BY DEF PartialMove, PartialRow, PartialUnsat, PartialDone, PendingInPartial
<1>4. SlotInv' /\ OuterInv' /\ PartialInv' /\ AnswerInv'
  BY <1>1, PartialMoveStep
<1>5. ArbInv' /\ DefsInv'
  BY <1>1, <1>2, <1>3, NotArb
<1>6. QED
  BY <1>2, <1>4, <1>5 DEF ExpandInv

\* Definability gives up.
LEMMA BailKeeps ==
    ASSUME ExpandInv, Bail
    PROVE  ExpandInv'
<1>1. ControlInv /\ SlotInv /\ OuterInv /\ PartialInv
  BY DEF ExpandInv
<1>2. /\ mode = "Definability" /\ answer = "none" /\ ControlInv' /\ answer' = answer
      /\ scenario \in Scenarios /\ scenario' = scenario
      /\ mode' \in {"Partial", "SlotDpll"} /\ UNCHANGED outerFields /\ todo' = todo
      /\ ub' = ub /\ level' = level
  BY <1>1, OtherControl DEF Bail, ControlInv, locals, outerLocals
<1>3. SlotInv'
  BY <1>1, SlotBail
<1>4. OuterInv'
  <2>1. todo' \in Seq(AllRows)
    BY <1>1, <1>2 DEF OuterInv
  <2>2. QED
    BY <1>1, <1>2, <2>1, OuterKept
<1>5. PartialInv'
  BY <1>1, <1>2, PartialStarts DEF PartialInv
<1>6. ArbInv' /\ DefsInv'
  <2>1. ArbStart'
    BY DEF Bail, ArbForgotten, ArbStart, NoRow
  <2>2. QED
    BY <1>2, <2>1 DEF ArbInv, DefsInv
<1>7. AnswerInv'
  BY <1>2, NoAnswer
<1>8. QED
  BY <1>2, <1>3, <1>4, <1>5, <1>6, <1>7 DEF ExpandInv

\* The next slice of time.
LEMMA ResumeKeeps ==
    ASSUME ExpandInv, Resume
    PROVE  ExpandInv'
<1>1. ControlInv /\ SlotInv /\ OuterInv /\ PartialInv /\ ArbInv /\ DefsInv
  BY DEF ExpandInv
<1>2. /\ pc = "pending" /\ pc' = Entry(mode) /\ ControlInv' /\ answer' = "none"
      /\ scenario \in Scenarios /\ scenario' = scenario /\ mode' = mode /\ UNCHANGED arbVars
      /\ ub' = 0 /\ level' = 1
  BY <1>1, OtherControl DEF Resume, FreshLocals, ControlInv
<1>3. SlotInv' /\ OuterInv' /\ PartialInv' /\ AnswerInv'
  BY <1>1, <1>2, SlotResume, OuterResume, PartialStarts, NoAnswer
<1>4. ASSUME mode = "Definability" PROVE RoundState'
  <2>1. RoundState /\ cegar # "none" /\ UNCHANGED <<cegar, row, vmodel, cmodel, visit>>
    BY <1>1, <1>2, <1>4 DEF ArbInv, RoundState, arbVars, arbFields, arbLocals
  <2>2. pc' \in {"bail", "validity"}
    BY <1>2, <1>4, <2>1 DEF Entry, ArbEntry
  <2>3. row = NoRow /\ vmodel = << >> /\ cmodel = << >> /\ visit = {}
    BY <1>2, <2>1 DEF RoundState
  <2>4. QED
    BY <2>1, <2>2, <2>3 DEF RoundState, NoRow
<1>5. ArbInv' /\ DefsInv'
  BY <1>1, <1>2, <1>4, ArbStays
<1>6. QED
  BY <1>2, <1>3, <1>5 DEF ExpandInv

\* Nothing happens.
LEMMA StutterKeeps ==
    ASSUME ExpandInv, UNCHANGED vars
    PROVE  ExpandInv'
<1>1. /\ ControlInv /\ SlotInv /\ OuterInv /\ PartialInv /\ ArbInv /\ DefsInv /\ AnswerInv
      /\ scenario \in Scenarios
  BY DEF ExpandInv, ControlInv
<1>2. /\ scenario' = scenario /\ mode' = mode /\ level' = level /\ pc' = pc /\ ub' = ub
      /\ UNCHANGED arbVars
  BY DEF vars, locals
<1>3. ControlInv'
  BY <1>1, OtherControl
<1>4. SlotInv' /\ OuterInv' /\ AnswerInv'
  BY <1>1, SlotStutter, OuterStutter, AnswerStutter
<1>5. PartialInv'
  <2>1. NumUniversals' = NumUniversals
    BY <1>1, <1>2, SameFormula
  <2>2. QED
    BY <1>1, <1>2, <2>1 DEF PartialInv, AtLevel
<1>6. mode = "Definability" => RoundState'
  <2>1. UNCHANGED <<roots, defs, partner, forcing, arbs, conflicts, cegar, row, vmodel, cmodel, visit>>
    BY <1>2 DEF arbVars, arbFields, arbLocals
  <2>2. Exs' = Exs /\ AllRows' = AllRows
    BY <1>1, <1>2, SameFormula DEF AllRows
  <2>3. QED
    BY <1>1, <1>2, <2>1, <2>2 DEF ArbInv, RoundState, NoRow
<1>7. ArbInv' /\ DefsInv'
  BY <1>1, <1>2, <1>6, ArbStays
<1>8. QED
  BY <1>3, <1>4, <1>5, <1>7 DEF ExpandInv

\* Every step keeps the invariant.
LEMMA NextStep ==
    ASSUME ExpandInv, [Next]_vars
    PROVE  ExpandInv'
<1>1. CASE ArbMove
  <2>1. ControlInv'
    BY ControlStep DEF ExpandInv
  <2>2. QED
    BY <1>1, <2>1, ArbMoveStep DEF ExpandInv
<1>2. QED
  BY <1>1, Moves, SlotMoveKeeps, OuterMoveKeeps, PartialMoveKeeps, BailKeeps, ResumeKeeps,
     StutterKeeps

-----------------------------------------------------------------------------
(* The first state.                                                        *)

\* A fresh slot search has its invariant.
LEMMA FreshSlots ==
    ASSUME scenario \in Scenarios, SlotShape, SlotStart, answer = "none",
           mode = "SlotDpll" => pc = "free"
    PROVE  SlotInv
<1>1. NumRows \in Nat \ {0}
  BY TheFormula
<1>2. ASSUME mode = "SlotDpll" PROVE SearchInv /\ SlotLeft /\ pc \notin {"rows", "judge"}
  <2>1. pc = "free" /\ freeRow = 0 /\ slots = << >> /\ slotVal = << >> /\ decisions = << >>
        /\ nextSlot = 0 /\ anyBudget = FALSE
    BY <1>2 DEF SlotStart
  <2>2. Free /\ 0..freeRow - 1 = {} /\ DOMAIN slots = {} /\ DOMAIN slotVal = {}
        /\ DOMAIN decisions = {} /\ Len(slots) = 0 /\ Len(decisions) = 0
    BY <2>1 DEF Free
  <2>3. SearchInv
    BY <2>1, <2>2 DEF SearchInv
  <2>4. \A sk : Ahead(sk)
    BY <2>1, NothingDecided
  <2>5. QED
    BY <2>1, <2>3, <2>4 DEF SlotLeft, SlotsLeft
<1>3. QED
  BY <1>2 DEF SlotInv

\* The picker starts with the copies of all rows or of none.
LEMMA FreshOuter ==
    ASSUME scenario \in Scenarios, OuterInit
    PROVE  OuterOK /\ todo \in Seq(AllRows) /\ blocks = {}
<1>1. NumRows \in Nat \ {0} /\ scenario.cegisRows \in Nat
  BY TheFormula, OuterAssumption
<1>2. CegisRows \in Nat
  BY <1>1, LeastOfTwo DEF CegisRows
<1>3. loaded \subseteq 0..NumRows - 1 /\ Cardinality(loaded) <= CegisRows
  <2>1. CASE Full
    <3>1. Cardinality(0..NumRows - 1) = NumRows
      <4>1. 0 \in Int /\ NumRows - 1 \in Int
        BY <1>1
      <4>2. QED
        BY <1>1, <4>1, FS_Interval
    <3>2. QED
      BY <1>1, <2>1, <3>1 DEF OuterInit, Full
  <2>2. CASE ~ Full
    <3>1. loaded = {} /\ Cardinality({}) = 0
      BY <2>2, FS_EmptySet DEF OuterInit
    <3>2. QED
      BY <1>2, <3>1
  <2>3. QED
    BY <2>1, <2>2
<1>4. pins \in [Outer -> {-1, 1}] /\ model \in [Exs -> {-1, 1}] /\ badRows \in Seq(0..NumRows - 1)
  BY DEF OuterInit
<1>5. QED
  BY <1>3, <1>4 DEF OuterInit, OuterOK

\* Definability starts with nothing prepared.
LEMMA FreshArbiter ==
    ASSUME scenario \in Scenarios, ArbInit, mode = "Definability" => pc \in {"padoa", "bail"}
    PROVE  ArbInv /\ DefsInv
<1>1. ArbStart
  BY DEF ArbInit, ArbStart
<1>2. DOMAIN defs = {} /\ DOMAIN partner = {} /\ roots = {} /\ undefined = {}
  BY <1>1 DEF ArbStart
<1>3. Decided /\ Partners
  BY <1>2 DEF Decided, Partners
<1>4. Learnt /\ LearntSound
  <2>1. DOMAIN arbs = {} /\ Range(forcing) = {} /\ IsFiniteSet(DOMAIN arbs) /\ conflicts = {}
        /\ forcing = << >> /\ arbs = << >>
    BY <1>1, FS_EmptySet DEF Range, ArbStart
  <2>2. arbs \in [DOMAIN arbs -> {-1, 1}]
    <3>1. arbs = [x \in {} |-> x]
      BY <2>1
    <3>2. [x \in {} |-> x] \in [{} -> {-1, 1}]
      OBVIOUS
    <3>3. QED
      BY <2>1, <3>1, <3>2
  <2>3. Learnt
    BY <2>1, <2>2 DEF Learnt
  <2>4. LearntSound
    BY <2>1 DEF LearntSound, Spares
  <2>5. QED
    BY <2>3, <2>4
<1>5. mode = "Definability" => RoundState
  BY <1>1 DEF RoundState, ArbStart
<1>6. OrderedBelow(1)
  <2>1. [y \in Exs |-> 0] \in [Exs -> 0..1]
    OBVIOUS
  <2>2. QED
    BY <1>2, <2>1 DEF OrderedBelow
<1>7. QED
  BY <1>1, <1>3, <1>4, <1>5, <1>6 DEF ArbInv, DefsInv

\* The invariant holds at the start.
LEMMA InitInv ==
    ASSUME Init
    PROVE  ExpandInv
<1>1. /\ scenario \in Scenarios /\ mode = FirstMode /\ pc = Entry(FirstMode) /\ answer = "none"
      /\ slices = 0 /\ level = 1 /\ SlotInit /\ OuterInit /\ ArbInit
  BY DEF Init
<1>2. FirstMode \in {"Definability", "OuterCegar", "SlotDpll"} /\ (FirstMode = "OuterCegar" => Eae)
  BY DEF FirstMode
<1>3. pc \in Places(mode)
  BY <1>1, <1>2, EntryPlaces
<1>4. pc \notin {"pending", "returned", "Partial"}
  BY <1>1, <1>2, <1>3 DEF Places
<1>5. ControlInv
  BY <1>1, <1>2, <1>3, <1>4 DEF ControlInv
<1>6. SlotInv
  <2>1. NumRows \in Nat \ {0}
    BY <1>1, TheFormula
  <2>2. SlotStart
    BY <1>1 DEF SlotInit, SlotStart
  <2>3. SlotShape
    <3>1. anyBudget \in BOOLEAN /\ prune \in BOOLEAN /\ soft \in BOOLEAN
      BY <1>1, Zenon DEF SlotInit
    <3>2. QED
      BY <1>1, <2>1, <3>1 DEF SlotInit, SlotShape
  <2>4. mode = "SlotDpll" => pc = "free"
    BY <1>1, <2>1, <2>2 DEF Entry, SlotEntry, SlotStart
  <2>5. QED
    BY <1>1, <2>2, <2>3, <2>4, FreshSlots
<1>7. OuterInv
  <2>1. OuterOK /\ todo \in Seq(AllRows) /\ blocks = {}
    BY <1>1, FreshOuter
  <2>2. mode = "OuterCegar" => pc = "pick" /\ Eae
    BY <1>1, <1>2 DEF Entry, OuterEntry
  <2>3. OuterSound
    BY <2>1 DEF OuterSound
  <2>4. QED
    BY <2>1, <2>2, <2>3 DEF OuterInv
<1>8. PartialInv
  <2>1. ub = 0
    BY <1>1 DEF SlotInit
  <2>2. QED
    BY <1>1, <1>4, <2>1 DEF PartialInv, AtLevel
<1>9. ArbInv /\ DefsInv
  <2>1. mode = "Definability" => pc \in {"padoa", "bail"}
    BY <1>1 DEF Entry, ArbEntry, ArbInit
  <2>2. QED
    BY <1>1, <2>1, FreshArbiter
<1>10. AnswerInv
  BY <1>1 DEF AnswerInv, SatIsModel, UnsatIsFalse
<1>11. QED
  BY <1>5, <1>6, <1>7, <1>8, <1>9, <1>10 DEF ExpandInv

-----------------------------------------------------------------------------
(* What follows.                                                           *)

\* Slots are distinct, so there are as many cells in them.
LEMMA SlotCount ==
    ASSUME SlotShape
    PROVE  Cardinality(InSlot) = Len(slots)
<1> DEFINE n == Len(slots)
           at == [p \in 1..n |-> slots[p]]
<1>1. n \in Nat /\ DOMAIN slots = 1..n /\ \A p, q \in 1..n : slots[p] = slots[q] => p = q
  BY DEF SlotShape
<1>2. IsFiniteSet(1..n) /\ Cardinality(1..n) = n
  <2>1. 1 \in Int /\ n \in Int
    BY <1>1
  <2>2. QED
    BY <1>1, <2>1, FS_Interval
<1> HIDE DEF n
<1>3. at \in Bijection(1..n, InSlot)
  <2>1. at \in [1..n -> InSlot]
    BY <1>1 DEF InSlot
  <2>2. \A c \in InSlot : \E p \in 1..n : at[p] = c
    BY <1>1 DEF InSlot
  <2>3. \A p, q \in 1..n : at[p] = at[q] => p = q
    BY <1>1
  <2>4. QED
    BY <2>1, <2>2, <2>3 DEF Bijection, Injection, Surjection, IsInjective
<1>4. Cardinality(InSlot) = Cardinality(1..n)
  BY <1>2, <1>3, FS_Bijection DEF ExistsBijection
<1>5. QED
  BY <1>2, <1>4 DEF n

\* The state has its shape.
LEMMA InvTypeOK ==
    ASSUME ExpandInv
    PROVE  TypeOK
<1>1. ControlInv /\ SlotShape /\ OuterOK /\ SlotInv /\ ArbInv
  BY DEF ExpandInv, SlotInv, OuterInv
<1>2. SlotsOK
  <2>1. CASE mode = "SlotDpll"
    BY <1>1, <2>1, SlotCount DEF SlotsOK, SlotShape, SlotInv, SearchInv
  <2>2. CASE mode # "SlotDpll"
    <3>1. SlotStart
      BY <1>1, <2>2 DEF SlotInv
    <3>2. DOMAIN decisions = {} /\ DOMAIN slotVal = {} /\ Len(decisions) = nextSlot
      BY <3>1 DEF SlotStart
    <3>3. QED
      BY <1>1, <3>2, SlotCount DEF SlotsOK, SlotShape
  <2>3. QED
    BY <2>1, <2>2
<1>3. ArbOK
  <2>1. CASE mode # "Definability"
    <3>1. ArbStart
      BY <1>1, <2>1 DEF ArbInv
    <3>2. DOMAIN partner = {} /\ DOMAIN defs = {} /\ Range(forcing) = {}
      BY <3>1 DEF ArbStart, Range
    <3>3. QED
      BY <3>1, <3>2 DEF ArbOK, ArbStart
  <2>2. CASE mode = "Definability"
    <3>1. Decided /\ Partners /\ Learnt /\ RoundState
      BY <1>1, <2>2 DEF ArbInv
    <3>2. arbs # << >> => DOMAIN arbs # {}
      <4>1. arbs = [c \in DOMAIN arbs |-> arbs[c]]
        BY <3>1 DEF Learnt
      <4>2. QED
        BY <4>1
    <3>3. pc \in {"validity", "pending"} =>
            row = NoRow /\ vmodel = << >> /\ cmodel = << >> /\ visit = {}
      BY <3>1 DEF RoundState
    <3>4. /\ DOMAIN partner \subseteq roots /\ \A y \in DOMAIN partner : partner[partner[y]] = y
          /\ roots \cap DOMAIN defs = {}
      BY <3>1 DEF Decided, Partners
    <3>5. /\ \A c \in Range(forcing) : DOMAIN c.ante \subseteq f.dependencies[c.y]
          /\ DOMAIN arbs # {} => Cardinality(DOMAIN arbs) < scenario.cells
      BY <3>1 DEF Learnt
    <3>6. QED
      BY <3>2, <3>3, <3>4, <3>5 DEF ArbOK
  <2>3. QED
    BY <2>1, <2>2
<1>4. pc \in {"free", "decide", "rows", "judge", "pick", "history", "fuzz", "scan", "bad",
              "padoa", "interpolate", "validity", "consist", "learn", "bail",
              "Partial", "pending", "returned"}
  BY <1>1 DEF ControlInv, Places
<1>5. QED
  BY <1>1, <1>2, <1>3, <1>4 DEF TypeOK, ControlInv

\* Nothing is lost.
LEMMA InvNothingLost ==
    ASSUME ExpandInv, ~ (mode = "SlotDpll" /\ Forgets)
    PROVE  NothingLost
<1>1. SUFFICES ASSUME answer = "none", Models[f] # {}
               PROVE  /\ mode = "OuterCegar" => PicksLeft
                      /\ mode = "Definability" => ConstantLink \/ ArbitersLeft
                      /\ mode \notin {"OuterCegar", "Definability"} => SlotsLeft
  BY DEF NothingLost
<1>2. scenario \in Scenarios /\ SlotInv /\ OuterInv /\ ArbInv
  BY DEF ExpandInv, ControlInv
<1>3. mode = "OuterCegar" => PicksLeft
  BY <1>1, <1>2, PickerLeft DEF OuterInv
<1>4. ASSUME mode = "Definability" PROVE ConstantLink \/ ArbitersLeft
  BY <1>1, <1>2, <1>4 DEF ArbInv, LearntSound, Spares, ArbitersLeft
<1>5. ASSUME mode \notin {"OuterCegar", "Definability"} PROVE SlotsLeft
  <2>1. CASE mode = "SlotDpll"
    BY <1>1, <1>2, <2>1 DEF SlotInv, SlotLeft
  <2>2. CASE mode # "SlotDpll"
    <3>1. nextSlot = 0
      BY <1>2, <2>2 DEF SlotInv, SlotStart
    <3>2. QED
      BY <1>1, <3>1, NothingDecided DEF SlotsLeft
  <2>3. QED
    BY <2>1, <2>2
<1>6. QED
  BY <1>3, <1>4, <1>5

\* The inductive invariant holds in every state.
LEMMA AlwaysInv == Spec => []ExpandInv
<1>1. Init => ExpandInv
  BY InitInv
<1>2. ExpandInv /\ [Next]_vars => ExpandInv'
  BY NextStep
<1>3. QED
  BY <1>1, <1>2, PTL DEF Spec

-----------------------------------------------------------------------------
(* The theorems.                                                           *)

\* Each of the four searches keeps its state in shape through all slices of time: the
\* decided slots are a prefix, no more copies than fit are loaded, partners are mutual
\* and share no definition, and nothing of a round is left when the loop is suspended.
THEOREM ExpandTypeCorrect == Spec => []TypeOK
<1>1. ExpandInv => TypeOK
  BY InvTypeOK
<1>2. QED
  BY <1>1, AlwaysInv, PTL

\* The tables that step returns with Sat are Skolem tables of the formula, in every mode.
THEOREM ExpandSatCorrect == Spec => []SatIsModel
<1>1. ExpandInv => SatIsModel
  BY DEF ExpandInv, AnswerInv
<1>2. QED
  BY <1>1, AlwaysInv, PTL

\* When step answers UNSAT the formula is false, but for a slot search that is interrupted
\* and whose SAT solver may run out of conflicts, which forgets that it did.
THEOREM ExpandUnsatCorrect ==
    Spec => [](~ (mode = "SlotDpll" /\ Forgets) => UnsatIsFalse)
<1>1. ExpandInv => (~ (mode = "SlotDpll" /\ Forgets) => UnsatIsFalse)
  BY DEF ExpandInv, AnswerInv
<1>2. QED
  BY <1>1, AlwaysInv, PTL

\* Until there is an answer, a true formula has Skolem tables that the search can still
\* reach, with the same exception.
THEOREM ExpandKeepsModels ==
    Spec => [](~ (mode = "SlotDpll" /\ Forgets) => NothingLost)
<1>1. ExpandInv => (~ (mode = "SlotDpll" /\ Forgets) => NothingLost)
  BY InvNothingLost
<1>2. QED
  BY <1>1, AlwaysInv, PTL
=============================================================================
