------------------------------ MODULE Arbiter ------------------------------
(***************************************************************************)
(* provers/frust/src/arbiter.rs, validity_cegar, with what definability.rs *)
(* prepares for it.                                                        *)
(*                                                                         *)
(* An existential that the matrix determines is defined by an interpolant  *)
(* or, where none was found, by forcing clauses.  Each of the others, the  *)
(* roots, gets a cell per row of its table or, when the table is too wide, *)
(* a single one.  The solver `validity' looks for a row in which the       *)
(* matrix is false under all this; `consist' for a model of that row, from *)
(* which a clause or a cell is learned; when there is none, `arbsolve'     *)
(* chooses other values for the cells.                                     *)
(*                                                                         *)
(* A cell is a set of links <<y, cube>>: it is the value of y where the    *)
(* cube holds.  Two roots that the matrix makes equal wherever their       *)
(* dependencies are equal, partners, share their cells.                    *)
(*                                                                         *)
(* A scenario has three more fields: cells is ARB_BUDGET, with 0 where a   *)
(* gate keeps the formula out; widest the bound 13 of cell_dep_cap; trust  *)
(* the option trust_cell_link.                                             *)
(***************************************************************************)
EXTENDS OuterCegar

CONSTANT SmallDep     \* dependencies up to which roots get no forcing clauses (4)

ASSUME ArbiterAssumption ==
    /\ SmallDep \in Nat
    /\ \A s \in Scenarios : s.cells \in Nat /\ s.widest \in Nat /\ s.trust \in BOOLEAN

VARIABLES
    \* fields of CegarState
    roots,       \* undef_set
    defs,        \* the interpolants
    partner,
    forcing,     \* forcing_order: clauses [ante, y, value]
    arbs,        \* arb_assump: the cells with the values chosen for them
    conflicts,   \* the clauses of arbsolve, as the choices they exclude
    cegar,       \* "none", "new" while rounds = 0, then "running"
    \* local variables
    undefined,   \* what padoa_split returns
    row,         \* u_assump
    vmodel, cmodel,
    visit        \* existentials that the loop has still to look at

arbFields == <<roots, defs, partner, forcing, arbs, conflicts, cegar>>
arbLocals == <<undefined, row, vmodel, cmodel, visit>>

AllRows == 0..NumRows - 1

ArbInit ==
    /\ roots = {} /\ defs = << >> /\ partner = << >>
    /\ forcing = << >> /\ arbs = << >> /\ conflicts = {} /\ cegar = "none"
    /\ undefined = {} /\ row = NoRow /\ vmodel = << >> /\ cmodel = << >> /\ visit = {}

\* The mode changes, and the state of the loop is never looked at again.
ArbForgotten ==
    /\ roots' = {} /\ defs' = << >> /\ partner' = << >>
    /\ forcing' = << >> /\ arbs' = << >> /\ conflicts' = {} /\ cegar' = "none"
    /\ undefined' = {} /\ row' = NoRow /\ vmodel' = << >> /\ cmodel' = << >> /\ visit' = {}

\* The first call prepares the loop, unless a gate keeps the formula out.
ArbEntry ==
    IF scenario.cells = 0 THEN "bail"
    ELSE IF cegar # "none" THEN "validity" ELSE "padoa"

\* Time or conflicts may run out in the solvers that prepare the loop.
MayRunOut == scenario.budgetHits \/ scenario.slices > 0

\* The map g with value v for key k (HashMap::insert).
Put(g, k, v) == [x \in {k} \cup DOMAIN g |-> IF x = k THEN v ELSE g[x]]

-----------------------------------------------------------------------------
(* definability.rs                                                         *)

Live == {y \in Exs : \E c \in f.clauses : y \in c \/ -y \in c}

\* What a model of a row shows to y and to the existentials zs.
Seen(y, zs, n, m) == <<Key(Row(n), f.dependencies[y]), [z \in zs |-> m[z]]>>

\* The matrix determines y from its dependencies and zs (a check on two copies).
Unique(y, zs) ==
    \A n, k \in AllRows : \A m \in RowModels(n, {}), l \in RowModels(k, {}) :
        Seen(y, zs, n, m) = Seen(y, zs, k, l) => m[y] = l[y]

Views(y, zs) == [f.dependencies[y] -> BOOLEAN] \X [zs -> {-1, 1}]

\* unit_prop_constants: the literals that follow by unit propagation are those in
\* every set that is closed under it.
Closed(ls) == \A c \in f.clauses : \A l \in c : {-m : m \in c \ {l}} \subseteq ls => l \in ls

Propagated ==
    LET all == UNION f.clauses
    IN  {l \in all : \A ls \in SUBSET all : Closed(ls) => l \in ls}

\* It stops when they contradict each other.
Constants ==
    LET ls       == Propagated
        assigned == {y \in Live : {y, -y} \cap ls # {}}
    IN  {c \in UNION {[ys -> {-1, 1}] : ys \in SUBSET assigned} :
            /\ \A y \in DOMAIN c : c[y] * y \in ls
            /\ DOMAIN c = assigned \/ \E l \in ls : -l \in ls}

\* A constant is an interpolant.  The others are checked; a link to an existential that
\* is defined already adds nothing to a check, and a check that is not made, or runs out
\* of conflicts, leaves its existential undefined.
Padoa ==
    /\ pc = "padoa"
    /\ \E c \in Constants :
          LET free == {y \in Live \ DOMAIN c : ~ Unique(y, {})}
          IN  /\ defs' = [y \in DOMAIN c |-> [inputs |-> {}, value |-> [v \in Views(y, {}) |-> c[y]]]]
              /\ undefined' \in IF MayRunOut
                                THEN {us \in SUBSET (Live \ DOMAIN c) : free \subseteq us}
                                ELSE {free}
    /\ pc' = "interpolate"
    /\ UNCHANGED <<scenario, fields, locals, outerFields, outerLocals, roots, partner, forcing,
                   arbs, conflicts, cegar, row, vmodel, cmodel, visit, slices, answer>>

\* Decided before y, over some of its dependencies: y may be defined over them too.
Linked(y) ==
    {z \in DOMAIN defs \cup roots : z # y /\ f.dependencies[z] \subseteq f.dependencies[y]}

Open == Live \ (DOMAIN defs \cup roots)

BeforeLoop == <<scenario, fields, locals, outerFields, outerLocals, partner, forcing, arbs,
              conflicts, cegar, undefined, row, vmodel, cmodel, visit, slices, answer>>

\* McMillan's interpolant of y: some function of what y sees, right wherever the
\* matrix has a model.
Interpolants(y) ==
    {g \in [Views(y, Linked(y)) -> {-1, 1}] :
        \A n \in AllRows : \A m \in RowModels(n, {}) : g[Seen(y, Linked(y), n, m)] = m[y]}

\* Then there is no proof to take an interpolant from.
ContradictoryUnits == \E l \in UNION f.clauses : {{l}, {-l}} \subseteq f.clauses

Interpolate(y) ==
    /\ pc = "interpolate" /\ y \in Open
    /\ Unique(y, Linked(y)) /\ ~ ContradictoryUnits
    /\ \E g \in Interpolants(y) : defs' = Put(defs, y, [inputs |-> Linked(y), value |-> g])
    /\ UNCHANGED <<BeforeLoop, roots, pc>>

Root(y) ==
    /\ pc = "interpolate" /\ y \in Open \cap undefined
    /\ ~ Unique(y, Linked(y))
    /\ roots' = roots \cup {y}
    /\ UNCHANGED <<BeforeLoop, defs, pc>>

\* The i-th dependency of y stands for the i-th of z.
Rank(s, u) == Cardinality({w \in s : w < u})
Opposite(y, z, cube) ==
    [w \in {v \in f.dependencies[z] :
               \E u \in DOMAIN cube : Rank(f.dependencies[y], u) = Rank(f.dependencies[z], v)} |->
        cube[CHOOSE u \in DOMAIN cube : Rank(f.dependencies[y], u) = Rank(f.dependencies[z], w)]]

\* detect_partners: the matrix entails that y and z agree where their arguments do.
Alike(y, z) ==
    LET dy == f.dependencies[y]  dz == f.dependencies[z]
    IN  /\ y # z /\ dy # {} /\ Cardinality(dy) = Cardinality(dz) /\ dy \cap dz = {}
        /\ \A n \in AllRows :
              Opposite(y, z, Key(Row(n), dy)) = Key(Row(n), dz)
                  => \A m \in RowModels(n, {}) : m[y] = m[z]

Pairings(ys) ==
    {p \in UNION {[s -> s] : s \in SUBSET ys} :
        /\ \A y \in DOMAIN p : Alike(y, p[y]) /\ p[p[y]] = y
        /\ \/ scenario.budgetHits
           \/ \A y, z \in ys \ DOMAIN p : ~ Alike(y, z)}

\* The loop starts when all are decided or time is up.
Prepared ==
    /\ pc = "interpolate"
    /\ MayRunOut \/ ContradictoryUnits \/ Open = {}
    /\ roots' = roots \cup (undefined \ DOMAIN defs)
    /\ partner' \in Pairings(roots')
    /\ cegar' = "new" /\ undefined' = {}
    /\ pc' = "validity"
    /\ UNCHANGED <<scenario, fields, locals, outerFields, outerLocals, defs, forcing, arbs,
                   conflicts, row, vmodel, cmodel, visit, slices, answer>>

-----------------------------------------------------------------------------
(* What the solvers know.                                                  *)

Holds(cube, n) == \A u \in DOMAIN cube : Row(n)[u] = cube[u]

Forced(n, m) == \A c \in Range(forcing) : Holds(c.ante, n) => m[c.y] = c.value

\* The cells cs have the values chosen for them.
Chosen(n, m, cs) == \A c \in cs : \A l \in c : Holds(l[2], n) => m[l[1]] = arbs[c]

\* The links of a cell agree, whatever its value.
Tied(n, m) ==
    \A c \in DOMAIN arbs : \A k, l \in c :
        Holds(k[2], n) /\ Holds(l[2], n) => m[k[1]] = m[l[1]]

Defined(n, m) == \A y \in DOMAIN defs : m[y] = defs[y].value[Seen(y, defs[y].inputs, n, m)]

\* consist: the matrix, the forcing clauses and the links.
Consistent(n) == {m \in RowModels(n, {}) : Forced(n, m) /\ Tied(n, m)}

\* validity, but for the negation of the matrix.
Encoded(n) ==
    {m \in [Exs -> {-1, 1}] : Forced(n, m) /\ Chosen(n, m, DOMAIN arbs) /\ Defined(n, m)}

\* cell_dep_cap
Cap ==
    LET pairs == Cardinality(DOMAIN partner) \div 2
        share == scenario.cells \div Max({1, Cardinality(roots) - pairs})
        log   == Min({k \in 0..scenario.cells : 2 ^ k >= share})
    IN  Min({log, scenario.widest})

\* Mutant: a cell for a whole table is no restriction.
NeverConst == FALSE

\* any_const_arbiter
AnyConst == \E c \in DOMAIN arbs : \E l \in c : Cardinality(f.dependencies[l[1]]) > Cap

CellFor(y, n) ==
    LET d    == f.dependencies[y]
        cube == IF Cardinality(d) > Cap THEN << >> ELSE Key(Row(n), d)
    IN  {<<y, cube>>} \cup
        {<<partner[z], Opposite(z, partner[z], cube)>> : z \in {y} \cap DOMAIN partner}

CellOf(y) == CellFor(y, row)

-----------------------------------------------------------------------------
(* validity_cegar                                                          *)

Outside == <<scenario, fields, locals, outerFields, outerLocals, roots, defs, partner,
             undefined, slices>>

GiveUp == pc' = "bail" /\ UNCHANGED answer

PendingInCegar ==
    /\ pc = "validity" /\ Pending
    /\ UNCHANGED <<outerFields, outerLocals, arbFields, arbLocals>>

\* A forcing clause is tried for y: consist is asked for a row with the other value.
Flips(y) == y \notin roots \/ Cardinality(f.dependencies[y]) > SmallDep

\* validity or consist runs out of conflicts.
NoConflictsLeft ==
    /\ scenario.budgetHits
    /\ pc \in {"validity", "consist"} \/ (pc = "learn" /\ visit # {} /\ Flips(Min(visit)))
    /\ GiveUp
    /\ UNCHANGED <<Outside, forcing, arbs, conflicts, cegar, row, vmodel, cmodel, visit>>

Counterexample ==
    /\ pc = "validity"
    /\ \E n \in AllRows : \E m \in Encoded(n) \ RowModels(n, {}) : row' = n /\ vmodel' = m
    /\ pc' = "consist"
    /\ UNCHANGED <<Outside, forcing, arbs, conflicts, cegar, cmodel, visit, answer>>

\* forcing_to_skolem: an interpolant, or the first clause or cell that holds, or false.
Function(y, n) ==
    LET clauses == {i \in DOMAIN forcing : forcing[i].y = y /\ Holds(forcing[i].ante, n)}
        cells   == {c \in DOMAIN arbs : \E l \in c : l[1] = y /\ Holds(l[2], n)}
    IN  IF clauses # {} THEN forcing[Min(clauses)].value
        ELSE IF cells # {} THEN arbs[CHOOSE c \in cells : TRUE] ELSE -1

Certificate(n) ==
    LET val[y \in Exs] ==
            IF y \in DOMAIN defs
            THEN defs[y].value[<<Key(Row(n), f.dependencies[y]), [z \in defs[y].inputs |-> val[z]]>>]
            ELSE Function(y, n)
    IN  val

NoCounterexample ==
    /\ pc = "validity"
    /\ \A n \in AllRows : Encoded(n) \subseteq RowModels(n, {})
    /\ tables' = [c \in Cells |-> Certificate(CHOOSE n \in AllRows : Cell(c[1], n) = c)[c[1]]]
    /\ Return("Sat")
    /\ UNCHANGED <<scenario, freeRow, firstSeen, slots, slotVal, decisions, nextSlot, cegarRound,
                   newConflicts, locals, outerFields, outerLocals, arbFields, arbLocals, slices>>

\* In the first round every existential is looked at.
RowModelFound ==
    /\ pc = "consist"
    /\ \E m \in Consistent(row) :
          /\ Chosen(row, m, DOMAIN arbs)
          /\ cmodel' = m
          /\ visit' = {y \in Exs \ DOMAIN defs : cegar = "new" \/ m[y] # vmodel[y]}
    /\ vmodel' = << >> /\ cegar' = "running"
    /\ IF visit' = {} THEN GiveUp ELSE pc' = "learn" /\ UNCHANGED answer
    /\ UNCHANGED <<Outside, forcing, arbs, conflicts, row>>

Refuting(cs) == \A m \in Consistent(row) : ~ Chosen(row, m, cs)

\* No cell is to blame for it.
RowRefuted ==
    /\ pc = "consist"
    /\ Refuting({})
    /\ IF ~ scenario.trust /\ AnyConst /\ partner # << >> THEN GiveUp ELSE Return("UnsatRow")
    /\ UNCHANGED <<Outside, forcing, arbs, conflicts, cegar, row, vmodel, cmodel, visit>>

\* The assumptions in the core; cells that are not for this row would add nothing but
\* exceptions.  A cell that is refuted in every row is known to the solver as a unit,
\* and then the core is the cell with both its values.
CellCores ==
    LET here     == {c \in DOMAIN arbs : \E l \in c : Holds(l[2], row)}
        wrong(c) == \A n \in AllRows : \A m \in Consistent(n) : ~ Chosen(n, m, {c})
    IN  {{<<c, arbs[c]>> : c \in cs} : cs \in {ds \in SUBSET here : ds # {} /\ Refuting(ds)}}
            \cup {{<<c, 1>>, <<c, -1>>} : c \in {d \in here : wrong(d)}}

CellChoices(excluded) ==
    {p \in [DOMAIN arbs -> {-1, 1}] : \A core \in excluded : \E x \in core : p[x[1]] # x[2]}

\* arbsolve learns the core, and chooses again.
Choose ==
    /\ pc = "consist"
    /\ \E core \in CellCores : conflicts' = conflicts \cup {core}
    /\ arbs' \in CellChoices(conflicts')
    /\ row' = NoRow /\ vmodel' = << >>
    /\ pc' = "validity"
    /\ UNCHANGED <<Outside, forcing, cegar, cmodel, visit, answer>>

\* There is no choice left, or arbsolve is out of conflicts, which is not asked.
Exhausted ==
    /\ pc = "consist"
    /\ \E core \in CellCores : conflicts' = conflicts \cup {core}
    /\ CellChoices(conflicts') = {} \/ scenario.budgetHits
    /\ IF AnyConst THEN GiveUp /\ UNCHANGED skipped
       ELSE Return("Unsat") /\ skipped' = (CellChoices(conflicts') # {})
    /\ UNCHANGED <<scenario, fields, locals, outerFields, todo, badRow, roots, defs, partner,
                   undefined, slices, forcing, arbs, cegar, row, vmodel, cmodel, visit>>

\* What a flip of y uses of the row when it fails.  Of a root it must not use the flip.
Antecedents(y) ==
    IF ~ Flips(y) THEN {}
    ELSE {us \in SUBSET f.dependencies[y] :
             \A n \in AllRows : Holds(Key(Row(row), us), n) =>
                \A m \in Consistent(n) : y \notin roots /\ m[y] = cmodel[y]}

NewForcing(y) ==
    \E us \in Antecedents(y) :
       /\ forcing' = Append(forcing, [ante |-> Key(Row(row), us), y |-> y, value |-> cmodel[y]])
       /\ UNCHANGED <<arbs, pc>>

NewCell(y) ==
    /\ y \in roots \/ Antecedents(y) = {}
    /\ IF CellOf(y) \in DOMAIN arbs THEN UNCHANGED <<arbs, pc>>
       ELSE IF Cardinality(DOMAIN arbs) + 1 >= scenario.cells THEN pc' = "bail" /\ UNCHANGED arbs
       ELSE arbs' = Put(arbs, CellOf(y), cmodel[y]) /\ UNCHANGED pc
    /\ UNCHANGED forcing

Learn ==
    /\ pc = "learn" /\ visit # {}
    /\ NewForcing(Min(visit)) \/ NewCell(Min(visit))
    /\ visit' = visit \ {Min(visit)}
    /\ UNCHANGED <<Outside, conflicts, cegar, row, vmodel, cmodel, answer>>

Learned ==
    /\ pc = "learn" /\ visit = {}
    /\ row' = NoRow /\ cmodel' = << >>
    /\ pc' = "validity"
    /\ UNCHANGED <<Outside, forcing, arbs, conflicts, cegar, vmodel, visit, answer>>

ArbStep ==
    \/ Padoa \/ Prepared
    \/ \E y \in Exs : Interpolate(y) \/ Root(y)
    \/ NoConflictsLeft \/ Counterexample \/ NoCounterexample
    \/ RowModelFound \/ RowRefuted \/ Choose \/ Exhausted
    \/ Learn \/ Learned

-----------------------------------------------------------------------------
\* The shape of the state; between the rounds nothing is left of the last one.
ArbOK ==
    /\ DOMAIN partner \subseteq roots
    /\ \A y \in DOMAIN partner : partner[partner[y]] = y
    /\ roots \cap DOMAIN defs = {}
    /\ \A c \in Range(forcing) : DOMAIN c.ante \subseteq f.dependencies[c.y]
    /\ arbs # << >> => Cardinality(DOMAIN arbs) < scenario.cells
    /\ pc \in {"validity", "pending"} =>
          row = NoRow /\ vmodel = << >> /\ cmodel = << >> /\ visit = {}

\* The links of a cell as a property of the formula: with a cell for the whole table
\* of two partners their tables are equal in all rows, not only where their arguments
\* agree.
ConstantLink ==
    \E c \in DOMAIN arbs :
        Cardinality(c) > 1 /\ \A l \in c : Cardinality(f.dependencies[l[1]]) > Cap

\* The clauses learned leave no value for some row, which is then never looked at.
Masked == \E n \in AllRows : Encoded(n) = {}

\* arbsolve was given both values of a cell, and will choose as it did before.
Tautology == \E core \in conflicts : \E c \in DOMAIN arbs : {<<c, 1>>, <<c, -1>>} \subseteq core

\* The tables sk of y have a value for all arguments in a cube.
Obeys(sk, y, cube, value) ==
    \A k \in DOMAIN sk[y] : (\A u \in DOMAIN cube : k[u] = cube[u]) => sk[y][k] = (value = 1)

\* Some Skolem tables obey the forcing clauses and differ from all choices excluded.
ArbitersLeft ==
    \E sk \in Models[f] :
       /\ \A c \in Range(forcing) : Obeys(sk, c.y, c.ante, c.value)
       /\ \A core \in conflicts : \E x \in core : \E l \in x[1] : ~ Obeys(sk, l[1], l[2], x[2])
=============================================================================
