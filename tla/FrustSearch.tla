---------------------------- MODULE FrustSearch -----------------------------
(***************************************************************************)
(* provers/frust/src/search.rs: solve alternates slices of expansion and   *)
(* of saturation.  saturate is the given-clause loop over a database that  *)
(* outlives the slice; it returns None when the slice is over, and the     *)
(* next call goes on with the queue as it is.  Between two slices short    *)
(* clauses are handed to expansion and blocked clauses are removed.        *)
(*                                                                         *)
(* Everything but the clock is deterministic.  The expansion is an oracle  *)
(* here: it answers rightly, gives up, or needs another slice.             *)
(***************************************************************************)
EXTENDS FrustRules, Sequences, SequencesExt

CONSTANTS
    Problems,  \* what solve may be called with
    PassCap,   \* clauses processed before a fork is tried (256 in the code)
    BceSlack,  \* growth of the database before another elimination (256 in the code)
    None       \* Python's None, in an optional field of a proof step

\* A problem: the formula, whose arrays Formula::new makes for the variables that the
\* header counts; its clauses in the order of the file; whether expansion
\* runs (extract_cert); max_clauses and max_forks; and, for the clock, how many
\* slices fit into the time limit and whether a slice may try the 2^16 partners after
\* which the inner loop looks at the clock.
ASSUME ProblemsAssumption ==
    \A p \in Problems :
        /\ IsFormula(p.formula)
        /\ p.formula.universals \cup DOMAIN p.formula.dependencies \subseteq 1..p.formula.n_vars
        /\ p.input \in Seq(p.formula.clauses) /\ Range(p.input) = p.formula.clauses
        /\ p.expand \in BOOLEAN /\ p.manyPartners \in BOOLEAN
        /\ p.maxClauses \in Nat /\ p.maxForks \in Nat /\ p.slices \in Nat

ASSUME BoundsAssumption == PassCap \in Nat \ {0} /\ BceSlack \in Nat

\* None is no result.
ASSUME NoneAssumption == None \notin {"SAT", "UNSAT", "UNKNOWN"}

VARIABLES
    problem,
    unread,      \* the clauses of the input that are still to be loaded
    g,           \* the formula with the fork variables
    db,          \* struct Db; positions count from 1, dead and processed are sets of them
    forks,
    knownUnsat, expandDone, fedUpto, lastBceAt,
    fed,         \* the clauses expansion has been given
    late,        \* the deadline of the slice has passed
    pass,        \* processed_this_pass
    given,       \* the position of the clause being processed, or 0
    lits,        \* its literals still to be looked at
    partners,    \* <<literal, position>> of the clauses still to be resolved with it
    slices,      \* slices so far
    pc,          \* "loading", "slice", "saturating", "forking", "between", "returned"
    result,      \* None, or "SAT", "UNSAT", "UNKNOWN"
    file         \* the proof that is saved, or None

scheduling == <<knownUnsat, expandDone, fedUpto, lastBceAt, fed, slices>>
inner == <<pass, given, lits, partners>>
searchVars == <<problem, unread, g, db, forks, scheduling, late, inner, pc, result, file>>

f == problem.formula

-----------------------------------------------------------------------------
(* struct Db                                                               *)

HasIdx(d, c) == \E i \in DOMAIN d.proof : d.proof[i].clause = c

Idx(d, c) == (CHOOSE i \in DOMAIN d.proof : d.proof[i].clause = c) - 1

ProofStep(clause, rule, premises, pivot, part, c3, fresh) ==
    [clause |-> clause, rule |-> rule, premises |-> premises, pivot |-> pivot,
     part |-> part, c3 |-> c3, fresh |-> fresh]

Record(d, s) == IF HasIdx(d, s.clause) THEN d ELSE [d EXCEPT !.proof = Append(@, s)]

\* occ: every clause ever activated with literal l, in order.
Occ(d, l) == {i \in DOMAIN d.clauses : l \in d.clauses[i]}

Live(d) == DOMAIN d.clauses \ d.dead

\* The literal of c in the fewest clauses, the first such.
Rarest(d, c) ==
    CHOOSE l \in c : \A k \in c \ {l} :
        LET n == Cardinality(Occ(d, l))
            m == Cardinality(Occ(d, k))
        IN  n < m \/ (n = m /\ l < k)

\* Only the clauses with that literal are tried.
ForwardSubsumed(d, c) ==
    c # {} /\ \E i \in Occ(d, Rarest(d, c)) \ d.dead : d.clauses[i] \subseteq c

BackwardSubsumed(d, c) ==
    IF c = {} \/ Cardinality(c) > 5 THEN {} ELSE {i \in Live(d) : c \subseteq d.clauses[i]}

Activate(d, c) ==
    IF c \in d.seen THEN d
    ELSE IF ForwardSubsumed(d, c) THEN [d EXCEPT !.seen = @ \cup {c}]
    ELSE [d EXCEPT !.seen = @ \cup {c},
                   !.dead = @ \cup BackwardSubsumed(d, c),
                   !.queue = @ \cup {Len(d.clauses) + 1},
                   !.clauses = Append(@, c)]

Admit(d, s) == Activate(Record(d, s), s.clause)

\* Mutant: the reduct is used without a step of its own.
AdmitNotRecorded(h, d, s) == Activate(Record(d, s), RsReduce(h, s.clause))

\* Record c, and activate its reduct.
AdmitReduced(h, d, s) ==
    LET r == RsReduce(h, s.clause)
        e == Record(d, s)
    IN  IF r = s.clause THEN Activate(e, r)
        ELSE Activate(Record(e, ProofStep(r, "ured", <<Idx(e, s.clause)>>, None, None, {}, None)), r)

EmptyDb == [clauses |-> << >>, dead |-> {}, processed |-> {}, seen |-> {}, queue |-> {}, proof |-> << >>]

\* The clauses sorted by length, the order of positions among equals.
Before(d, i, j) ==
    \/ Cardinality(d.clauses[i]) < Cardinality(d.clauses[j])
    \/ Cardinality(d.clauses[i]) = Cardinality(d.clauses[j]) /\ i <= j

First(d, set) == CHOOSE i \in set : \A j \in set : Before(d, i, j)

\* Mutant: the numbers are those of the proof before it was cut down.
RenumberedNot(kept, q) == q

\* The new number of step q.
Renumbered(kept, q) == Cardinality({i \in kept : i <= q})

\* compact: the steps that the first empty clause needs, renumbered.
Compact(p) ==
    LET root == CHOOSE i \in DOMAIN p : p[i].clause = {} /\ \A j \in 1..i - 1 : p[j].clause # {}
        needs(set) == UNION {{q + 1 : q \in Range(p[i].premises)} : i \in set}
        keep[n \in 0..root] ==
            IF n = 0 THEN {root} ELSE LET known == keep[n - 1] IN known \cup needs(known)
        kept == keep[root]
    IN  [n \in 1..Cardinality(kept) |->
            LET i == CHOOSE j \in kept : Cardinality({k \in kept : k < j}) = n - 1
            IN  [p[i] EXCEPT !.premises = [m \in DOMAIN @ |-> Renumbered(kept, @[m])]]]

-----------------------------------------------------------------------------
Init ==
    /\ problem \in Problems
    /\ unread = problem.input
    /\ g = f /\ db = EmptyDb /\ forks = 0
    /\ knownUnsat = FALSE /\ expandDone = ~ problem.expand
    /\ fedUpto = 0 /\ fed = {} /\ lastBceAt = 0
    /\ late = FALSE /\ pass = 0 /\ given = 0 /\ lits = {} /\ partners = << >> /\ slices = 0
    /\ pc = "loading" /\ result = None /\ file = None

Return(r) == pc' = "returned" /\ result' = r

\* What elimination leaves of the input.
Left == Bce(f, f.clauses)

\* The next clause of the input, if it is left.
LoadClause ==
    /\ pc = "loading" /\ unread # << >>
    /\ unread' = Tail(unread)
    /\ LET c == Head(unread)
       IN  db' = IF c \in Left /\ ~ IsTautology(c)
                 THEN AdmitReduced(g, db, ProofStep(c, "axiom", << >>, None, None, {}, None))
                 ELSE db
    /\ UNCHANGED <<problem, g, forks, scheduling, late, inner, pc, result, file>>

\* "empty in input", "BCE empties matrix", or the first slice.
Loaded ==
    /\ pc = "loading" /\ unread = << >>
    /\ lastBceAt' = Len(db.clauses)
    /\ CASE {} \in db.seen -> Return("UNSAT") /\ file' = db.proof
         [] {} \notin db.seen /\ Left = {} -> Return("SAT") /\ UNCHANGED file
         [] OTHER -> pc' = "slice" /\ UNCHANGED <<result, file>>
    /\ UNCHANGED <<problem, unread, g, db, forks, knownUnsat, expandDone, fedUpto, fed, slices, late, inner>>

\* Brute force, once for each formula.
Truth == [h \in {p.formula : p \in Problems} |-> IsTrue(h)]

StartSaturate ==
    /\ pc' = "saturating" /\ late' = FALSE /\ pass' = 0
    /\ slices' = slices + 1
    /\ UNCHANGED <<problem, unread, g, db, forks, fedUpto, lastBceAt, fed, given, lits, partners, result, file>>

\* now >= timeout_s
TimeOut ==
    /\ pc = "slice" /\ slices > 0
    /\ Return("UNKNOWN")
    /\ UNCHANGED <<problem, unread, g, db, forks, scheduling, late, inner, file>>

\* A slice of expansion that decides nothing, or ends it.
Expand ==
    /\ pc = "slice" /\ slices < problem.slices
    /\ expandDone' \in {expandDone, TRUE}
    /\ knownUnsat' = FALSE
    /\ StartSaturate

\* Step::Sat, and Step::UnsatRow for which reprove_row_unsat finds a proof.
ExpandDecides ==
    /\ pc = "slice" /\ slices < problem.slices /\ ~ expandDone
    /\ Return(IF Truth[f] THEN "SAT" ELSE "UNSAT")
    /\ UNCHANGED <<problem, unread, g, db, forks, scheduling, late, inner, file>>

\* Step::Unsat, and Step::UnsatRow without a proof: saturation is to find one.
ExpandKnowsUnsat ==
    /\ pc = "slice" /\ slices < problem.slices /\ ~ expandDone
    /\ ~ Truth[f]
    /\ knownUnsat' = TRUE /\ expandDone' = TRUE
    /\ StartSaturate

-----------------------------------------------------------------------------
(* saturate                                                                *)

Over == late \/ Len(db.clauses) > problem.maxClauses

\* return None
SliceOver == pc' = "between" /\ given' = 0 /\ lits' = {} /\ partners' = << >>

\* The clock, while saturate runs.
DeadlinePasses ==
    /\ pc \in {"saturating", "forking"} /\ ~ late
    /\ late' = TRUE
    /\ UNCHANGED <<problem, unread, g, db, forks, scheduling, inner, pc, result, file>>

Popping == pc = "saturating" /\ given = 0 /\ db.queue # {}

PopTooLate ==
    /\ Popping /\ Over
    /\ SliceOver
    /\ UNCHANGED <<problem, unread, g, db, forks, scheduling, late, pass, result, file>>

\* Enough for this pass, or nothing left: try a fork.
EndPass ==
    /\ pc = "saturating" /\ given = 0
    /\ db.queue = {} \/ (~ Over /\ pass >= PassCap)
    /\ pc' = "forking"
    /\ UNCHANGED <<problem, unread, g, db, forks, scheduling, late, inner, result, file>>

Pop ==
    /\ Popping /\ ~ Over /\ pass < PassCap
    /\ LET i == First(db, db.queue)
       IN  IF i \in db.dead \cup db.processed
           THEN /\ db' = [db EXCEPT !.queue = @ \ {i}]
                /\ UNCHANGED inner
           ELSE /\ db' = [db EXCEPT !.queue = @ \ {i}, !.processed = @ \cup {i}]
                /\ pass' = pass + 1
                /\ given' = i /\ lits' = db.clauses[i] /\ partners' = << >>
    /\ UNCHANGED <<problem, unread, g, forks, scheduling, late, pc, result, file>>

\* Mutant: clauses are taken to be processed in the order of their positions.
PartnersBefore(l) ==
    LET set == {i \in (Occ(db, -l) \cap db.processed) \ db.dead : i <= given}
    IN  [n \in 1..Cardinality(set) |->
            <<l, CHOOSE i \in set : Cardinality({j \in set : j < i}) = n - 1>>]

\* The partners for the next literal, as the list of its clauses is now.  The given
\* clause is processed by now: it is its own partner when it is a tautology.
Partners(l) ==
    LET set == (Occ(db, -l) \cap db.processed) \ db.dead
    IN  [n \in 1..Cardinality(set) |->
            <<l, CHOOSE i \in set : Cardinality({j \in set : j < i}) = n - 1>>]

NextLiteral ==
    /\ given # 0 /\ partners = << >> /\ lits # {}
    /\ partners' = Partners(Min(lits))
    /\ lits' = lits \ {Min(lits)}
    /\ UNCHANGED <<problem, unread, g, db, forks, scheduling, late, pass, given, pc, result, file>>

ClauseDone ==
    /\ given # 0 /\ partners = << >> /\ lits = {}
    /\ given' = 0
    /\ UNCHANGED <<problem, unread, g, db, forks, scheduling, late, pass, lits, partners, pc, result, file>>

\* The look at the clock in the inner loop, every 2^16 partners.
CutOff ==
    /\ given # 0 /\ partners # << >>
    /\ problem.manyPartners /\ Over
    /\ SliceOver
    /\ UNCHANGED <<problem, unread, g, db, forks, scheduling, late, pass, result, file>>

Resolution(r, c, d, p) ==
    ProofStep(r, "res", <<Idx(db, c), Idx(db, d)>>, p, None, {}, None)

TryPartner ==
    /\ given # 0 /\ partners # << >>
    /\ LET c == db.clauses[given]
           d == db.clauses[partners[1][2]]
           p == Var(partners[1][1])
           r == RsReduce(g, RsResolvent(c, d, p))
       IN  IF ~ RsResolves(c, d, p) \/ r \in db.seen
           THEN /\ partners' = Tail(partners)
                /\ UNCHANGED <<db, given, lits, pc, result, file>>
           ELSE /\ db' = Admit(db, Resolution(r, c, d, p))
                /\ IF r = {}
                   THEN /\ Return("UNSAT") /\ file' = Compact(db'.proof)
                        /\ given' = 0 /\ lits' = {} /\ partners' = << >>
                   ELSE /\ partners' = Tail(partners)
                        /\ UNCHANGED <<given, lits, pc, result, file>>
    /\ UNCHANGED <<problem, unread, g, forks, scheduling, late, pass>>

-----------------------------------------------------------------------------
(* Forks.  The parent stays in the database.                               *)

Forking == pc = "forking" /\ ~ Over

ForkTooLate ==
    /\ pc = "forking" /\ Over
    /\ SliceOver
    /\ UNCHANGED <<problem, unread, g, db, forks, scheduling, late, pass, result, file>>

Forkable == {i \in Live(db) : CanFork(g, db.clauses[i], knownUnsat)}

\* The first 200 clauses of the order; more are out of reach of a model.
StrongForkable == {i \in Live(db) : CanStrongFork(g, db.clauses[i])}

SplitClause(c, part, c3) ==
    LET x     == g.n_vars + 1
        h     == AddExistential(g, x, Intersection(g, c, part) \ c3)
        half(cl) == ProofStep(cl, IF c3 = {} THEN "fex" ELSE "sfex", <<Idx(db, c)>>, None, part, c3, x)
    IN  /\ g' = h
        /\ db' = AdmitReduced(h, AdmitReduced(h, db, half(c3 \cup part \cup {x})),
                              half(c3 \cup (c \ part) \cup {-x}))
        /\ forks' = forks + 1
        /\ IF forks' >= problem.maxForks
           THEN SliceOver /\ UNCHANGED pass
           ELSE pc' = "saturating" /\ pass' = 0 /\ UNCHANGED <<given, lits, partners>>
        /\ UNCHANGED <<problem, unread, scheduling, late, result, file>>

Fork ==
    /\ Forking /\ Forkable # {}
    /\ LET c == db.clauses[First(db, Forkable)]
       IN  SplitClause(c, ForkPart(g, c), {})

StrongFork ==
    /\ Forking /\ Forkable = {} /\ StrongForkable # {}
    /\ LET c    == db.clauses[First(db, StrongForkable)]
           part == PartOf(g, c, Smallest(g, c))
       IN  SplitClause(c, part, {Min(Intersection(g, c, part))})

\* Mutant: whether clauses are left in the queue does not matter.
NoQueue == TRUE

QueueEmpty == db.queue = {}

NothingToFork == Forking /\ Forkable = {} /\ StrongForkable = {}

NextPass ==
    /\ NothingToFork /\ ~ QueueEmpty
    /\ pc' = "saturating" /\ pass' = 0
    /\ UNCHANGED <<problem, unread, g, db, forks, scheduling, late, given, lits, partners, result, file>>

\* "saturated", which contradicts the expansion if that has refuted the formula.
Saturated ==
    /\ NothingToFork /\ QueueEmpty
    /\ Return(IF knownUnsat THEN "UNKNOWN" ELSE "SAT")
    /\ UNCHANGED <<problem, unread, g, db, forks, scheduling, late, inner, file>>

-----------------------------------------------------------------------------
\* Mutant: clauses with fork variables too.
FeedableShort(i) == Cardinality(db.clauses[i]) <= 4

\* Short clauses over the variables of the input.
Feedable(i) ==
    Cardinality(db.clauses[i]) <= 4 /\ \A l \in db.clauses[i] : Var(l) <= f.n_vars

\* incremental_bce: the live clauses under the prefix of the input.
Eliminated ==
    LET live == {db.clauses[i] : i \in Live(db)}
        left == Bce(f, live)
    IN  {i \in Live(db) : db.clauses[i] \notin left}

\* bail
GiveUp ==
    /\ pc = "between" /\ knownUnsat
    /\ Return("UNSAT")
    /\ UNCHANGED <<problem, unread, g, db, forks, scheduling, late, inner, file>>

NextSlice ==
    /\ pc = "between" /\ ~ knownUnsat
    /\ pc' = "slice"
    /\ fed' = fed \cup {db.clauses[i] : i \in {j \in fedUpto + 1..Len(db.clauses) : Feedable(j)}}
    /\ fedUpto' = Len(db.clauses)
    /\ IF Len(db.clauses) > lastBceAt + lastBceAt \div 2 + BceSlack
       THEN db' = [db EXCEPT !.dead = @ \cup Eliminated] /\ lastBceAt' = Len(db.clauses)
       ELSE UNCHANGED <<db, lastBceAt>>
    /\ UNCHANGED <<problem, unread, g, forks, knownUnsat, expandDone, slices, late, inner, result, file>>

SolveStep ==
    \/ LoadClause \/ Loaded
    \/ TimeOut \/ Expand \/ ExpandDecides \/ ExpandKnowsUnsat
    \/ PopTooLate \/ EndPass \/ Pop \/ NextLiteral \/ ClauseDone \/ CutOff \/ TryPartner
    \/ ForkTooLate \/ Fork \/ StrongFork \/ NextPass \/ Saturated
    \/ GiveUp \/ NextSlice

Next == SolveStep \/ DeadlinePasses

Spec == Init /\ [][Next]_searchVars
=============================================================================
