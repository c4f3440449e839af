--------------------------- MODULE ForkresSearch ----------------------------
(***************************************************************************)
(* provers/forkres/search.py: saturation under resolution and universal    *)
(* reduction, then one fork, until the empty clause is found, nothing is   *)
(* left to fork, or a budget is spent.                                     *)
(*                                                                         *)
(* The code works on Python sets, so the order in which it meets clauses   *)
(* is arbitrary; each step here takes one clause off the stack and all the *)
(* resolvents it gives.  The clock is a flag that may rise at any moment.  *)
(***************************************************************************)
EXTENDS ForkRules, Sequences, SequencesExt

CONSTANTS
    Problems,  \* what solve may be called with: a formula and a SearchConfig
    None       \* Python's None, in an optional field of a proof step

\* A problem: the formula, max_clauses and max_forks of its SearchConfig, and,
\* bounding the state space only, whether every order of the stack is explored or
\* the one that takes the clauses pushed together shortest first.  The variables of
\* the prefix are among those the header counts, as make_formula sees to.
ASSUME ProblemsAssumption ==
    \A p \in Problems :
        /\ IsFormula(p.formula)
        /\ p.formula.universals \cup DOMAIN p.formula.dependencies \subseteq 1..p.formula.n_vars
        /\ p.maxClauses \in Nat /\ p.maxForks \in Nat
        /\ p.anyOrder \in BOOLEAN

\* None is neither a number nor a result.
ASSUME NoneAssumption == None \notin Int \cup {"SAT", "UNSAT", "UNKNOWN"}

VARIABLES
    problem,  \* the arguments of solve
    unread,   \* the clauses of the formula that have not been looked at
    g,        \* the formula with the fork variables
    db,       \* clauses, which _saturate copies to db and returns
    todo,     \* the stack of _saturate, a sequence of sets: clauses pushed together
    proof,    \* the steps admitted so far
    nforks,   \* forks
    expired,  \* time.monotonic() > deadline
    pc,       \* "loading", "saturating", "choosing", or "returned"
    result    \* None while running, else "SAT", "UNSAT", "UNKNOWN"

searchVars == <<problem, unread, g, db, todo, proof, nforks, expired, pc, result>>

f == problem.formula

-----------------------------------------------------------------------------
(* The proof.  idx is a function of it: admit adds a clause only once.      *)

ProofStep(clause, rule, premises, pivot, part, c3, fresh) ==
    [clause |-> clause, rule |-> rule, premises |-> premises, pivot |-> pivot,
     part |-> part, c3 |-> c3, fresh |-> fresh]

HasIdx(p, c) == \E i \in DOMAIN p : p[i].clause = c

\* Mutant: positions counted from one, as a line number would be.
IdxFromOne(p, c) == CHOOSE i \in DOMAIN p : p[i].clause = c

Idx(p, c) == (CHOOSE i \in DOMAIN p : p[i].clause = c) - 1

Admit(p, s) == IF HasIdx(p, s.clause) THEN p ELSE Append(p, s)

Axiom(c) == ProofStep(c, "axiom", << >>, None, None, {}, None)

\* Mutant: the reduct is used without a step of its own.
ReductNotAdmitted(h, p, c) == p

\* Admit the reduct of c, which p justifies, when it is another clause.
AdmitReduct(h, p, c) ==
    LET r == UniversalReduce(h, c)
    IN  IF r = c THEN p ELSE Admit(p, ProofStep(r, "ured", <<Idx(p, c)>>, None, None, {}, None))

-----------------------------------------------------------------------------
Init ==
    /\ problem \in Problems
    /\ unread = f.clauses
    /\ g = f
    /\ db = {} /\ todo = << >> /\ proof = << >>
    /\ nforks = 0
    /\ expired = FALSE
    /\ pc = "loading" /\ result = None

\* sorted(clauses, key=(len, sorted literals)); on clauses of one size the first
\* difference of the sorted literals is the least literal they do not share.
Before(c, d) ==
    \/ Cardinality(c) < Cardinality(d)
    \/ Cardinality(c) = Cardinality(d) /\ Min(SymDiff(c, d)) \in c

\* One pass of the loop over g.clauses.  The order is that of the file, and is only
\* seen in the proof: any one will do.
LoadClause(c) ==
    /\ pc = "loading"
    /\ c \in unread /\ \A d \in unread \ {c} : Before(c, d)
    /\ unread' = unread \ {c}
    /\ IF IsTautology(c)
       THEN UNCHANGED <<db, proof>>
       ELSE /\ db' = db \cup {UniversalReduce(g, c)}
            /\ proof' = AdmitReduct(g, Admit(proof, Axiom(c)), c)
    /\ UNCHANGED <<problem, g, todo, nforks, expired, pc, result>>

\* After the loop: the empty clause is there already, or _saturate is called.
Loaded ==
    /\ pc = "loading" /\ unread = {}
    /\ IF {} \in db
       THEN pc' = "returned" /\ result' = "UNSAT" /\ UNCHANGED todo
       ELSE /\ pc' = "saturating" /\ UNCHANGED result
            /\ todo' = IF db = {} THEN << >> ELSE <<db>>
    /\ UNCHANGED <<problem, unread, g, db, proof, nforks, expired>>

\* The one thing that happens to solve from outside.
DeadlinePasses ==
    /\ pc # "returned" /\ ~ expired
    /\ expired' = TRUE
    /\ UNCHANGED <<problem, unread, g, db, todo, proof, nforks, pc, result>>

InBudget == ~ expired /\ Cardinality(db) <= problem.maxClauses

\* The clauses that todo.pop() may return, and the stack without c.
Poppable ==
    LET top == Last(todo)
    IN  IF problem.anyOrder THEN top ELSE {c \in top : \A d \in top \ {c} : Before(c, d)}

Popped(c) ==
    IF Last(todo) = {c} THEN Front(todo) ELSE Append(Front(todo), Last(todo) \ {c})

\* The partners and pivots c resolves with, and what each pair gives.
Resolutions(c) == {x \in (db \ {c}) \X {Var(l) : l \in c} : Resolves(c, x[1], x[2])}

Product(c, x) == UniversalReduce(g, Resolvent(c, x[1], x[2]))

\* Mutant: "if rr in db: continue" is missing.
KnownClausesToo(c) == {Product(c, x) : x \in Resolutions(c)}

NewClauses(c) == {Product(c, x) : x \in Resolutions(c)} \ db

\* Admitting r, with the first pair that gives it.
Resolution(c, r) ==
    LET x == CHOOSE y \in Resolutions(c) : Product(c, y) = r
    IN  ProofStep(r, "res", <<Idx(proof, c), Idx(proof, x[1])>>, x[2], None, {}, None)

\* Clauses discarded by a fork and derived again are in idx already.  The order of
\* the others is arbitrary: any one will do, it is only seen in the proof.
AdmitResolvents(c, clauses) ==
    LET unseen == {r \in clauses : ~ HasIdx(proof, r)}
        order  == [i \in 1..Cardinality(unseen) |->
                      CHOOSE r \in unseen : Cardinality({d \in unseen \ {r} : Before(d, r)}) = i - 1]
    IN  proof \o [i \in DOMAIN order |-> Resolution(c, order[i])]

\* One pass of the while loop that does not derive the empty clause.
Saturate(c) ==
    /\ pc = "saturating" /\ todo # << >> /\ InBudget
    /\ c \in Poppable
    /\ LET new == NewClauses(c)
       IN  /\ {} \notin new
           /\ db' = db \cup new
           /\ todo' = IF new = {} THEN Popped(c) ELSE Append(Popped(c), new)
           /\ proof' = AdmitResolvents(c, new)
    /\ UNCHANGED <<problem, unread, g, nforks, expired, pc, result>>

\* The pass that does: it returns at once, with whatever it admitted before.
DeriveEmpty(c) ==
    /\ pc = "saturating" /\ todo # << >> /\ InBudget
    /\ c \in Poppable
    /\ {} \in NewClauses(c)
    /\ \E before \in (IF problem.anyOrder THEN SUBSET (NewClauses(c) \ {{}}) ELSE {{}}) :
          /\ db' = db \cup before \cup {{}}
          /\ proof' = Append(AdmitResolvents(c, before), Resolution(c, {}))
    /\ todo' = << >> /\ pc' = "returned" /\ result' = "UNSAT"
    /\ UNCHANGED <<problem, unread, g, nforks, expired>>

\* _saturate returns without the empty clause: nothing to do, or out of budget.
LeaveSaturate ==
    /\ pc = "saturating"
    /\ todo = << >> \/ ~ InBudget
    /\ todo' = << >> /\ pc' = "choosing"
    /\ UNCHANGED <<problem, unread, g, db, proof, nforks, expired, result>>

Return(r) == pc' = "returned" /\ result' = r

\* Mutant: the caller takes every return of _saturate for a saturated set.
AlwaysSaturated == TRUE

\* The same two conditions, read again after _saturate, whose loop they may have cut.
Saturated == InBudget

\* "budget exhausted".
OutOfBudget ==
    /\ pc = "choosing"
    /\ ~ Saturated
    /\ Return("UNKNOWN")
    /\ UNCHANGED <<problem, unread, g, db, todo, proof, nforks, expired>>

Forkable == {c \in db : ForkVars(g, c) # {}}

\* The left part of a fork on variable a, and the universal SFEx adds to both halves.
ForkPart(c, a) == {l \in c : Var(l) = a \/ Dep(g, Var(l)) \subseteq g.dependencies[a]}

ForkC3(c, part) ==
    LET inter == CommonDeps(g, c, part)
    IN  IF inter # {} /\ inter \in {ClauseDep(g, part), ClauseDep(g, c \ part)}
        THEN {Min(inter)} ELSE {}

ForkStep(c, part, c3, half) ==
    ProofStep(half, IF c3 = {} THEN "fex" ELSE "sfex", <<Idx(proof, c)>>, None, part, c3, Fresh(g))

Fork(c, a) ==
    /\ pc = "choosing" /\ Saturated
    /\ c \in Forkable /\ \A d \in Forkable \ {c} : Before(c, d)
    /\ a \in ForkVars(g, c)
    /\ LET part  == ForkPart(c, a)
           c3    == ForkC3(c, part)
           left  == LeftHalf(g, part, c3)
           right == RightHalf(g, c, part, c3)
           h     == ForkFormula(g, c, part, c3)
           forked == proof \o <<ForkStep(c, part, c3, left), ForkStep(c, part, c3, right)>>
           halves == {UniversalReduce(h, left), UniversalReduce(h, right)}
       IN  /\ g' = h
           /\ proof' = AdmitReduct(h, AdmitReduct(h, forked, left), right)
           /\ db' = (db \ {c}) \cup halves
    /\ nforks' = nforks + 1
    /\ IF nforks' >= problem.maxForks
       THEN Return("UNKNOWN") /\ todo' = << >>
       ELSE pc' = "saturating" /\ todo' = <<db'>> /\ UNCHANGED result
    /\ UNCHANGED <<problem, unread, expired>>

\* "saturated, no forks".
NothingToFork ==
    /\ pc = "choosing" /\ Saturated
    /\ Forkable = {}
    /\ Return("SAT")
    /\ UNCHANGED <<problem, unread, g, db, todo, proof, nforks, expired>>

SolveStep ==
    \/ \E c \in unread : LoadClause(c)
    \/ Loaded
    \/ \E c \in UNION Range(todo) : Saturate(c) \/ DeriveEmpty(c)
    \/ LeaveSaturate
    \/ OutOfBudget
    \/ \E c \in db : \E a \in ForkVars(g, c) : Fork(c, a)
    \/ NothingToFork

Next == SolveStep \/ DeadlinePasses

\* solve runs on one thread and keeps running; that the deadline passes is not assumed.
Spec == Init /\ [][Next]_searchVars /\ WF_searchVars(SolveStep)

-----------------------------------------------------------------------------
TypeOK ==
    /\ problem \in Problems
    /\ IsFormula(g) /\ g.universals = f.universals /\ g.clauses = f.clauses
    /\ \A c \in db \cup UNION Range(todo) : \A l \in c : IsDeclared(g, Var(l))
    /\ nforks = Cardinality(DOMAIN g.dependencies) - Cardinality(DOMAIN f.dependencies)
    /\ expired \in BOOLEAN
    /\ pc \in {"loading", "saturating", "choosing", "returned"}
    /\ result \in IF pc = "returned" THEN {"SAT", "UNSAT", "UNKNOWN"} ELSE {None}

\* idx[c], idx[d], idx[nc] in the code never raise KeyError: every clause that may
\* still be a premise has been admitted.
IdxComplete == \A c \in db \cup UNION Range(todo) : HasIdx(proof, c)

\* An UNSAT answer is right.
UnsatSound == result = "UNSAT" => ~ IsTrue(f)

\* A SAT answer is right, although a strong fork throws its parent clause away and
\* its two halves no longer imply it.
SatSound == result = "SAT" => IsTrue(f)

\* solve returns without the help of its deadline: finitely many clauses can be
\* made of the variables there are, and max_forks bounds the new ones.
Terminates == <>(pc = "returned")
=============================================================================
