--------------------------- MODULE FrustPipeline ----------------------------
(***************************************************************************)
(* provers/frust/src/main.rs and tools/verify: frust saves the proof of an *)
(* UNSAT answer, and the checker, which was written for the prover in      *)
(* Python, reads it once frust has returned.                               *)
(***************************************************************************)
EXTENDS FrustSearch

CONSTANT MaxProof  \* bound: the longest proof frust may write

VARIABLES
    checked,   \* the formula of the checker, with the fork variables it has accepted
    derived,   \* the clauses it has accepted
    forked,    \* the signatures of the forks
    verdict    \* "reading", "valid", "invalid"

checkVars == <<checked, derived, forked, verdict>>
vars == <<searchVars, checkVars>>

V == INSTANCE VerifyProof WITH
        f <- f, g <- checked, forks <- forked, Formulas <- {p.formula : p \in Problems},
        Steps <- {}, MaxSteps <- MaxProof

InitPipeline == Init /\ V!Init

Solve == SolveStep /\ UNCHANGED checkVars

Deadline == DeadlinePasses /\ UNCHANGED checkVars

Verify ==
    /\ file # None
    /\ UNCHANGED searchVars
    /\ IF Len(derived) < Len(file)
       THEN V!CheckStep(file[Len(derived) + 1])
       ELSE V!EndOfProof

PipelineNext == Solve \/ Deadline \/ Verify

PipelineSpec == InitPipeline /\ [][PipelineNext]_vars

-----------------------------------------------------------------------------
\* The shape of the database and of the loop over it.
TypeOK ==
    /\ IsFormula(g) /\ g.universals = f.universals /\ g.clauses = f.clauses
    /\ forks = Cardinality(DOMAIN g.dependencies) - Cardinality(DOMAIN f.dependencies)
    /\ \A c \in db.seen : \A l \in c : IsDeclared(g, Var(l))
    /\ \A c \in db.seen : HasIdx(db, c)
    /\ Range(db.clauses) \subseteq db.seen /\ IsInjective(db.clauses)
    /\ db.dead \cup db.processed \cup db.queue \subseteq DOMAIN db.clauses
    /\ given \in {0} \cup db.processed
    /\ pc \in {"loading", "slice", "saturating", "forking", "between", "returned"}
    /\ result \in IF pc = "returned" THEN {"SAT", "UNSAT", "UNKNOWN"} ELSE {None}

\* An UNSAT answer is right, whichever engine gave it.
UnsatSound == result = "UNSAT" => ~ Truth[f]

\* A SAT answer is right: by elimination alone, or because saturation has nothing
\* left to do after it was interrupted, forked and pruned.
SatSound == result = "SAT" => Truth[f]

\* The given-clause loop: whatever was interrupted, subsumed, forked or eliminated,
\* two clauses that are processed and live have been resolved on every variable, as
\* long as no slice tries so many partners that it is cut off among them and the
\* empty clause, after which nothing more is tried, has not been found.
NothingSkipped ==
    ~ problem.manyPartners /\ result # "UNSAT" =>
    \A i, j \in (db.processed \ db.dead) \ {given} :
        \A l \in db.clauses[i] :
            i # j /\ RsResolves(db.clauses[i], db.clauses[j], Var(l)) =>
                RsReduce(g, RsResolvent(db.clauses[i], db.clauses[j], Var(l))) \in db.seen

\* Every proof frust saves is accepted, although the checker reduces and resolves by
\* rules of its own, and although the proof was cut down and renumbered.
NeverRejected == verdict # "invalid"

Models == [h \in {p.formula : p \in Problems} |-> {sk \in SkolemTuples(h) : IsModel(h, sk)}]

\* What saturation hands to the expansion holds for every Skolem function of the
\* input: resolution, reduction, forks and their fresh variables exclude none.
FedIsImplied ==
    pc = "slice" =>
        \A sk \in Models[f] : \A a \in Rows(f) : \A c \in fed : EvalClause(f, sk, a, c)
=============================================================================
