---------------------------- MODULE FrpPipeline -----------------------------
(***************************************************************************)
(* The path a refutation takes: provers/forkres/cli.py runs solve and      *)
(* saves the proof of an UNSAT answer, and tools/verify checks that file   *)
(* against the formula.  The two share no code but the format: the state   *)
(* of the checker is a second component, which reads the proof once the    *)
(* prover has returned.                                                    *)
(***************************************************************************)
EXTENDS ForkresSearch

CONSTANT MaxProof  \* bound: the longest proof the prover may write

VARIABLES
    checked,   \* the formula of the checker, with the fork variables it has accepted
    derived,   \* the clauses it has accepted
    forks,     \* the signatures of the forks
    verdict    \* "reading", "valid", "invalid"

checkVars == <<checked, derived, forks, verdict>>
vars == <<searchVars, checkVars>>

\* The steps of the file are those of proof; MaxProof stands for its end.
V == INSTANCE VerifyProof WITH
        f <- f, g <- checked, Formulas <- {p.formula : p \in Problems},
        Steps <- {}, MaxSteps <- MaxProof

InitPipeline == Init /\ V!Init

\* One step of the prover.
Solve == SolveStep /\ UNCHANGED checkVars

Deadline == DeadlinePasses /\ UNCHANGED checkVars

FileSaved == result = "UNSAT"

\* One step of the checker: the next step of the file, or the end of the file.
Verify ==
    /\ FileSaved
    /\ UNCHANGED searchVars
    /\ IF Len(derived) < Len(proof)
       THEN V!CheckStep(proof[Len(derived) + 1])
       ELSE V!EndOfProof

PipelineNext == Solve \/ Deadline \/ Verify

\* Both programs run to their end once started.
PipelineSpec ==
    /\ InitPipeline /\ [][PipelineNext]_vars
    /\ WF_vars(Solve) /\ WF_vars(Verify)

-----------------------------------------------------------------------------
\* The checker accepts every step the prover emits: the prover computes exactly
\* the dependencies, the reductions and the fork clauses the checker recomputes.
NeverRejected == verdict # "invalid"

\* Every UNSAT answer ends as a verified refutation.
UnsatIsVerified == result = "UNSAT" ~> verdict = "valid"
=============================================================================
