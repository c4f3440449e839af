----------------------------- MODULE VerifyProof ----------------------------
(***************************************************************************)
(* tools/verify/unsat.py: the self-contained checker of .frp refutations.  *)
(*                                                                         *)
(* verify_proof reads the steps of a proof in order.  Nothing is assumed   *)
(* of the file: the next step is any member of Steps, and the file may end *)
(* after any of them.  The checker keeps the formula g with the fork       *)
(* variables introduced so far, the derived clauses (premises are indices  *)
(* into them, from 0) and, per fork variable, the signature of the fork    *)
(* that introduced it.  It answers False at the first step it cannot       *)
(* justify; at the end it answers whether the empty clause was derived.    *)
(***************************************************************************)
EXTENDS Dqbf, Sequences

CONSTANTS
    Formulas,  \* the formulas a proof may be checked against
    Steps,     \* the steps a proof file may hold
    None,      \* Python's None, in an optional field of a step
    MaxSteps   \* bound: the longest proof file considered

\* The parser of tools/verify/formats.py checks no more than this: in particular
\* a clause may hold a variable that no line of the prefix declares.
ASSUME FormulasAssumption ==
    \A h \in Formulas : PrefixOK(h) /\ h.clauses \subseteq SUBSET Int

\* A step as json.loads returns it.  A missing c3 is the empty set ("s.c3 or ()").
ASSUME StepsAssumption ==
    \A s \in Steps :
        /\ s.clause \subseteq Int
        /\ s.premises \in Seq(Int)
        /\ s.pivot # None => s.pivot \in Int
        /\ s.part # None => s.part \subseteq Int
        /\ s.c3 \subseteq Int
        /\ s.fresh # None => s.fresh \in Int

ASSUME MaxStepsAssumption == MaxSteps \in Nat

VARIABLES
    f,        \* the formula, as parsed
    g,        \* f with the fork variables added
    derived,  \* the clauses accepted so far
    forks,    \* fork variable -> signature of the fork that made it
    verdict   \* "reading", or what verify_proof returned: "valid", "invalid"

vars == <<f, g, derived, forks, verdict>>

\* Mutant: premises counted from one.
HasPremiseFromOne(i) == 0 < i /\ i < Len(derived)

HasPremise(i) == 0 <= i /\ i < Len(derived)

Premise(i) == derived[i + 1]

\* Mutant: the dependencies of the literals that stay are not looked at.
IsUReductionNoDeps(h, src, dst) ==
    dst \subseteq src /\ \A l \in src \ dst : IsUniversal(h, Var(l)) /\ -l \notin src

\* _is_ureduction: dst is src without universal literals that nothing left in
\* dst depends on, and whose negation is not in src.
IsUReduction(h, src, dst) ==
    /\ dst \subseteq src
    /\ \A l \in src \ dst :
          /\ IsUniversal(h, Var(l))
          /\ Var(l) \notin ExDeps(h, dst)
          /\ -l \notin src

AxiomOK(s) == s.rule = "axiom" /\ s.clause \in g.clauses

ResOK(s) ==
    /\ s.rule = "res"
    /\ Len(s.premises) = 2 /\ s.pivot # None
    /\ HasPremise(s.premises[1]) /\ HasPremise(s.premises[2])
    /\ LET a == Premise(s.premises[1])
           b == Premise(s.premises[2])
           p == Var(s.pivot)
       IN  Resolves(a, b, p) /\ IsUReduction(g, Resolvent(a, b, p), s.clause)

UredOK(s) ==
    /\ s.rule = "ured"
    /\ Len(s.premises) = 1
    /\ HasPremise(s.premises[1])
    /\ IsUReduction(g, Premise(s.premises[1]), s.clause)

\* The part of a fork step that both of its clauses are checked for.
Left(s) == s.c3 \cup s.part \cup {s.fresh}
Right(s) == s.c3 \cup (Premise(s.premises[1]) \ s.part) \cup {-s.fresh}

ForkShapeOK(s) ==
    /\ s.rule \in {"fex", "sfex"}
    /\ Len(s.premises) = 1 /\ s.part # None /\ s.fresh # None
    /\ HasPremise(s.premises[1])
    /\ s.part \subseteq Premise(s.premises[1])
    /\ s.rule = "sfex" => \A l \in s.c3 : IsUniversal(g, Var(l))
    /\ s.clause \in {Left(s), Right(s)}

Signature(s) == [premise |-> s.premises[1], part |-> s.part, c3 |-> s.c3, rule |-> s.rule]

\* Mutant: any fork may reuse a fork variable.
ForkAgainNoSignature(s) == ForkShapeOK(s) /\ s.fresh \in DOMAIN forks

\* The second clause of a fork must repeat the signature of the first ...
ForkAgainOK(s) ==
    /\ ForkShapeOK(s)
    /\ s.fresh \in DOMAIN forks
    /\ forks[s.fresh] = Signature(s)

\* Mutants: one half of the freshness test.
IsFreshNotExistential(x) == ~ IsExistential(g, x)
IsFreshNotUniversal(x) == x \notin DOMAIN forks /\ ~ IsUniversal(g, x)

\* ... and the first must name a variable that is new.
IsFresh(x) ==
    /\ x > f.n_vars
    /\ ~ IsExistential(g, x)
    /\ ~ IsUniversal(g, x)

ForkNewOK(s) ==
    /\ ForkShapeOK(s)
    /\ s.fresh \notin DOMAIN forks
    /\ IsFresh(s.fresh)

ForkDeps(s) ==
    LET c1 == s.part
        c2 == Premise(s.premises[1]) \ s.part
    IN  (ClauseDep(g, c1) \cap ClauseDep(g, c2))
           \ (IF s.rule = "sfex" THEN {Var(l) : l \in s.c3} ELSE {})

-----------------------------------------------------------------------------
Init ==
    /\ f \in Formulas
    /\ g = f
    /\ derived = << >>
    /\ forks = << >>
    /\ verdict = "reading"

Reading == verdict = "reading" /\ Len(derived) < MaxSteps

Derive(s) == derived' = Append(derived, s.clause) /\ UNCHANGED <<f, verdict>>

CheckAxiom(s) == Reading /\ AxiomOK(s) /\ Derive(s) /\ UNCHANGED <<g, forks>>

CheckRes(s) == Reading /\ ResOK(s) /\ Derive(s) /\ UNCHANGED <<g, forks>>

CheckUred(s) == Reading /\ UredOK(s) /\ Derive(s) /\ UNCHANGED <<g, forks>>

CheckForkAgain(s) == Reading /\ ForkAgainOK(s) /\ Derive(s) /\ UNCHANGED <<g, forks>>

CheckForkNew(s) ==
    /\ Reading
    /\ ForkNewOK(s)
    /\ g' = AddExistential(g, s.fresh, ForkDeps(s))
    /\ forks' = [x \in DOMAIN forks \cup {s.fresh} |->
                    IF x = s.fresh THEN Signature(s) ELSE forks[x]]
    /\ Derive(s)

StepOK(s) == AxiomOK(s) \/ ResOK(s) \/ UredOK(s) \/ ForkAgainOK(s) \/ ForkNewOK(s)

\* return False: a step that no rule justifies.
RejectStep(s) ==
    /\ Reading
    /\ ~ StepOK(s)
    /\ verdict' = "invalid"
    /\ UNCHANGED <<f, g, derived, forks>>

\* return frozenset() in derived: the file has no more steps.
EndOfProof ==
    /\ verdict = "reading"
    /\ verdict' = IF \E i \in 1..Len(derived) : derived[i] = {} THEN "valid" ELSE "invalid"
    /\ UNCHANGED <<f, g, derived, forks>>

CheckStep(s) ==
    \/ CheckAxiom(s)
    \/ CheckRes(s)
    \/ CheckUred(s)
    \/ CheckForkAgain(s)
    \/ CheckForkNew(s)
    \/ RejectStep(s)

Next ==
    \/ \E s \in Steps : CheckStep(s)
    \/ EndOfProof

Spec == Init /\ [][Next]_vars

-----------------------------------------------------------------------------
TypeOK ==
    /\ f \in Formulas
    /\ PrefixOK(g)
    /\ g.universals = f.universals /\ g.clauses = f.clauses
    /\ derived \in Seq(SUBSET Int)
    /\ DOMAIN forks \subseteq DOMAIN g.dependencies
    /\ \A x \in DOMAIN forks :
          /\ forks[x].premise \in Int /\ HasPremise(forks[x].premise)
          /\ forks[x].part \subseteq Int /\ forks[x].c3 \subseteq Int
    /\ verdict \in {"reading", "valid", "invalid"}

\* Both clauses of every fork made so far, whether or not the file listed both.
ForkClauses ==
    UNION {{forks[x].c3 \cup forks[x].part \cup {x},
            forks[x].c3 \cup (Premise(forks[x].premise) \ forks[x].part) \cup {-x}} :
              x \in DOMAIN forks}

\* What has been derived is a conservative extension of the formula: if f is
\* true then g, with f's matrix and every derived clause, is true as well.  Here
\* every rule, the freshness test and the signature test meet.
Conservative ==
    IsTrue(f) =>
        IsTrue(WithClauses(g, f.clauses \cup {derived[i] : i \in 1..Len(derived)} \cup ForkClauses))

\* The point of the checker: a refutation it calls valid refutes a false formula.
ValidIsUnsat == verdict = "valid" => ~ IsTrue(f)

\* A quantified variable never changes its dependencies, so no clause derived
\* earlier changes its meaning when a later step introduces a variable.
PrefixOnlyGrows ==
    [][\A y \in DOMAIN g.dependencies :
          y \in DOMAIN g'.dependencies /\ g'.dependencies[y] = g.dependencies[y]]_vars
=============================================================================
