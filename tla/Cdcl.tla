-------------------------------- MODULE Cdcl --------------------------------
(***************************************************************************)
(* experiments/cdcl_multi_learn/cdcl.py: conflict-driven clause learning   *)
(* with two watched literals, saved phases and Luby restarts, where a hook *)
(* chooses what is learned from a conflict.                                *)
(*                                                                         *)
(* The trail is a sequence of records: a literal, the index of the clause  *)
(* that implied it (0 for _reason None) and its level; _val, _level and    *)
(* _trail_lim are read off it.  Clauses are tuples, the first two literals *)
(* of which are watched; watch[l] lists the clauses that watch -l.  One    *)
(* step is one visit to a clause in _propagate, one conflict or one        *)
(* decision.                                                               *)
(*                                                                         *)
(* VSIDS is abstracted to the choice of any open variable, but before the  *)
(* first conflict, when all activities are 0 and the first open variable   *)
(* is taken.                                                               *)
(***************************************************************************)
EXTENDS ConflictCone

(***************************************************************************)
(* An instance is a formula (n, cls), a hook and the budget of conflicts,  *)
(* 0 for none.  RestartUnit stands for the 32 conflicts of a Luby unit.    *)
(***************************************************************************)
CONSTANTS Instances, RestartUnit

ASSUME RestartAssumption == RestartUnit \in Nat \ {0}

\* The clauses of a formula are over its variables; the hooks are the ones there are.
Literals(n) == {l \in -n .. n : l # 0}
Hooks == [kind : {"none"}] \union [kind : {"multi"}, k : Nat]
           \union [kind : {"ext"}, structured : BOOLEAN, min_pair_freq : Nat \ {0}]
           \union [kind : {"xor"}, offline : BOOLEAN]

ASSUME InstancesAssumption ==
    Instances \subseteq [n : Nat, cls : Seq(SUBSET Int), hook : Hooks, budget : Nat]
      /\ \A x \in Instances : \A i \in DOMAIN x.cls : x.cls[i] \subseteq Literals(x.n)

VARIABLES inst, db, watch, trail, qhead, at, confl, phase, hook,
          conflicts, since, restarts, answer

vars == <<inst, db, watch, trail, qhead, at, confl, phase, hook,
          conflicts, since, restarts, answer>>

Running == "running"
NoConflict == 0
Decision == 0               \* no reason
NoDecision == 0

----------------------------------------------------------------------------
\* Clauses and the trail.
WatchList(w, l) == IF l \in DOMAIN w THEN w[l] ELSE <<>>
Watch(w, l, i) ==
    [m \in DOMAIN w \union {l} |-> IF m = l THEN Append(WatchList(w, l), i) ELSE w[m]]

\* The clauses at the places I that watch -l, and the literals that wake them.
Watching(clauses, I, l) == {i \in I : -l \in {clauses[i][1], clauses[i][2]}}
Wakers(clauses, I) == UNION {{-clauses[i][1], -clauses[i][2]} : i \in I}

\* _add_to_db, for the clauses at the places I, one after the other.
AddToDb(w, clauses, I) ==
    [l \in DOMAIN w \union Wakers(clauses, I) |-> WatchList(w, l) \o Ascending(Watching(clauses, I, l))]

Lits(tr) == {tr[i].lit : i \in DOMAIN tr}
Value(tr, l) == IF l \in Lits(tr) THEN 1 ELSE IF -l \in Lits(tr) THEN -1 ELSE 0
LevelOf(tr, l) == (CHOOSE r \in Range(tr) : Var(r.lit) = Var(l)).level
ReasonOf(tr, l) == (CHOOSE r \in Range(tr) : Var(r.lit) = Var(l)).why
CurLevel(tr) == IF tr = <<>> THEN 0 ELSE tr[Len(tr)].level

Enqueue(tr, l, why, level) ==
    IF Value(tr, l) # 0 THEN tr ELSE Append(tr, [lit |-> l, why |-> why, level |-> level])

\* ... for one literal after the other, without a reason.
EnqueueUnits(tr, lits, level) ==
    LET open == {i \in DOMAIN lits : /\ Value(tr, lits[i]) = 0
                                     /\ \A j \in 1 .. i - 1 : Var(lits[j]) # Var(lits[i])}
    IN  tr \o [k \in 1 .. Cardinality(open) |->
                  [lit |-> Select(lits, open)[k], why |-> Decision, level |-> level]]

\* The levels on the trail are in order.
Backtrack(tr, level) == SubSeq(tr, 1, Cardinality({i \in DOMAIN tr : tr[i].level <= level}))
SavedPhase(ph, tr, kept) ==
    [v \in DOMAIN ph |-> IF v \in Lits(tr) \ Lits(kept) THEN 1
                         ELSE IF -v \in Lits(tr) \ Lits(kept) THEN -1 ELSE ph[v]]

----------------------------------------------------------------------------
\* add_clause, for the clauses of the instance: tautologies are dropped, units
\* go to the trail.
Proper(c) == c \intersect Neg(c) = {}
Long(cls) == Select(cls, {i \in DOMAIN cls : Proper(cls[i]) /\ Cardinality(cls[i]) > 1})
Units(cls) == Select(cls, {i \in DOMAIN cls : Cardinality(cls[i]) = 1})
Trivial(cls) == {} \in Range(cls) \/ \E c, d \in Range(Units(cls)) : c = Neg(d)

Init ==
    /\ inst \in Instances
    /\ db = LET long == Long(inst.cls) IN [i \in DOMAIN long |-> Tuple(long[i])]
    /\ watch = AddToDb(<<>>, db, DOMAIN db)
    /\ trail = LET units == Units(inst.cls)
               IN  EnqueueUnits(<<>>, [i \in DOMAIN units |-> Tuple(units[i])[1]], 0)
    /\ qhead = 0 /\ at = 0 /\ confl = NoConflict
    /\ phase = [v \in 1 .. inst.n |-> -1]
    /\ hook = [pairs |-> {}, gates |-> <<>>, next |-> inst.n + 1]
    /\ conflicts = 0 /\ since = 0 /\ restarts = 0
    /\ answer = IF Trivial(inst.cls) THEN "unsat" ELSE Running

----------------------------------------------------------------------------
\* _propagate.  The literal at hand is the last one taken off the queue, `at'
\* is the place in its watch list, 0 when there is no literal at hand.
Literal == trail[qhead].lit
Watched == WatchList(watch, Literal)
Busy == at > 0 /\ at <= Len(Watched)
Drained == ~Busy /\ qhead = Len(trail)
Propagating == answer = Running /\ confl = NoConflict

NextLiteral ==
    /\ Propagating
    /\ ~Busy /\ qhead < Len(trail)
    /\ qhead' = qhead + 1
    /\ at' = 1
    /\ UNCHANGED <<inst, db, watch, trail, confl, phase, hook, conflicts, since, restarts, answer>>

\* The watch at position a of clause i is false; it moves to position j.
Swap(c, a, j) == [c EXCEPT ![a] = c[j], ![j] = c[a]]

\* Mutant: the last watch is dropped, but is not put where the hole is.
WithoutLast(s, k) == SubSeq(s, 1, Len(s) - 1)
Without(s, k) == SubSeq([s EXCEPT ![k] = s[Len(s)]], 1, Len(s) - 1)

\* Mutant: the clause stays in the old list.
MoveWatchKept(i, a, j) ==
    LET c == Swap(db[i], a, j)
    IN  db' = [db EXCEPT ![i] = c] /\ watch' = Watch(watch, -c[a], i)

MoveWatch(i, a, j) ==
    LET c == Swap(db[i], a, j)
    IN  /\ db' = [db EXCEPT ![i] = c]
        /\ watch' = Watch([watch EXCEPT ![Literal] = Without(@, at)], -c[a], i)

\* Mutant: the place in the list is not moved on.
SamePlace == at
NextPlace == at + 1

Visit ==
    /\ Propagating
    /\ Busy
    /\ LET i == Watched[at]
           c == db[i]
           a == IF c[1] = -Literal THEN 1 ELSE 2
           b == c[3 - a]
           open == {j \in 3 .. Len(c) : Value(trail, c[j]) >= 0}
       IN  \/ /\ Value(trail, b) > 0
              /\ at' = NextPlace
              /\ UNCHANGED <<db, watch, trail, confl>>
           \/ /\ Value(trail, b) <= 0 /\ open # {}
              /\ MoveWatch(i, a, Min(open))
              /\ UNCHANGED <<at, trail, confl>>
           \/ /\ Value(trail, b) = 0 /\ open = {}
              /\ trail' = Enqueue(trail, b, i, CurLevel(trail))
              /\ at' = NextPlace
              /\ UNCHANGED <<db, watch, confl>>
           \/ /\ Value(trail, b) < 0 /\ open = {}
              /\ confl' = i
              /\ UNCHANGED <<db, watch, trail, at>>
    /\ UNCHANGED <<inst, qhead, phase, hook, conflicts, since, restarts, answer>>

----------------------------------------------------------------------------
\* _extract_cone: the literals of the current level that the conflict depends on.
AtLevel(S, level) == {t \in S : LevelOf(trail, t) = level}
Others(t) == IF ReasonOf(trail, t) = Decision THEN {} ELSE Range(db[ReasonOf(trail, t)]) \ {t}

\* All that S depends on.
Sources(S, level) ==
    LET close[T \in SUBSET Lits(trail)] ==
            LET more == T \union UNION {AtLevel(Neg(Others(t)), level) : t \in T}
            IN  IF more = T THEN T ELSE close[more]
    IN  close[S]

Cone ==
    LET level == CurLevel(trail)
        conflict == Range(db[confl])
        seeds == AtLevel(Neg(conflict), level)
        current == Sources(seeds, level)
        implied == {t \in current : ReasonOf(trail, t) # Decision}
        below == Neg(conflict \union UNION {Others(t) : t \in implied}) \ current
    IN  [conflict  |-> conflict,
         reasons   |-> [t \in implied |-> Range(db[ReasonOf(trail, t)])],
         decision  |-> IF current = implied THEN NoDecision ELSE CHOOSE t \in current \ implied : TRUE,
         seeds     |-> seeds,
         frontier  |-> below \ AtLevel(below, 0),
         roots     |-> AtLevel(below, 0),
         order     |-> SelectSeq([i \in DOMAIN trail |-> trail[i].lit], LAMBDA l : l \in current)]

\* _analyze_1uip: back along the trail until one literal of the level is left.
Meet(s, lits, level) ==
    [open    |-> s.open \union AtLevel(Neg(lits), level),
     learned |-> s.learned \union {l \in lits : LevelOf(trail, l) \in 1 .. level - 1}]

ResolveOn(s, t, level) ==
    IF t \notin s.open \/ Cardinality(s.open) = 1 THEN s
    ELSE Meet([s EXCEPT !.open = @ \ {t}], Others(t), level)

WalkBack(level) ==
    LET back[i \in 0 .. Len(trail)] ==
            IF i = 0 THEN Meet([open |-> {}, learned |-> {}], Range(db[confl]), level)
            ELSE ResolveOn(back[i-1], trail[Len(trail) - i + 1].lit, level)
    IN  back

Analyze ==
    LET end == WalkBack(CurLevel(trail))[Len(trail)]
    IN  [clause |-> end.learned \union Neg(end.open),
         level  |-> Max({0} \union {LevelOf(trail, l) : l \in end.learned})]

\* The results that the hook may return.
Hooked(cone, uip) ==
    LET xors == InputXors(Range(inst.cls))
    IN  CASE inst.hook.kind = "none"  -> {[learn |-> <<Tuple(uip)>>, hook |-> hook]}
          [] inst.hook.kind = "multi" -> MultiLearn(inst.hook.k, hook, cone, uip)
          [] inst.hook.kind = "ext"   -> ExtLearn(inst.hook, hook, cone, uip)
          [] inst.hook.kind = "xor"   -> XorLearn(inst.hook.offline, xors, hook, cone, uip)

\* What is unit among the clauses just added goes to the trail, in rounds over
\* these clauses until a round finds nothing.

\* Mutant: one literal is open, whether or not another one is true.
IsUnitAnyway(tr, c) == Cardinality({l \in Range(c) : Value(tr, l) = 0}) = 1

IsUnit(tr, c) ==
    /\ \A l \in Range(c) : Value(tr, l) <= 0
    /\ Cardinality({l \in Range(c) : Value(tr, l) = 0}) = 1

Ready(tr, clauses, added) == {i \in added : IsUnit(tr, clauses[i])}

Fire(s, clauses, added, level) ==
    LET ready == Ready(s.trail, clauses, added)
        later == {i \in ready : i > s.last}
        i == Min(IF later # {} THEN later ELSE ready)
        l == CHOOSE m \in Range(clauses[i]) : Value(s.trail, m) = 0
    IN  IF ready = {} THEN s ELSE [trail |-> Enqueue(s.trail, l, i, level), last |-> i]

Rounds(tr, clauses, added, level) ==
    LET fired[k \in 0 .. Cardinality(added)] ==
            IF k = 0 THEN [trail |-> tr, last |-> 0] ELSE Fire(fired[k-1], clauses, added, level)
    IN  fired

Settle(tr, clauses, added, level) == Rounds(tr, clauses, added, level)[Cardinality(added)].trail

\* The Luby sequence: 1, 1, 2, 1, 1, 2, 4, ...
Luby(x) ==
    LET luby[y \in 0 .. x] ==
            LET k == CHOOSE j \in 0 .. y : 2^(j + 1) > y + 1 /\ 2^j <= y + 1
            IN  IF 2^(k + 1) - 2 = y THEN 2^k ELSE luby[y % (2^k - 1)]
    IN  luby[x]

----------------------------------------------------------------------------
\* solve.
Conflict == answer = Running /\ confl # NoConflict

\* A conflict without decisions; the first propagation does not count it.
GiveUp ==
    /\ Conflict
    /\ inst.budget # 0 /\ conflicts + 1 >= inst.budget
    /\ CurLevel(trail) > 0 \/ conflicts > 0
    /\ answer' = "none"
    /\ conflicts' = conflicts + 1
    /\ UNCHANGED <<inst, db, watch, trail, qhead, at, confl, phase, hook, since, restarts>>

Refute ==
    /\ Conflict
    /\ CurLevel(trail) = 0
    /\ inst.budget = 0 \/ conflicts + 1 < inst.budget \/ conflicts = 0
    /\ answer' = "unsat"
    /\ UNCHANGED <<inst, db, watch, trail, qhead, at, confl, phase, hook, conflicts, since, restarts>>

Analyzed ==
    /\ Conflict
    /\ CurLevel(trail) > 0
    /\ inst.budget = 0 \/ conflicts + 1 < inst.budget

\* The assertion at the end of _extract_cone.
Abort ==
    /\ Analyzed
    /\ Cone.decision = NoDecision
    /\ answer' = "assertion"
    /\ UNCHANGED <<inst, db, watch, trail, qhead, at, confl, phase, hook, conflicts, since, restarts>>

\* The hook, the jump back, the new clauses and the restart that may be due.
Learn ==
    /\ Analyzed
    /\ Cone.decision # NoDecision
    /\ \E r \in Hooked(Cone, Analyze.clause) :
         LET level == Analyze.level
             kept == Backtrack(trail, level)
             units == Select(r.learn, {i \in DOMAIN r.learn : Len(r.learn[i]) = 1})
             clauses == db \o Select(r.learn, {i \in DOMAIN r.learn : Len(r.learn[i]) > 1})
             added == Len(db) + 1 .. Len(clauses)
             asserted == EnqueueUnits(kept, [i \in DOMAIN units |-> units[i][1]], level)
             settled == Settle(asserted, clauses, added, level)
             due == since + 1 >= Luby(restarts) * RestartUnit
             tr == IF due THEN Backtrack(settled, 0) ELSE settled
         IN  /\ hook' = r.hook
             /\ db' = clauses /\ watch' = AddToDb(watch, clauses, added)
             /\ trail' = tr
             /\ qhead' = Min({qhead, Len(kept), Len(tr)})
             /\ phase' = SavedPhase(SavedPhase(phase, trail, kept), settled, tr)
             /\ since' = IF due THEN 0 ELSE since + 1
             /\ restarts' = IF due THEN restarts + 1 ELSE restarts
    /\ conflicts' = conflicts + 1
    /\ confl' = NoConflict
    /\ at' = 0
    /\ UNCHANGED <<inst, answer>>

\* _pick_branch and the decision.
Open == {v \in 1 .. inst.n : Value(trail, v) = 0}

Decide ==
    /\ Propagating /\ Drained
    /\ \E v \in Open :
         /\ conflicts = 0 => v = Min(Open)
         /\ trail' = Enqueue(trail, v * phase[v], Decision, CurLevel(trail) + 1)
    /\ UNCHANGED <<inst, db, watch, qhead, at, confl, phase, hook, conflicts, since, restarts, answer>>

Satisfy ==
    /\ Propagating /\ Drained
    /\ Open = {}
    /\ answer' = "sat"
    /\ UNCHANGED <<inst, db, watch, trail, qhead, at, confl, phase, hook, conflicts, since, restarts>>

Answered == answer # Running /\ UNCHANGED vars

Next == NextLiteral \/ Visit \/ GiveUp \/ Refute \/ Abort \/ Learn \/ Decide \/ Satisfy \/ Answered

\* solve runs until it has an answer: weak fairness of every action.  That of
\* Learn and Abort is written without ENABLED: the two are what a conflict that
\* is analyzed can end in, and the analysis does end.
Spec == Init /\ [][Next]_vars
FairSpec ==
    /\ Spec
    /\ WF_vars(NextLiteral \/ Visit \/ GiveUp \/ Refute \/ Decide \/ Satisfy)
    /\ []<>~Analyzed

----------------------------------------------------------------------------
Answers == {Running, "sat", "unsat", "none", "assertion"}

\* A clause is in the lists of its first two literals, once each, and in no
\* other list; the trail is consistent and its levels are in order.
TypeOK ==
    /\ inst \in Instances
    /\ answer \in Answers
    /\ confl \in 0 .. Len(db)
    /\ qhead \in 0 .. Len(trail)
    /\ \A l \in DOMAIN watch :
          /\ IsInjective(watch[l])
          /\ Range(watch[l]) = Watching(db, DOMAIN db, l)
    /\ \A i \in DOMAIN db : Len(db[i]) > 1 /\ Wakers(db, {i}) \subseteq DOMAIN watch
    /\ \A i, j \in DOMAIN trail :
          i < j => trail[i].level <= trail[j].level /\ Var(trail[i].lit) # Var(trail[j].lit)

\* A literal on the trail is a decision, the first of its level, or the last
\* literal of its reason to be decided: all others are false and came before.
\* At level 0 nothing is a decision, but units have no reason.
TrailJustified ==
    \A i \in DOMAIN trail :
       LET r == trail[i]
           before == Lits(SubSeq(trail, 1, i - 1))
       IN  IF r.why # Decision
           THEN r.lit \in Range(db[r.why]) /\ Neg(Range(db[r.why]) \ {r.lit}) \subseteq before
           ELSE r.level = 0 \/ (i = 1 \/ trail[i-1].level = r.level - 1)

\* Two watched literals are enough: when the queue is empty, every clause of
\* the input is true or has two open literals, whatever the jumps back did.
NothingMissed ==
    Propagating /\ Drained =>
       \A i \in 1 .. Len(Long(inst.cls)) :
          \/ \E l \in Range(db[i]) : Value(trail, l) > 0
          \/ Cardinality({l \in Range(db[i]) : Value(trail, l) = 0}) > 1

\* The answers are right, and what was learned excludes no model: each model of the
\* formula extends to one of all clauses, with the new variables.
Learned == {Range(c) : c \in Range(db)} \union {{r.lit} : r \in {q \in Range(trail) : q.level = 0}}
AnswersRight ==
    answer # Running =>
       LET models == Models(inst.n, Range(inst.cls))
       IN  /\ answer = "sat" => Lits(trail) \intersect 1 .. inst.n \in models
           /\ answer = "unsat" => models = {}
           /\ Trivial(inst.cls) \/ models = {M \intersect 1 .. inst.n : M \in Models(hook.next - 1, Learned)}

\* The sweep of all_uip_cuts and _analyze_1uip agree, the last UIP is the
\* decision, and each is on the longest chain; without sharing, all of the cone
\* is that chain.  In a cone of at most MaxConeVars variables every UIP is a
\* cut; every cut is violated by the trail and contains a strongest clause that
\* follows from the cone, and the merging of minterms finds just these.  The assertion
\* in _extract_cone fails under XorLearn only.
MaxConeVars == 7
CutsExact ==
    /\ answer = "assertion" => inst.hook.kind = "xor"
    /\ Analyzed /\ Cone.decision # NoDecision =>
       LET cone == Cone
           uips == UipCuts(cone)
           cuts == Cuts(cone)
           sat == Satisfying(Kernel(cone))
           false == Neg(cone.frontier \union Current(cone))
           Follows(c) == \A A \in sat : \E l \in c : Holds(l, A)
           strongest == FilterSubsumed({c \in SUBSET false : Follows(c)})
           rooted == \A t \in DOMAIN cone.reasons : Antecedents(cone, t) # {}
       IN  /\ uips[1].clause = Analyze.clause
           /\ uips[Len(uips)].uip = cone.decision
           /\ Len(uips) <= Depth(cone)
           /\ rooted /\ Sharing(cone) = 0 => Depth(cone) = Cardinality(Current(cone))
           /\ Width(cone) = 1 => Len(uips) = Cardinality(Current(cone))
           /\ Cardinality(Vars(Kernel(cone))) <= MaxConeVars =>
                 /\ \A i \in DOMAIN uips : uips[i].clause \in cuts
                 /\ PrimeImplicates(cone) = strongest
                 /\ \A c \in cuts : c \subseteq false /\ \E p \in strongest : p \subseteq c

\* The search ends.
Terminates == <>(answer # Running)
=============================================================================
