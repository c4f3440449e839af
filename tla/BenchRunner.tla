----------------------------- MODULE BenchRunner -----------------------------
(***************************************************************************)
(* benchmarks/runner/multi.py and cache.py: run every solver on every      *)
(* instance, in parallel worker processes, and keep the answers in a cache *)
(* that survives from one run of the benchmark to the next.                *)
(*                                                                         *)
(* What a solver answers is left open.  An answer is the record of what it *)
(* was computed from: the code of the solver, the contents of the file it  *)
(* read, the time limit.  Two answers are equal when these are.            *)
(***************************************************************************)
EXTENDS Naturals, FiniteSets

CONSTANTS
    Setups,    \* what a sequence of benchmark runs may look like
    Contents,  \* what an instance file may contain
    Versions,  \* of the code of a solver, and of tools/verify
    None,      \* "n/a", no source, no certificate
    Error      \* "error", without running the solver

\* The solvers are those of setup.program, the program each one runs, and
\* setup.format, its input_format; setup.python holds the programs started as
\* "python -m package".  The instances are those of setup.source: the source file
\* that the aag and tlsf solvers read, None when the manifest says there is none.
\* For those of setup.inverted the source asks the negated question.  A sequence of
\* at most setup.runs runs uses setup.jobs workers, the time limits setup.timeouts
\* and the --verify-certs flags setup.verify; between runs setup.changes may
\* change, and setup.crash says whether a run may be killed.  With setup.distinct no
\* two instances have the same contents at first.  setup.stem is the family and the
\* stem of an instance, under which its certificates are written; setup.refused are the
\* instances of a family in whose name a character is that the runner refuses.
ASSUME SetupsAssumption ==
    \A s \in Setups :
        /\ \A sv \in DOMAIN s.format : s.format[sv] \in {"dqdimacs", "aag", "tlsf"}
        /\ DOMAIN s.program = DOMAIN s.format
        /\ DOMAIN s.stem = DOMAIN s.source /\ s.refused \subseteq DOMAIN s.source
        /\ s.inverted \subseteq DOMAIN s.source
        /\ s.jobs \in Nat \ {0} /\ s.runs \in Nat
        /\ s.verify \subseteq BOOLEAN /\ s.crash \in BOOLEAN /\ s.distinct \in BOOLEAN
        /\ s.changes \subseteq {"program", "instance", "verifier"}
        /\ IsFiniteSet(DOMAIN s.format) /\ IsFiniteSet(DOMAIN s.source)

ASSUME VersionsAssumption == Versions # {}

VARIABLES
    setup,
    \* the world: files, installed code, the cache and certificate directories
    content,    \* instance -> contents of its file
    version,    \* program -> version of its code
    verifierV,  \* _VERIFIER_V
    cache,      \* CACHE_DIR: key -> row
    aig,        \* <<solver, source>> -> the converted file: "absent", "partial", "full"
    certs,      \* <<solver, stem>> -> the answer the certificate file is for, or None
    \* the benchmark that is running
    running, timeout, verify,
    useCache,   \* not --no-cache
    jobs,       \* <<solver, instance>> -> the job, for those not collected
    rows,       \* the report so far, a set of rows
    nruns

world == <<content, version, verifierV, cache, aig, certs>>
options == <<timeout, verify, useCache>>
vars == <<setup, world, running, options, jobs, rows, nruns>>

Solvers == DOMAIN setup.format
Instances == DOMAIN setup.source
Pairs == Solvers \X Instances
Programs == {setup.program[sv] : sv \in Solvers}

\* The certificate file of a job: certdir, solver, family, stem.
CertFile(p) == <<p[1], setup.stem[p[2]]>>

-----------------------------------------------------------------------------
\* Mutant: the contents of the instance are left out.
KeyOfPath(sv, it) ==
    [program |-> setup.program[sv],
     code |-> IF setup.program[sv] \in setup.python THEN None ELSE version[setup.program[sv]],
     instance |-> it, timeout |-> timeout]

\* key(solver_hash, instance_hash, timeout_s, _VERIFIER_V).  The command and the
\* bytes of cmd[0] are hashed.  For "python -m package" cmd[0] is sys.executable, an
\* existing file: the branch that hashes the package is not reached.
\* verifier_v is not used.
Key(sv, it) ==
    [program |-> setup.program[sv],
     code |-> IF setup.program[sv] \in setup.python THEN None ELSE version[setup.program[sv]],
     instance |-> content[it], timeout |-> timeout]

\* The file the solver opens.  aigtoaig writes the .aig in place.
FileRead(sv, it) ==
    CASE setup.format[sv] = "dqdimacs" -> content[it]
      [] setup.format[sv] = "tlsf" -> setup.source[it]
      [] setup.format[sv] = "aag" ->
            IF aig[<<sv, setup.source[it]>>] = "full" THEN setup.source[it] ELSE None

Answer(sv, file) ==
    [program |-> setup.program[sv], code |-> version[setup.program[sv]],
     file |-> file, timeout |-> timeout]

RunRow(sv, it, got, cert, status) ==
    [solver |-> sv, path |-> it, got |-> got, inverted |-> FALSE, cert |-> cert,
     status |-> status, cached |-> FALSE]

AskedInverted(sv, it) == it \in setup.inverted /\ setup.format[sv] \in {"aag", "tlsf"}

\* _normalise: the verdict is turned over; applying it twice would turn it back.
Normalise(r, sv, it) ==
    IF AskedInverted(sv, it) THEN [r EXCEPT !.inverted = ~ @] ELSE r

\* The manifest says that there is no source.
NotAsked(sv, it) == setup.format[sv] = "aag" /\ setup.source[it] = None

\* Mutant: the row keeps the path it was cached under.
HitKeepsPath(sv, it) == [cache[Key(sv, it)] EXCEPT !.cached = TRUE, !.solver = sv]

\* A row of the cache as the answer of this solver on this instance.
Hit(sv, it) == [cache[Key(sv, it)] EXCEPT !.cached = TRUE, !.solver = sv, !.path = it]

InCache(sv, it) == Key(sv, it) \in DOMAIN cache

-----------------------------------------------------------------------------
Init ==
    /\ setup \in Setups
    /\ content \in [Instances -> Contents]
    /\ setup.distinct => \A it, jt \in Instances : it # jt => content[it] # content[jt]
    /\ version = [p \in Programs |-> CHOOSE v \in Versions : TRUE]
    /\ verifierV = CHOOSE v \in Versions : TRUE
    /\ cache = [k \in {} |-> None]
    /\ aig = [x \in Solvers \X {setup.source[it] : it \in Instances} |-> "absent"]
    /\ certs = [x \in {CertFile(p) : p \in Pairs} |-> None]
    /\ running = FALSE /\ timeout \in setup.timeouts /\ verify \in setup.verify
    /\ useCache = TRUE
    /\ jobs = [p \in {} |-> None] /\ rows = {} /\ nruns = 0

\* Between two runs somebody edits a solver, an instance, or the verifier.
Change ==
    /\ ~ running /\ nruns > 0 /\ nruns < setup.runs
    /\ \/ /\ "program" \in setup.changes
          /\ \E p \in Programs, v \in Versions : version' = [version EXCEPT ![p] = v]
          /\ UNCHANGED <<content, verifierV>>
       \/ /\ "instance" \in setup.changes
          /\ \E it \in Instances, c \in Contents : content' = [content EXCEPT ![it] = c]
          /\ UNCHANGED <<version, verifierV>>
       \/ /\ "verifier" \in setup.changes
          /\ verifierV' \in Versions
          /\ UNCHANGED <<content, version>>
    /\ UNCHANGED <<setup, cache, aig, certs, running, options, jobs, rows, nruns>>

NewJob(sv, it) == [stage |-> "queued", key |-> Key(sv, it), got |-> None, cert |-> FALSE, status |-> None]

\* Options of the next command line.
ChooseOptions ==
    /\ ~ running /\ nruns > 0
    /\ timeout' \in setup.timeouts /\ verify' \in setup.verify /\ useCache' \in BOOLEAN
    /\ UNCHANGED <<setup, world, running, jobs, rows, nruns>>

\* run_multi up to the pool: what the cache holds is reported, the rest is queued.
StartRun ==
    /\ ~ running /\ nruns < setup.runs
    /\ running' = TRUE /\ nruns' = nruns + 1
    /\ LET skipped == {p \in Pairs : NotAsked(p[1], p[2])}
           hits    == {p \in Pairs \ skipped : useCache /\ InCache(p[1], p[2])}
       IN  /\ rows' = {[RunRow(p[1], p[2], None, FALSE, None) EXCEPT !.cached = TRUE] : p \in skipped}
                      \cup {Normalise(Hit(p[1], p[2]), p[1], p[2]) : p \in hits}
           /\ jobs' = [p \in Pairs \ (skipped \cup hits) |-> NewJob(p[1], p[2])]
    /\ UNCHANGED <<setup, world, options>>

-----------------------------------------------------------------------------
(* _run_one, in a worker process.                                          *)

Busy == {p \in DOMAIN jobs : jobs[p].stage \notin {"queued", "done"}}

Moves(p, from, to) ==
    /\ p \in DOMAIN jobs /\ jobs[p].stage = from
    /\ jobs' = [jobs EXCEPT ![p].stage = to]
    /\ UNCHANGED <<setup, content, version, verifierV, cache, running, options, rows, nruns>>

\* No .tlsf source is found: "n/a".
NoSource(p) == setup.format[p[1]] = "tlsf" /\ setup.source[p[2]] = None

Aig(p) == <<p[1], setup.source[p[2]]>>

NeedsConversion(p) == setup.format[p[1]] = "aag" /\ aig[Aig(p)] = "absent"

\* A free worker takes a job and looks for the file to give to the solver.
TakeJob(p) ==
    /\ Cardinality(Busy) < setup.jobs
    /\ Moves(p, "queued", IF NoSource(p) THEN "done"
                          ELSE IF NeedsConversion(p) THEN "converting" ELSE "ready")
    /\ UNCHANGED <<aig, certs>>

\* aigtoaig opens the .aig and, later, has written it.
OpenAig(p) ==
    /\ Moves(p, "converting", "writing")
    /\ aig' = [aig EXCEPT ![Aig(p)] = "partial"]
    /\ UNCHANGED certs

CloseAig(p) ==
    /\ Moves(p, "writing", "ready")
    /\ aig' = [aig EXCEPT ![Aig(p)] = "full"]
    /\ UNCHANGED certs

\* Mutant: old certificates are left in the directory.
ClearedNothing(p) == certs

\* "Clear stale certs so a no-cert verdict isn't misread".
ClearedCerts(p) == [certs EXCEPT ![CertFile(p)] = None]

\* The path of the file could break out of the solver's command: the row says "error".
RefusePath(p) ==
    /\ p \in DOMAIN jobs /\ jobs[p].stage = "ready" /\ p[2] \in setup.refused
    /\ jobs' = [jobs EXCEPT ![p].stage = "done", ![p].got = Error]
    /\ UNCHANGED <<setup, world, running, options, rows, nruns>>

\* The solver starts and reads its input.
Launch(p) ==
    /\ p \in DOMAIN jobs /\ jobs[p].stage = "ready" /\ p[2] \notin setup.refused
    /\ jobs' = [jobs EXCEPT ![p].stage = "solving",
                            ![p].got = Answer(p[1], FileRead(p[1], p[2]))]
    /\ certs' = ClearedCerts(p)
    /\ UNCHANGED <<setup, content, version, verifierV, cache, aig, running, options, rows, nruns>>

\* It answers, with a certificate or without; a cert file that exists is taken.
SolverExits(p) ==
    /\ p \in DOMAIN jobs /\ jobs[p].stage = "solving"
    /\ certs' \in {certs} \cup
          IF setup.format[p[1]] = "dqdimacs" THEN {[certs EXCEPT ![CertFile(p)] = jobs[p].got]} ELSE {}
    /\ jobs' = [jobs EXCEPT ![p].stage = "verifying", ![p].cert = certs'[CertFile(p)] # None]
    /\ UNCHANGED <<setup, content, version, verifierV, cache, aig, running, options, rows, nruns>>

\* _verify_one: by the verifier that is installed, on the file that is there.
VerifyOne(p) ==
    /\ p \in DOMAIN jobs /\ jobs[p].stage = "verifying"
    /\ jobs' = [jobs EXCEPT ![p].stage = "done",
                            ![p].status = IF verify /\ jobs[p].cert
                                          THEN [by |-> verifierV, of |-> certs[CertFile(p)]] ELSE None]
    /\ UNCHANGED <<setup, world, running, options, rows, nruns>>

-----------------------------------------------------------------------------
JobRow(p) == RunRow(p[1], p[2], jobs[p].got, jobs[p].cert, jobs[p].status)

\* Mutant: the row goes to the cache as it is reported.
NormalisedFirst(p) == Normalise(JobRow(p), p[1], p[2])

\* The row goes to the cache as the solver answered.
StoredRow(p) == JobRow(p)

\* Mutant: "n/a" is stored like an answer.
StoredAlways(p) == TRUE

\* "n/a" is a decision of the runner, not of the solver.  So is "error" for a path that
\* is refused, but that row is stored.
IsStored(p) == jobs[p].got # None

\* The pool hands a finished job back.
Collect(p) ==
    /\ running
    /\ p \in DOMAIN jobs /\ jobs[p].stage = "done"
    /\ cache' = [k \in DOMAIN cache \cup (IF IsStored(p) THEN {jobs[p].key} ELSE {}) |->
                    IF IsStored(p) /\ k = jobs[p].key THEN StoredRow(p) ELSE cache[k]]
    /\ rows' = rows \cup {Normalise(JobRow(p), p[1], p[2])}
    /\ jobs' = [q \in DOMAIN jobs \ {p} |-> jobs[q]]
    /\ UNCHANGED <<setup, content, version, verifierV, aig, certs, running, options, nruns>>

EndRun ==
    /\ running /\ DOMAIN jobs = {}
    /\ running' = FALSE
    /\ UNCHANGED <<setup, world, options, jobs, rows, nruns>>

\* The benchmark and its workers are killed.
Crash ==
    /\ setup.crash /\ running
    /\ running' = FALSE /\ jobs' = [p \in {} |-> None]
    /\ UNCHANGED <<setup, world, options, rows, nruns>>

Next ==
    \/ Change \/ ChooseOptions \/ StartRun \/ EndRun \/ Crash
    \/ \E p \in Pairs :
          \/ TakeJob(p) \/ OpenAig(p) \/ CloseAig(p) \/ RefusePath(p)
          \/ Launch(p) \/ SolverExits(p) \/ VerifyOne(p) \/ Collect(p)

Spec == Init /\ [][Next]_vars

-----------------------------------------------------------------------------
Stages == {"queued", "converting", "writing", "ready", "solving", "verifying", "done"}

TypeOK ==
    /\ content \in [Instances -> Contents] /\ version \in [Programs -> Versions]
    /\ \A k \in DOMAIN cache : cache[k].got # None /\ ~ cache[k].cached
    /\ DOMAIN jobs \subseteq Pairs
    /\ \A p \in DOMAIN jobs : jobs[p].stage \in Stages
    /\ Cardinality(Busy) <= setup.jobs

Reported == {<<r.solver, r.path>> : r \in rows}

\* Whatever comes from the cache, from workers in any order or from a run that was
\* killed: every solver and instance is reported once, and nothing else is.
EachPairOnce ==
    running =>
        /\ Reported \cup DOMAIN jobs = Pairs /\ Reported \cap DOMAIN jobs = {}
        /\ Cardinality(rows) = Cardinality(Reported)

\* What the answer to (solver, instance) is computed from.
Question(sv, it) == IF setup.format[sv] = "dqdimacs" THEN content[it] ELSE setup.source[it]

\* What is to be reported for it.
Due(sv, it) == IF it \in setup.refused THEN Error ELSE Answer(sv, Question(sv, it))

\* No other instance has, or gets, the contents of one whose path is refused: it would
\* find the "error" in the cache.
RefusalsStay(s) == s.refused # {} => s.distinct /\ "instance" \notin s.changes

\* Every verdict in the report, cached or not, is the one the present solver gives
\* for the present file, turned over exactly when the source asks the negation, and
\* "error" exactly for a path that is refused; with --verify-certs, a row with a
\* certificate has the status the present verifier gives.  Excused is that the row of
\* a path that is refused goes to the cache like any other.
ReportIsCurrent ==
    running /\ RefusalsStay(setup) => \A r \in rows :
        /\ r.got # None => /\ r.got = Due(r.solver, r.path)
                           /\ r.inverted = AskedInverted(r.solver, r.path)
        /\ verify /\ r.cert => r.status # None /\ r.status.by = verifierV

\* Where ReportIsCurrent can be kept: outside of this the runner knows too little.  No
\* solver is started as a Python module; the names of one program read the same
\* format; --verify-certs is always given or never, and if it is the verifier stays;
\* and if a solver reads sources, each instance is told from the others by its
\* contents and by its source, and no run is killed while a file is converted.  If a
\* path is refused, contents tell the instances apart as well.
ReadsSources(s) == \E sv \in DOMAIN s.format : s.format[sv] # "dqdimacs"
ByContents(s) == ReadsSources(s) \/ s.refused # {}
Converts(s) == \E sv \in DOMAIN s.format : s.format[sv] = "aag"

KeyTellsAll(s) ==
    /\ s.python = {}
    /\ \A sv, tv \in DOMAIN s.format :
          s.program[sv] = s.program[tv] => s.format[sv] = s.format[tv]
    /\ \A v, w \in s.verify : v = w
    /\ "verifier" \in s.changes => TRUE \notin s.verify
    /\ ByContents(s) => s.distinct /\ "instance" \notin s.changes
    /\ Converts(s) => /\ ~ s.crash
                      /\ \A it, jt \in DOMAIN s.source :
                            s.source[it] = s.source[jt] /\ s.source[it] # None => it = jt

\* No two instances of a family have one stem, and with it one certificate file.
OwnCerts(s) == \A it, jt \in DOMAIN s.stem : s.stem[it] = s.stem[jt] => it = jt

\* A certificate that was verified is the one of the answer it stands beside, never
\* one that an earlier run or another worker left in the directory, unless instances
\* share their certificate file.
CertIsOwn == OwnCerts(setup) => \A r \in rows : r.status # None => r.status.of = r.got
=============================================================================
