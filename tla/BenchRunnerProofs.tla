------------------------- MODULE BenchRunnerProofs --------------------------
(***************************************************************************)
(* The benchmark runner, for any solvers, instances, options and changes   *)
(* between runs, and whenever a run is killed: the report is complete, a   *)
(* verified certificate is that of the answer beside it, and, where the    *)
(* key of the cache tells apart what the answers depend on, every answer   *)
(* in the report is the present one.                                       *)
(***************************************************************************)
EXTENDS BenchRunner, TLAPS, FiniteSetTheorems, FunctionTheorems

-----------------------------------------------------------------------------
(* The inductive invariants.                                                *)

IsJob(j) ==
    j = [stage |-> j.stage, key |-> j.key, got |-> j.got, cert |-> j.cert, status |-> j.status]

IsRow(r) ==
    r = [solver |-> r.solver, path |-> r.path, got |-> r.got, inverted |-> r.inverted,
         cert |-> r.cert, status |-> r.status, cached |-> r.cached]

\* The status of a job or a row is about the answer that stands beside it.
OwnStatus(r) == r.status # None => r.status.of = r.got

\* From the moment the solver starts, the certificate file of a job is its own, where no
\* other job writes the same file.
OwnFile(p, j) ==
    /\ j.stage = "solving" => certs[CertFile(p)] \in {None, j.got}
    /\ j.stage = "verifying" /\ j.cert => certs[CertFile(p)] = j.got
    /\ OwnStatus(j)

JobOK(p, j) ==
    /\ IsJob(j) /\ j.stage \in Stages
    /\ j.stage # "done" => j.status = None
    /\ OwnCerts(setup) => OwnFile(p, j)

CacheOK == \A k \in DOMAIN cache :
    /\ IsRow(cache[k]) /\ cache[k].got # None /\ ~ cache[k].cached
    /\ OwnCerts(setup) => OwnStatus(cache[k])

JobsOK ==
    /\ DOMAIN jobs \subseteq Pairs
    /\ \A p \in DOMAIN jobs : JobOK(p, jobs[p])
    /\ Cardinality(Busy) <= setup.jobs

\* Pairs are jobs until they are rows.
ReportOK ==
    /\ OwnCerts(setup) => \A r \in rows : OwnStatus(r)
    /\ running => /\ Reported \cup DOMAIN jobs = Pairs /\ Reported \cap DOMAIN jobs = {}
                  /\ \A r, s \in rows : r.solver = s.solver /\ r.path = s.path => r = s

WorldOK ==
    /\ setup \in Setups
    /\ content \in [Instances -> Contents] /\ version \in [Programs -> Versions]
    /\ DOMAIN certs = {CertFile(p) : p \in Pairs}

RunnerInv == WorldOK /\ JobsOK /\ CacheOK /\ ReportOK

\* What a job will answer is about the files as they are now.
JobCurrent(p, j) ==
    /\ j.key = Key(p[1], p[2]) /\ ~ NotAsked(p[1], p[2])
    /\ j.got # None => j.got = Due(p[1], p[2])
    /\ j.stage = "ready" /\ setup.format[p[1]] = "aag" => aig[Aig(p)] = "full"
    /\ j.stage \in {"converting", "writing"} => setup.format[p[1]] = "aag"
    /\ j.stage \notin {"verifying", "done"} => ~ j.cert
    /\ j.stage = "done" /\ verify /\ j.cert => j.status # None /\ j.status.by = verifierV

\* A row of the cache answers what its key asks: the file is in the key, or is the
\* source of the one instance with those contents, whose path may be refused.
KeyAnswer(k, sv, it) ==
    IF it \in setup.refused THEN Error
    ELSE [program |-> k.program, code |-> k.code, timeout |-> k.timeout,
          file |-> IF setup.format[sv] = "dqdimacs" THEN k.instance ELSE setup.source[it]]

RowCurrent(k, r) ==
    /\ r.inverted = FALSE
    /\ verify /\ r.cert => r.status # None /\ r.status.by = verifierV
    /\ \E sv \in Solvers, it \in Instances :
          /\ setup.program[sv] = k.program
          /\ setup.format[sv] # "dqdimacs" \/ setup.refused # {} => content[it] = k.instance
          /\ r.got = KeyAnswer(k, sv, it)

AigOK ==
    /\ DOMAIN aig = Solvers \X {setup.source[it] : it \in Instances}
    /\ \A x \in DOMAIN aig :
          /\ aig[x] \in {"absent", "partial", "full"}
          /\ aig[x] = "partial" => \E p \in DOMAIN jobs : jobs[p].stage = "writing" /\ Aig(p) = x

RowsCurrent ==
    running => \A r \in rows :
        /\ r.got # None => /\ r.got = Due(r.solver, r.path)
                           /\ r.inverted = AskedInverted(r.solver, r.path)
        /\ verify /\ r.cert => r.status # None /\ r.status.by = verifierV

CurrentInv ==
    /\ verify \in setup.verify
    /\ ~ running => DOMAIN jobs = {}
    /\ \A p \in DOMAIN jobs : JobCurrent(p, jobs[p])
    /\ AigOK
    /\ ByContents(setup) => \A it, jt \in Instances : it # jt => content[it] # content[jt]
    /\ \A k \in DOMAIN cache : RowCurrent(k, cache[k])
    /\ RowsCurrent

\* What is known of a setup.
LEMMA SetupFacts ==
    ASSUME WorldOK
    PROVE  IsFiniteSet(Pairs) /\ setup.jobs \in Nat \ {0}
<1>1. IsFiniteSet(Solvers) /\ IsFiniteSet(Instances)
  BY SetupsAssumption DEF WorldOK, Solvers, Instances
<1>2. IsFiniteSet(Pairs)
  BY <1>1, FS_Product DEF Pairs
<1>3. QED
  BY <1>2, SetupsAssumption DEF WorldOK

\* A job of which some fields are changed.
Job(s, k, g, b, t) == [stage |-> s, key |-> k, got |-> g, cert |-> b, status |-> t]

\* The step of a worker that changes only the stage.
LEMMA StageChanged ==
    ASSUME NEW j, IsJob(j), NEW s
    PROVE  [j EXCEPT !.stage = s] = Job(s, j.key, j.got, j.cert, j.status)
BY DEF IsJob, Job

\* The stage and the answer change.
LEMMA GotChanged ==
    ASSUME NEW j, IsJob(j), NEW s, NEW x
    PROVE  [j EXCEPT !.stage = s, !.got = x] = Job(s, j.key, x, j.cert, j.status)
<1> DEFINE i == [j EXCEPT !.stage = s]
<1>1. [j EXCEPT !.stage = s, !.got = x] = [i EXCEPT !.got = x]
  BY DEF IsJob
<1>2. i = Job(s, j.key, j.got, j.cert, j.status)
  BY StageChanged
<1> HIDE DEF i
<1>3. [i EXCEPT !.got = x] = Job(s, j.key, x, j.cert, j.status)
  BY <1>2 DEF Job
<1>4. QED
  BY <1>1, <1>3

\* The stage changes, and whether there is a certificate.
LEMMA CertChanged ==
    ASSUME NEW j, IsJob(j), NEW s, NEW x
    PROVE  [j EXCEPT !.stage = s, !.cert = x] = Job(s, j.key, j.got, x, j.status)
<1> DEFINE i == [j EXCEPT !.stage = s]
<1>1. [j EXCEPT !.stage = s, !.cert = x] = [i EXCEPT !.cert = x]
  BY DEF IsJob
<1>2. i = Job(s, j.key, j.got, j.cert, j.status)
  BY StageChanged
<1> HIDE DEF i
<1>3. [i EXCEPT !.cert = x] = Job(s, j.key, j.got, x, j.status)
  BY <1>2 DEF Job
<1>4. QED
  BY <1>1, <1>3

\* The stage and the status of the certificate change.
LEMMA StatusChanged ==
    ASSUME NEW j, IsJob(j), NEW s, NEW x
    PROVE  [j EXCEPT !.stage = s, !.status = x] = Job(s, j.key, j.got, j.cert, x)
<1> DEFINE i == [j EXCEPT !.stage = s]
<1>1. [j EXCEPT !.stage = s, !.status = x] = [i EXCEPT !.status = x]
  BY DEF IsJob
<1>2. i = Job(s, j.key, j.got, j.cert, j.status)
  BY StageChanged
<1> HIDE DEF i
<1>3. [i EXCEPT !.status = x] = Job(s, j.key, j.got, j.cert, x)
  BY <1>2 DEF Job
<1>4. QED
  BY <1>1, <1>3

\* What the steps of a worker have in common: the job p becomes j.
Works(p, j) ==
    /\ DOMAIN jobs' = DOMAIN jobs
    /\ \A q \in DOMAIN jobs : jobs'[q] = IF q = p THEN j ELSE jobs[q]
    /\ UNCHANGED <<setup, content, version, verifierV, cache, running, options, rows, nruns>>

\* The other jobs stay.
LEMMA JobReplaced ==
    ASSUME NEW p \in DOMAIN jobs, NEW j, jobs' = [jobs EXCEPT ![p] = j]
    PROVE  /\ DOMAIN jobs' = DOMAIN jobs
           /\ \A q \in DOMAIN jobs : jobs'[q] = IF q = p THEN j ELSE jobs[q]
OBVIOUS

\* The job after each step of its worker.
NextStage(p) ==
    CASE jobs[p].stage = "queued"     -> IF NoSource(p) THEN "done"
                                         ELSE IF NeedsConversion(p) THEN "converting" ELSE "ready"
      [] jobs[p].stage = "converting" -> "writing"
      [] jobs[p].stage = "writing"    -> "ready"

\* The steps of a worker.
IsWorking(p) ==
    \/ TakeJob(p) \/ OpenAig(p) \/ CloseAig(p) \/ RefusePath(p)
    \/ Launch(p) \/ SolverExits(p) \/ VerifyOne(p)

\* What each step of a worker does to its job.
LEMMA WorkerSteps ==
    ASSUME JobsOK, NEW p \in Pairs,
           IsWorking(p)
    PROVE  /\ p \in DOMAIN jobs /\ IsJob(jobs[p])
           /\ LET j == jobs[p] IN
              \/ /\ TakeJob(p) \/ OpenAig(p) \/ CloseAig(p)
                 /\ Works(p, Job(NextStage(p), j.key, j.got, j.cert, j.status))
              \/ /\ RefusePath(p)
                 /\ Works(p, Job("done", j.key, Error, j.cert, j.status))
              \/ /\ Launch(p)
                 /\ Works(p, Job("solving", j.key, Answer(p[1], FileRead(p[1], p[2])), j.cert, j.status))
              \/ /\ SolverExits(p)
                 /\ Works(p, Job("verifying", j.key, j.got, certs'[CertFile(p)] # None, j.status))
              \/ /\ VerifyOne(p)
                 /\ Works(p, Job("done", j.key, j.got, j.cert,
                                 IF verify /\ j.cert THEN [by |-> verifierV, of |-> certs[CertFile(p)]] ELSE None))
<1>1. p \in DOMAIN jobs /\ IsJob(jobs[p])
  <2>1. p \in DOMAIN jobs
    BY DEF IsWorking, TakeJob, OpenAig, CloseAig, RefusePath, Launch, SolverExits, VerifyOne, Moves
  <2>2. QED
    BY <2>1 DEF JobsOK, JobOK
<1> DEFINE j == jobs[p]
<1>2. IsJob(j)
  BY <1>1
<1>3. CASE TakeJob(p) \/ OpenAig(p) \/ CloseAig(p)
  <2>1. jobs' = [jobs EXCEPT ![p] = [j EXCEPT !.stage = NextStage(p)]]
    BY <1>3 DEF TakeJob, OpenAig, CloseAig, Moves, NextStage
  <2> HIDE DEF j
  <2>2. [j EXCEPT !.stage = NextStage(p)] = Job(NextStage(p), j.key, j.got, j.cert, j.status)
    BY <1>2, StageChanged
  <2>3. jobs' = [jobs EXCEPT ![p] = Job(NextStage(p), j.key, j.got, j.cert, j.status)]
    BY <2>1, <2>2
  <2>4. UNCHANGED <<setup, content, version, verifierV, cache, running, options, rows, nruns>>
    BY <1>3 DEF TakeJob, OpenAig, CloseAig, Moves
  <2>5. Works(p, Job(NextStage(p), j.key, j.got, j.cert, j.status))
    BY <1>1, <2>3, <2>4, JobReplaced DEF Works
  <2>6. QED
    BY <1>1, <1>3, <2>5 DEF j
<1>4. CASE Launch(p)
  <2> DEFINE a == Answer(p[1], FileRead(p[1], p[2]))
  <2>1. jobs' = [jobs EXCEPT ![p] = [j EXCEPT !.stage = "solving", !.got = a]]
    BY <1>4 DEF Launch
  <2> HIDE DEF j, a
  <2>2. [j EXCEPT !.stage = "solving", !.got = a] = Job("solving", j.key, a, j.cert, j.status)
    BY <1>2, GotChanged
  <2>3. jobs' = [jobs EXCEPT ![p] = Job("solving", j.key, a, j.cert, j.status)]
    BY <2>1, <2>2
  <2>4. UNCHANGED <<setup, content, version, verifierV, cache, running, options, rows, nruns>>
    BY <1>4 DEF Launch
  <2>5. Works(p, Job("solving", j.key, a, j.cert, j.status))
    BY <1>1, <2>3, <2>4, JobReplaced DEF Works
  <2>6. QED
    BY <1>1, <1>4, <2>5 DEF j, a
<1>5. CASE SolverExits(p)
  <2> DEFINE b == certs'[CertFile(p)] # None
  <2>1. jobs' = [jobs EXCEPT ![p] = [j EXCEPT !.stage = "verifying", !.cert = b]]
    BY <1>5 DEF SolverExits
  <2> HIDE DEF j, b
  <2>2. [j EXCEPT !.stage = "verifying", !.cert = b] = Job("verifying", j.key, j.got, b, j.status)
    BY <1>2, CertChanged
  <2>3. jobs' = [jobs EXCEPT ![p] = Job("verifying", j.key, j.got, b, j.status)]
    BY <2>1, <2>2
  <2>4. UNCHANGED <<setup, content, version, verifierV, cache, running, options, rows, nruns>>
    BY <1>5 DEF SolverExits
  <2>5. Works(p, Job("verifying", j.key, j.got, b, j.status))
    BY <1>1, <2>3, <2>4, JobReplaced DEF Works
  <2>6. QED
    BY <1>1, <1>5, <2>5 DEF j, b
<1>6. CASE VerifyOne(p)
  <2> DEFINE status == IF verify /\ j.cert THEN [by |-> verifierV, of |-> certs[CertFile(p)]] ELSE None
  <2>1. jobs' = [jobs EXCEPT ![p] = [j EXCEPT !.stage = "done", !.status = status]]
    BY <1>6 DEF VerifyOne
  <2> HIDE DEF j, status
  <2>2. [j EXCEPT !.stage = "done", !.status = status] = Job("done", j.key, j.got, j.cert, status)
    BY <1>2, StatusChanged
  <2>3. jobs' = [jobs EXCEPT ![p] = Job("done", j.key, j.got, j.cert, status)]
    BY <2>1, <2>2
  <2>4. UNCHANGED <<setup, content, version, verifierV, cache, running, options, rows, nruns>>
    BY <1>6 DEF VerifyOne, world
  <2>5. Works(p, Job("done", j.key, j.got, j.cert, status))
    BY <1>1, <2>3, <2>4, JobReplaced DEF Works
  <2>6. QED
    BY <1>1, <1>6, <2>5 DEF j, status
<1>7. CASE RefusePath(p)
  <2>1. jobs' = [jobs EXCEPT ![p] = [j EXCEPT !.stage = "done", !.got = Error]]
    BY <1>7 DEF RefusePath
  <2> HIDE DEF j
  <2>2. [j EXCEPT !.stage = "done", !.got = Error] = Job("done", j.key, Error, j.cert, j.status)
    BY <1>2, GotChanged
  <2>3. jobs' = [jobs EXCEPT ![p] = Job("done", j.key, Error, j.cert, j.status)]
    BY <2>1, <2>2
  <2>4. UNCHANGED <<setup, content, version, verifierV, cache, running, options, rows, nruns>>
    BY <1>7 DEF RefusePath, world
  <2>5. Works(p, Job("done", j.key, Error, j.cert, j.status))
    BY <1>1, <2>3, <2>4, JobReplaced DEF Works
  <2>6. QED
    BY <1>1, <1>7, <2>5 DEF j
<1>8. QED
  BY <1>3, <1>4, <1>5, <1>6, <1>7 DEF IsWorking

-----------------------------------------------------------------------------
(* Rows.                                                                    *)

Row(sv, it, g, i, b, t, h) ==
    [solver |-> sv, path |-> it, got |-> g, inverted |-> i, cert |-> b, status |-> t, cached |-> h]

\* A row of which one field is changed.
Named(r, sv)    == [r EXCEPT !.solver = sv]
At(r, it)       == [r EXCEPT !.path = it]
Inverted(r, i)  == [r EXCEPT !.inverted = i]
FromCache(r, h) == [r EXCEPT !.cached = h]

\* The fields of a row.
LEMMA RowFields ==
    ASSUME NEW sv, NEW it, NEW g, NEW i, NEW b, NEW t, NEW h, NEW r, r = Row(sv, it, g, i, b, t, h)
    PROVE  /\ IsRow(r) /\ r.solver = sv /\ r.path = it /\ r.got = g /\ r.inverted = i
           /\ r.cert = b /\ r.status = t /\ r.cached = h
BY DEF IsRow, Row

\* One field is changed, the others stay.
LEMMA FieldChanged ==
    ASSUME NEW r, IsRow(r), NEW x
    PROVE  /\ Named(r, x) = Row(x, r.path, r.got, r.inverted, r.cert, r.status, r.cached)
           /\ At(r, x) = Row(r.solver, x, r.got, r.inverted, r.cert, r.status, r.cached)
           /\ Inverted(r, x) = Row(r.solver, r.path, r.got, x, r.cert, r.status, r.cached)
           /\ FromCache(r, x) = Row(r.solver, r.path, r.got, r.inverted, r.cert, r.status, x)
<1>1. Named(r, x) = Row(x, r.path, r.got, r.inverted, r.cert, r.status, r.cached)
  BY DEF IsRow, Row, Named
<1>2. At(r, x) = Row(r.solver, x, r.got, r.inverted, r.cert, r.status, r.cached)
  BY DEF IsRow, Row, At
<1>3. Inverted(r, x) = Row(r.solver, r.path, r.got, x, r.cert, r.status, r.cached)
  BY DEF IsRow, Row, Inverted
<1>4. FromCache(r, x) = Row(r.solver, r.path, r.got, r.inverted, r.cert, r.status, x)
  BY DEF IsRow, Row, FromCache
<1>5. QED
  BY <1>1, <1>2, <1>3, <1>4

\* A hit is the row of the cache under the name of this solver and this instance.
HitOf(r, sv, it, h) == [r EXCEPT !.cached = h, !.solver = sv, !.path = it]

\* The fields of a hit.
LEMMA HitFields ==
    ASSUME NEW r, IsRow(r), NEW sv, NEW it, NEW h
    PROVE  HitOf(r, sv, it, h)
              = Row(sv, it, r.got, r.inverted, r.cert, r.status, h)
<1> DEFINE a == FromCache(r, h)
           b == Named(a, sv)
<1>1. HitOf(r, sv, it, h) = At(b, it)
  BY DEF IsRow, HitOf, At, Named, FromCache
<1>2. a = Row(r.solver, r.path, r.got, r.inverted, r.cert, r.status, h)
  BY FieldChanged
<1> HIDE DEF a
<1>3. /\ IsRow(a) /\ a.path = r.path /\ a.got = r.got /\ a.inverted = r.inverted
      /\ a.cert = r.cert /\ a.status = r.status /\ a.cached = h
  BY <1>2, RowFields
<1>4. b = Row(sv, r.path, r.got, r.inverted, r.cert, r.status, h)
  BY <1>3, FieldChanged
<1> HIDE DEF b
<1>5. /\ IsRow(b) /\ b.solver = sv /\ b.got = r.got /\ b.inverted = r.inverted
      /\ b.cert = r.cert /\ b.status = r.status /\ b.cached = h
  BY <1>4, RowFields
<1>6. At(b, it) = Row(sv, it, r.got, r.inverted, r.cert, r.status, h)
  BY <1>5, FieldChanged
<1>7. QED
  BY <1>1, <1>6

\* A verdict is turned over for the instances that are asked the negated question.
LEMMA NormaliseFields ==
    ASSUME NEW r, IsRow(r), NEW sv, NEW it
    PROVE  /\ AskedInverted(sv, it) =>
                 Normalise(r, sv, it)
                   = Row(r.solver, r.path, r.got, ~ r.inverted, r.cert, r.status, r.cached)
           /\ ~ AskedInverted(sv, it) => Normalise(r, sv, it) = r
<1>1. [r EXCEPT !.inverted = ~ @] = Inverted(r, ~ r.inverted)
  BY DEF IsRow, Inverted
<1>2. Inverted(r, ~ r.inverted)
         = Row(r.solver, r.path, r.got, ~ r.inverted, r.cert, r.status, r.cached)
  BY FieldChanged
<1>3. QED
  BY <1>1, <1>2 DEF Normalise

\* The row of a job that has ended, as it is stored and as it is reported.
ReportedAs(r, sv, it, g, b, t, h) ==
    /\ r.solver = sv /\ r.path = it /\ r.got = g /\ r.cert = b /\ r.status = t /\ r.cached = h
    /\ r.inverted = AskedInverted(sv, it)

\* A finished job is stored as it was answered, and reported turned over if it was asked so.
LEMMA JobRowFields ==
    ASSUME NEW p
    PROVE  /\ JobRow(p) = Row(p[1], p[2], jobs[p].got, FALSE, jobs[p].cert, jobs[p].status, FALSE)
           /\ ReportedAs(Normalise(JobRow(p), p[1], p[2]),
                         p[1], p[2], jobs[p].got, jobs[p].cert, jobs[p].status, FALSE)
<1> DEFINE r == JobRow(p)
           n == Normalise(r, p[1], p[2])
           j == jobs[p]
<1>1. r = Row(p[1], p[2], j.got, FALSE, j.cert, j.status, FALSE)
  BY DEF JobRow, RunRow, Row
<1> HIDE DEF r, j
<1>2. /\ IsRow(r) /\ r.solver = p[1] /\ r.path = p[2] /\ r.got = j.got /\ r.inverted = FALSE
      /\ r.cert = j.cert /\ r.status = j.status /\ r.cached = FALSE
  BY <1>1 DEF Row, IsRow
<1>3. ReportedAs(n, p[1], p[2], j.got, j.cert, j.status, FALSE)
  <2>1. CASE AskedInverted(p[1], p[2])
    <3>1. n = Row(r.solver, r.path, r.got, ~ r.inverted, r.cert, r.status, r.cached)
      BY <1>2, <2>1, NormaliseFields
    <3> HIDE DEF n
    <3>2. /\ n.solver = r.solver /\ n.path = r.path /\ n.got = r.got /\ n.inverted = ~ r.inverted
          /\ n.cert = r.cert /\ n.status = r.status /\ n.cached = r.cached
      BY <3>1, RowFields
    <3>3. n.inverted = AskedInverted(p[1], p[2])
      BY <1>2, <2>1, <3>2 DEF AskedInverted
    <3>4. QED
      BY <1>2, <3>2, <3>3 DEF ReportedAs
  <2>2. CASE ~ AskedInverted(p[1], p[2])
    <3>1. n = r
      BY <1>2, <2>2, NormaliseFields
    <3>2. r.inverted = AskedInverted(p[1], p[2])
      BY <1>2, <2>2 DEF AskedInverted
    <3>3. QED
      BY <1>2, <3>1, <3>2 DEF ReportedAs
  <2>3. QED
    BY <2>1, <2>2
<1>4. QED
  BY <1>1, <1>3 DEF r, j

\* The rows that a run starts with.
Skipped == {p \in Pairs : NotAsked(p[1], p[2])}

Hits == {p \in Pairs \ Skipped : useCache /\ InCache(p[1], p[2])}

\* The row of p at the start of a run, for a p that is skipped and for a hit.
StartRow(r, p) ==
    /\ r.solver = p[1] /\ r.path = p[2]
    /\ \/ /\ p \in Skipped
          /\ r.got = None /\ r.cert = FALSE /\ r.status = None
       \/ /\ p \in Hits
          /\ r.got = cache[Key(p[1], p[2])].got /\ r.cert = cache[Key(p[1], p[2])].cert
          /\ r.status = cache[Key(p[1], p[2])].status
          /\ cache[Key(p[1], p[2])].inverted = FALSE => r.inverted = AskedInverted(p[1], p[2])

\* A run starts with one row for each pair that is skipped or hits, and a job for the others.
LEMMA StartFacts ==
    ASSUME CacheOK, StartRun
    PROVE  /\ \A r \in rows' : \E p \in Skipped \cup Hits : StartRow(r, p)
           /\ \A p \in Skipped \cup Hits : \E r \in rows' : StartRow(r, p)
           /\ \A r, s \in rows' : r.solver = s.solver /\ r.path = s.path => r = s
           /\ jobs' = [p \in Pairs \ (Skipped \cup Hits) |-> NewJob(p[1], p[2])]
<1> DEFINE SkipRow(p) == [RunRow(p[1], p[2], None, FALSE, None) EXCEPT !.cached = TRUE]
           HitRow(p) == Normalise(Hit(p[1], p[2]), p[1], p[2])
<1>1. ASSUME NEW p \in Skipped
      PROVE  StartRow(SkipRow(p), p)
  <2> DEFINE r == SkipRow(p)
             q == RunRow(p[1], p[2], None, FALSE, None)
  <2>1. q = Row(p[1], p[2], None, FALSE, FALSE, None, FALSE)
    BY DEF RunRow, Row
  <2>2. r = FromCache(q, TRUE)
    BY DEF FromCache
  <2> HIDE DEF q, r
  <2>3. /\ IsRow(q) /\ q.solver = p[1] /\ q.path = p[2] /\ q.got = None
        /\ q.cert = FALSE /\ q.status = None
    BY <2>1 DEF Row, IsRow
  <2>4. r = Row(q.solver, q.path, q.got, q.inverted, q.cert, q.status, TRUE)
    BY <2>2, <2>3, FieldChanged
  <2>5. /\ r.solver = p[1] /\ r.path = p[2] /\ r.got = None
        /\ r.cert = FALSE /\ r.status = None
    BY <2>3, <2>4 DEF Row, IsRow
  <2>6. StartRow(r, p)
    BY <1>1, <2>5 DEF StartRow
  <2>7. QED
    BY <2>6 DEF r
<1>2. ASSUME NEW p \in Hits
      PROVE  StartRow(HitRow(p), p)
  <2> DEFINE c == cache[Key(p[1], p[2])]
             h == Hit(p[1], p[2])
             n == HitRow(p)
             yes == TRUE
  <2>1. IsRow(c)
    BY DEF CacheOK, Hits, InCache
  <2>2. h = HitOf(c, p[1], p[2], yes)
    BY DEF Hit, HitOf
  <2>3. n = Normalise(h, p[1], p[2])
    OBVIOUS
  <2> HIDE DEF n, h, yes
  <2> SUFFICES StartRow(n, p)
    BY DEF n
  <2>4. c = cache[Key(p[1], p[2])]
    OBVIOUS
  <2> HIDE DEF c
  <2>5. h = Row(p[1], p[2], c.got, c.inverted, c.cert, c.status, yes)
    BY <2>1, <2>2, HitFields
  <2>6. /\ IsRow(h) /\ h.solver = p[1] /\ h.path = p[2] /\ h.got = c.got
        /\ h.inverted = c.inverted /\ h.cert = c.cert /\ h.status = c.status
    BY <2>5 DEF Row, IsRow
  <2>7. CASE AskedInverted(p[1], p[2])
    <3>1. n = Row(h.solver, h.path, h.got, ~ h.inverted, h.cert, h.status, h.cached)
      BY <2>3, <2>6, <2>7, NormaliseFields
    <3>2. /\ n.solver = p[1] /\ n.path = p[2] /\ n.got = c.got /\ n.cert = c.cert
          /\ n.status = c.status /\ n.inverted = ~ c.inverted
      BY <2>6, <3>1, RowFields
    <3>3. c.inverted = FALSE => n.inverted = AskedInverted(p[1], p[2])
      BY <2>7, <3>2 DEF AskedInverted
    <3>4. QED
      BY <1>2, <2>4, <3>2, <3>3 DEF StartRow
  <2>8. CASE ~ AskedInverted(p[1], p[2])
    <3>1. n = h
      BY <2>3, <2>6, <2>8, NormaliseFields
    <3>2. c.inverted = FALSE => n.inverted = AskedInverted(p[1], p[2])
      BY <2>6, <2>8, <3>1 DEF AskedInverted
    <3>3. QED
      BY <1>2, <2>4, <2>6, <3>1, <3>2 DEF StartRow
  <2>9. QED
    BY <2>7, <2>8
<1>3. /\ rows' = {SkipRow(p) : p \in Skipped} \cup {HitRow(p) : p \in Hits}
      /\ jobs' = [p \in Pairs \ (Skipped \cup Hits) |-> NewJob(p[1], p[2])]
  BY DEF StartRun, Skipped, Hits
<1> HIDE DEF SkipRow, HitRow
<1>4. \A r \in rows' : \E p \in Skipped \cup Hits :
         StartRow(r, p) /\ r = IF p \in Skipped THEN SkipRow(p) ELSE HitRow(p)
  BY <1>1, <1>2, <1>3 DEF Hits
<1>5. \A p \in Skipped \cup Hits : \E r \in rows' : StartRow(r, p)
  BY <1>1, <1>2, <1>3
<1>6. ASSUME NEW r \in rows', NEW s \in rows', r.solver = s.solver, r.path = s.path
      PROVE  r = s
  <2>1. PICK p \in Skipped \cup Hits :
           StartRow(r, p) /\ r = IF p \in Skipped THEN SkipRow(p) ELSE HitRow(p)
    BY <1>4
  <2>2. PICK q \in Skipped \cup Hits :
           StartRow(s, q) /\ s = IF q \in Skipped THEN SkipRow(q) ELSE HitRow(q)
    BY <1>4
  <2>3. p[1] = q[1] /\ p[2] = q[2] /\ p \in Solvers \X Instances /\ q \in Solvers \X Instances
    BY <1>6, <2>1, <2>2 DEF StartRow, Skipped, Hits, Pairs
  <2>4. p = q
    BY <2>3
  <2>5. QED
    BY <2>1, <2>2, <2>4
<1>7. QED
  BY <1>3, <1>4, <1>5, <1>6

-----------------------------------------------------------------------------
(* Every step keeps RunnerInv.                                              *)

\* A worker that moves one job, of its own or one it takes, keeps to the limit.
LEMMA BusyBounded ==
    ASSUME WorldOK, JobsOK, NEW p \in Pairs, NEW j, Works(p, j),
           p \in Busy \/ Cardinality(Busy) < setup.jobs
    PROVE  Cardinality(Busy') <= setup.jobs
<1>1. IsFiniteSet(Pairs) /\ setup.jobs \in Nat \ {0}
  BY SetupFacts
<1>2. Busy \subseteq Pairs
  BY DEF Busy, JobsOK
<1>3. IsFiniteSet(Busy) /\ Cardinality(Busy) \in Nat
  BY <1>1, <1>2, FS_Subset, FS_CardinalityType
<1>4. Busy' \subseteq Busy \cup {p}
  BY DEF Busy, Works
<1>5. IsFiniteSet(Busy \cup {p})
      /\ Cardinality(Busy \cup {p}) = IF p \in Busy THEN Cardinality(Busy) ELSE Cardinality(Busy) + 1
  BY <1>3, FS_AddElement
<1>6. Cardinality(Busy \cup {p}) <= setup.jobs
  BY <1>1, <1>3, <1>5 DEF JobsOK
<1>7. IsFiniteSet(Busy') /\ Cardinality(Busy') <= Cardinality(Busy \cup {p})
  BY <1>4, <1>5, FS_Subset
<1>8. Cardinality(Busy') \in Nat /\ Cardinality(Busy \cup {p}) \in Nat
  BY <1>5, <1>7, FS_CardinalityType
<1>9. QED
  BY <1>1, <1>6, <1>7, <1>8

\* The certificate file of p is the only one that a worker touches.
TouchesOnly(p) ==
    \A q \in Pairs : CertFile(q) # CertFile(p) => certs'[CertFile(q)] = certs[CertFile(q)]

\* Where no two instances of a family have one stem, each job has a file of its own.
LEMMA CertFileOwned ==
    ASSUME WorldOK, OwnCerts(setup), NEW p \in Pairs, NEW q \in Pairs, CertFile(p) = CertFile(q)
    PROVE  p = q
<1>1. p[1] = q[1] /\ setup.stem[p[2]] = setup.stem[q[2]]
  BY DEF CertFile
<1>2. /\ p[2] \in DOMAIN setup.stem /\ q[2] \in DOMAIN setup.stem
      /\ p = <<p[1], p[2]>> /\ q = <<q[1], q[2]>>
  BY SetupsAssumption DEF WorldOK, Pairs, Instances
<1>3. p[2] = q[2]
  BY <1>1, <1>2 DEF OwnCerts
<1>4. QED
  BY <1>1, <1>2, <1>3

\* So only the job of p has to be looked at.
LEMMA OthersKept ==
    ASSUME RunnerInv, NEW p \in Pairs, NEW j, Works(p, j),
           TouchesOnly(p), DOMAIN certs' = DOMAIN certs,
           p \in Busy \/ Cardinality(Busy) < setup.jobs,
           JobOK(p, jobs[p])'
    PROVE  RunnerInv'
<1>1. WorldOK'
  BY DEF RunnerInv, WorldOK, CertFile, Works, Pairs, Solvers, Instances, Programs
<1>2. CacheOK'
  BY DEF RunnerInv, CacheOK, Works
<1>3. ReportOK'
  <2>1. Reported' = Reported /\ Pairs' = Pairs
    BY DEF Reported, Pairs, Solvers, Instances, Works
  <2>2. rows' = rows /\ running' = running /\ setup' = setup /\ DOMAIN jobs' = DOMAIN jobs
    BY DEF Works
  <2>3. QED
    BY <2>1, <2>2 DEF RunnerInv, ReportOK
<1>4. JobsOK'
  <2>1. DOMAIN jobs' \subseteq Pairs'
    BY DEF RunnerInv, JobsOK, Works, Pairs, Solvers, Instances
  <2>2. Cardinality(Busy') <= setup'.jobs
    BY BusyBounded DEF RunnerInv, Works
  <2>3. ASSUME NEW q \in DOMAIN jobs'
        PROVE  JobOK(q, jobs[q])'
    <3>1. CASE q = p
      BY <3>1
    <3>2. CASE q # p
      <4>1. q \in DOMAIN jobs /\ q \in Pairs
        BY <2>3 DEF RunnerInv, JobsOK, Works
      <4>2. jobs'[q] = jobs[q] /\ setup' = setup /\ CertFile(q)' = CertFile(q)
        BY <3>2, <4>1 DEF Works, CertFile
      <4>3. JobOK(q, jobs[q])
        BY <4>1 DEF RunnerInv, JobsOK
      <4>4. OwnCerts(setup) => certs'[CertFile(q)] = certs[CertFile(q)]
        BY <3>2, <4>1, CertFileOwned DEF RunnerInv, TouchesOnly
      <4>5. OwnCerts(setup) => OwnFile(q, jobs[q])'
        BY <4>2, <4>3, <4>4 DEF JobOK, OwnFile
      <4>6. QED
        BY <4>2, <4>3, <4>5 DEF JobOK
    <3>3. QED
      BY <3>1, <3>2
  <2>4. QED
    BY <2>1, <2>2, <2>3 DEF JobsOK
<1>5. QED
  BY <1>1, <1>2, <1>3, <1>4 DEF RunnerInv

\* A job after a step, if its fields agree.
LEMMA FieldsAgree ==
    ASSUME NEW p, NEW s \in Stages, NEW k, NEW g, NEW b, NEW t, jobs'[p] = Job(s, k, g, b, t),
           setup' = setup, s # "done" => t = None,
           OwnCerts(setup) => /\ s = "solving" => certs'[CertFile(p)] \in {None, g}
                              /\ s = "verifying" /\ b => certs'[CertFile(p)] = g
                              /\ t # None => t.of = g
    PROVE  JobOK(p, jobs[p])'
<1>1. /\ IsJob(jobs'[p]) /\ jobs'[p].stage = s /\ jobs'[p].got = g
      /\ jobs'[p].status = t
  BY DEF IsJob, Job
<1>2. jobs'[p].cert = b
  BY DEF Job
<1>3. CertFile(p)' = CertFile(p)
  BY DEF CertFile
<1>4. OwnCerts(setup) => OwnFile(p, jobs[p])'
  BY <1>1, <1>2, <1>3 DEF OwnFile, OwnStatus
<1>5. QED
  BY <1>1, <1>4 DEF JobOK

\* Each of them keeps RunnerInv.
LEMMA WorkerKeeps ==
    ASSUME RunnerInv, NEW p \in Pairs,
           IsWorking(p)
    PROVE  RunnerInv'
<1> DEFINE j == jobs[p]
<1>1. p \in DOMAIN jobs /\ IsJob(j) /\ JobOK(p, j) /\ j.stage \in Stages
  BY WorkerSteps DEF RunnerInv, JobsOK, JobOK
<1>2. CertFile(p) \in DOMAIN certs
  BY DEF RunnerInv, WorldOK
<1>3. CASE TakeJob(p) \/ OpenAig(p) \/ CloseAig(p)
  <2>1. Works(p, Job(NextStage(p), j.key, j.got, j.cert, j.status))
    BY <1>3, WorkerSteps
     DEF RunnerInv, IsWorking, TakeJob, OpenAig, CloseAig, RefusePath, Launch, SolverExits, VerifyOne, Moves
  <2>2. NextStage(p) \in {"done", "converting", "writing", "ready"} /\ j.stage # "done"
    BY <1>3 DEF TakeJob, OpenAig, CloseAig, Moves, NextStage
  <2>3. j.status = None
    BY <1>1, <2>2 DEF JobOK
  <2>4. jobs'[p] = Job(NextStage(p), j.key, j.got, j.cert, j.status)
    BY <1>1, <2>1 DEF Works
  <2>5. JobOK(p, jobs[p])'
    <3> HIDE DEF j
    <3>1. NextStage(p) \in Stages /\ NextStage(p) # "solving" /\ NextStage(p) # "verifying"
      BY <2>2 DEF Stages
    <3>2. setup' = setup
      BY <2>1 DEF Works
    <3>3. OwnStatus(j) \/ ~ OwnCerts(setup)
      BY <1>1 DEF JobOK, OwnFile
    <3>4. QED
      BY <2>3, <2>4, <3>1, <3>2, <3>3, FieldsAgree
  <2>6. p \in Busy \/ Cardinality(Busy) < setup.jobs
    BY <1>1, <1>3 DEF TakeJob, OpenAig, CloseAig, Moves, Busy
  <2>7. TouchesOnly(p) /\ DOMAIN certs' = DOMAIN certs
    BY <1>3 DEF TakeJob, OpenAig, CloseAig, TouchesOnly
  <2>8. QED
    BY <2>1, <2>5, <2>6, <2>7, OthersKept
<1>4. CASE Launch(p)
  <2> DEFINE a == Answer(p[1], FileRead(p[1], p[2]))
  <2>1. Works(p, Job("solving", j.key, a, j.cert, j.status))
    BY <1>4, WorkerSteps
     DEF RunnerInv, IsWorking, TakeJob, OpenAig, CloseAig, RefusePath, Launch, SolverExits, VerifyOne, Moves
  <2>2. j.stage = "ready"
    BY <1>4 DEF Launch
  <2>3. j.status = None
    BY <1>1, <2>2 DEF JobOK
  <2>4. jobs'[p] = Job("solving", j.key, a, j.cert, j.status)
    BY <1>1, <2>1 DEF Works
  <2>5. certs' = [certs EXCEPT ![CertFile(p)] = None]
    BY <1>4 DEF Launch, ClearedCerts
  <2>6. JobOK(p, jobs[p])'
    <3> HIDE DEF j, a
    <3>1. certs'[CertFile(p)] = None
      BY <1>2, <2>5
    <3>2. setup' = setup
      BY <2>1 DEF Works
    <3>3. QED
      BY <2>3, <2>4, <3>1, <3>2, FieldsAgree DEF Stages
  <2>7. p \in Busy
    BY <1>1, <2>2 DEF Busy
  <2>8. TouchesOnly(p) /\ DOMAIN certs' = DOMAIN certs
    BY <2>5 DEF TouchesOnly, RunnerInv, WorldOK
  <2>9. QED
    BY <2>1, <2>6, <2>7, <2>8, OthersKept
<1>5. CASE SolverExits(p)
  <2> DEFINE b == certs'[CertFile(p)] # None
  <2>1. Works(p, Job("verifying", j.key, j.got, b, j.status))
    BY <1>5, WorkerSteps
     DEF RunnerInv, IsWorking, TakeJob, OpenAig, CloseAig, RefusePath, Launch, SolverExits, VerifyOne, Moves
  <2>2. j.stage = "solving"
    BY <1>5 DEF SolverExits
  <2>3. j.status = None /\ (OwnCerts(setup) => certs[CertFile(p)] \in {None, j.got})
    BY <1>1, <2>2 DEF JobOK, OwnFile
  <2>4. jobs'[p] = Job("verifying", j.key, j.got, b, j.status)
    BY <1>1, <2>1 DEF Works
  <2>5. certs' = certs \/ certs' = [certs EXCEPT ![CertFile(p)] = j.got]
    BY <1>5 DEF SolverExits
  <2>6. JobOK(p, jobs[p])'
    <3> HIDE DEF j
    <3>1. OwnCerts(setup) => (b => certs'[CertFile(p)] = j.got)
      BY <1>2, <2>3, <2>5
    <3> HIDE DEF b
    <3>2. setup' = setup
      BY <2>1 DEF Works
    <3>3. QED
      BY <2>3, <2>4, <3>1, <3>2, FieldsAgree DEF Stages
  <2>7. p \in Busy
    BY <1>1, <2>2 DEF Busy
  <2>8. TouchesOnly(p) /\ DOMAIN certs' = DOMAIN certs
    BY <2>5 DEF TouchesOnly, RunnerInv, WorldOK
  <2>9. QED
    BY <2>1, <2>6, <2>7, <2>8, OthersKept
<1>6. CASE VerifyOne(p)
  <2> DEFINE status == IF verify /\ j.cert THEN [by |-> verifierV, of |-> certs[CertFile(p)]] ELSE None
  <2>1. Works(p, Job("done", j.key, j.got, j.cert, status))
    BY <1>6, WorkerSteps
     DEF RunnerInv, IsWorking, TakeJob, OpenAig, CloseAig, RefusePath, Launch, SolverExits, VerifyOne, Moves
  <2>2. j.stage = "verifying"
    BY <1>6 DEF VerifyOne
  <2>3. OwnCerts(setup) => (j.cert => certs[CertFile(p)] = j.got)
    BY <1>1, <2>2 DEF JobOK, OwnFile
  <2>4. jobs'[p] = Job("done", j.key, j.got, j.cert, status)
    BY <1>1, <2>1 DEF Works
  <2>5. JobOK(p, jobs[p])'
    <3> HIDE DEF j
    <3>1. OwnCerts(setup) => (status # None => status.of = j.got)
      BY <2>3
    <3> HIDE DEF status
    <3>2. setup' = setup
      BY <2>1 DEF Works
    <3>3. QED
      BY <2>4, <3>1, <3>2, FieldsAgree DEF Stages
  <2>6. p \in Busy
    BY <1>1, <2>2 DEF Busy
  <2>7. TouchesOnly(p) /\ DOMAIN certs' = DOMAIN certs
    BY <1>6 DEF VerifyOne, world, TouchesOnly
  <2>8. QED
    BY <2>1, <2>5, <2>6, <2>7, OthersKept
<1>7. CASE RefusePath(p)
  <2>1. Works(p, Job("done", j.key, Error, j.cert, j.status))
    BY <1>7, WorkerSteps
     DEF RunnerInv, IsWorking, TakeJob, OpenAig, CloseAig, RefusePath, Launch, SolverExits, VerifyOne, Moves
  <2>2. j.stage = "ready"
    BY <1>7 DEF RefusePath
  <2>3. j.status = None
    BY <1>1, <2>2 DEF JobOK
  <2>4. jobs'[p] = Job("done", j.key, Error, j.cert, j.status)
    BY <1>1, <2>1 DEF Works
  <2>5. JobOK(p, jobs[p])'
    <3> HIDE DEF j
    <3>1. setup' = setup
      BY <2>1 DEF Works
    <3>2. QED
      BY <2>3, <2>4, <3>1, FieldsAgree DEF Stages
  <2>6. p \in Busy
    BY <1>1, <2>2 DEF Busy
  <2>7. TouchesOnly(p) /\ DOMAIN certs' = DOMAIN certs
    BY <1>7 DEF RefusePath, world, TouchesOnly
  <2>8. QED
    BY <2>1, <2>5, <2>6, <2>7, OthersKept
<1>8. QED
  BY <1>3, <1>4, <1>5, <1>6, <1>7 DEF IsWorking

\* The pool hands a finished job back: its pair is a row from now on.
LEMMA CollectKeeps ==
    ASSUME RunnerInv, NEW p \in Pairs, Collect(p)
    PROVE  RunnerInv'
<1> DEFINE j == jobs[p]
           n == Normalise(JobRow(p), p[1], p[2])
           sr == StoredRow(p)
<1>1. p \in DOMAIN jobs /\ j.stage = "done" /\ running
  BY DEF Collect
<1>2. JobOK(p, j)
  BY <1>1 DEF RunnerInv, JobsOK
<1>3. UNCHANGED <<setup, content, version, verifierV, aig, certs, running, options, nruns>>
  BY DEF Collect
<1>4. jobs' = [q \in DOMAIN jobs \ {p} |-> jobs[q]] /\ rows' = rows \cup {n}
  BY DEF Collect
<1>5. DOMAIN jobs' = DOMAIN jobs \ {p} /\ \A q \in DOMAIN jobs' : jobs'[q] = jobs[q]
  BY <1>4
<1>6. Pairs' = Pairs
  BY <1>3 DEF Pairs, Solvers, Instances
<1>7. ReportedAs(n, p[1], p[2], j.got, j.cert, j.status, FALSE)
  BY JobRowFields
<1>8. WorldOK'
  BY <1>3 DEF RunnerInv, WorldOK, CertFile, Pairs, Solvers, Instances, Programs
<1>9. CacheOK'
  <2>1. sr = Row(p[1], p[2], j.got, FALSE, j.cert, j.status, FALSE)
    BY JobRowFields DEF StoredRow
  <2>2. ASSUME NEW k \in DOMAIN cache'
        PROVE  (IsStored(p) /\ cache'[k] = sr) \/ (k \in DOMAIN cache /\ cache'[k] = cache[k])
    BY <2>2 DEF Collect
  <2>3. IsStored(p) => j.got # None
    BY DEF IsStored
  <2>4. OwnCerts(setup) => OwnStatus(j)
    BY <1>2 DEF JobOK, OwnFile
  <2> HIDE DEF sr, j
  <2>5. IsRow(sr) /\ sr.got = j.got /\ ~ sr.cached /\ sr.status = j.status
    BY <2>1 DEF Row, IsRow
  <2>6. OwnCerts(setup) => OwnStatus(sr)
    BY <2>4, <2>5 DEF OwnStatus
  <2>7. QED
    BY <1>3, <2>2, <2>3, <2>5, <2>6 DEF RunnerInv, CacheOK
<1>10. JobsOK'
  <2>1. DOMAIN jobs' \subseteq Pairs'
    BY <1>5, <1>6 DEF RunnerInv, JobsOK
  <2>2. \A q \in DOMAIN jobs' : JobOK(q, jobs[q])'
    BY <1>3, <1>5 DEF RunnerInv, JobsOK, JobOK, OwnFile, CertFile
  <2>3. Busy' \subseteq Busy /\ Busy \subseteq Pairs
    BY <1>5 DEF Busy, RunnerInv, JobsOK
  <2>4. IsFiniteSet(Busy)
    BY <2>3, SetupFacts, FS_Subset DEF RunnerInv
  <2>5. Cardinality(Busy') <= Cardinality(Busy) /\ Cardinality(Busy') \in Nat /\ Cardinality(Busy) \in Nat
    BY <2>3, <2>4, FS_Subset, FS_CardinalityType
  <2>6. Cardinality(Busy') <= setup'.jobs
    BY <1>3, <2>5, SetupFacts DEF RunnerInv, JobsOK
  <2>7. QED
    BY <2>1, <2>2, <2>6 DEF JobsOK
<1>11. ReportOK'
  <2>1. OwnCerts(setup) => OwnStatus(n)
    BY <1>2, <1>7 DEF JobOK, OwnFile, OwnStatus, ReportedAs
  <2>2. n.solver = p[1] /\ n.path = p[2] /\ p = <<p[1], p[2]>>
    BY <1>7 DEF ReportedAs, Pairs
  <2> HIDE DEF n
  <2>3. Reported' = Reported \cup {p}
    BY <1>4, <2>2 DEF Reported
  <2>4. Reported \cup DOMAIN jobs = Pairs /\ Reported \cap DOMAIN jobs = {}
    BY <1>1 DEF RunnerInv, ReportOK
  <2>5. Reported' \cup DOMAIN jobs' = Pairs' /\ Reported' \cap DOMAIN jobs' = {}
    BY <1>1, <1>5, <1>6, <2>3, <2>4
  <2>6. \A r \in rows : <<r.solver, r.path>> # p
    BY <1>1, <2>4 DEF Reported
  <2>7. \A r, s \in rows' : r.solver = s.solver /\ r.path = s.path => r = s
    BY <1>1, <1>4, <2>2, <2>6 DEF RunnerInv, ReportOK
  <2>8. OwnCerts(setup') => \A r \in rows' : OwnStatus(r)
    BY <1>3, <1>4, <2>1 DEF RunnerInv, ReportOK
  <2>9. QED
    BY <2>5, <2>7, <2>8 DEF ReportOK
<1>12. QED
  BY <1>8, <1>9, <1>10, <1>11 DEF RunnerInv

\* A run starts: what is not a row is a job.
LEMMA StartKeeps ==
    ASSUME RunnerInv, StartRun
    PROVE  RunnerInv'
<1>1. UNCHANGED <<setup, world, options>>
  BY DEF StartRun
<1>2. Pairs' = Pairs
  BY <1>1 DEF Pairs, Solvers, Instances
<1>3. /\ \A r \in rows' : \E p \in Skipped \cup Hits : StartRow(r, p)
      /\ \A p \in Skipped \cup Hits : \E r \in rows' : StartRow(r, p)
      /\ \A r, s \in rows' : r.solver = s.solver /\ r.path = s.path => r = s
      /\ jobs' = [p \in Pairs \ (Skipped \cup Hits) |-> NewJob(p[1], p[2])]
  BY StartFacts DEF RunnerInv
<1>4. WorldOK' /\ CacheOK'
  BY <1>1 DEF RunnerInv, WorldOK, CertFile, CacheOK, Pairs, Solvers, Instances, Programs, world
<1>5. DOMAIN jobs' = Pairs \ (Skipped \cup Hits)
      /\ \A p \in DOMAIN jobs' : jobs'[p] = NewJob(p[1], p[2])
  BY <1>3
<1>6. JobsOK'
  <2>1. DOMAIN jobs' \subseteq Pairs'
    BY <1>2, <1>5
  <2>2. ASSUME NEW p \in DOMAIN jobs'
        PROVE  JobOK(p, jobs[p])'
    <3>1. jobs'[p] = NewJob(p[1], p[2])
      BY <1>5, <2>2
    <3>2. IsJob(jobs'[p]) /\ jobs'[p].stage = "queued" /\ jobs'[p].status = None
      BY <3>1 DEF NewJob, IsJob
    <3>3. QED
      BY <3>2 DEF JobOK, OwnFile, OwnStatus, Stages
  <2>3. Busy' = {}
    BY <1>5 DEF Busy, NewJob
  <2>4. Cardinality(Busy') <= setup'.jobs
    BY <1>1, <2>3, SetupFacts, FS_EmptySet DEF RunnerInv
  <2>5. QED
    BY <2>1, <2>2, <2>4 DEF JobsOK
<1>7. ReportOK'
  <2>1. ASSUME NEW r \in rows', OwnCerts(setup)
        PROVE  OwnStatus(r)
    <3>1. PICK p \in Skipped \cup Hits : StartRow(r, p)
      BY <1>3, <2>1
    <3>2. CASE p \in Hits /\ r.got = cache[Key(p[1], p[2])].got
                          /\ r.status = cache[Key(p[1], p[2])].status
      <4>1. Key(p[1], p[2]) \in DOMAIN cache
        BY <3>2 DEF Hits, InCache
      <4>2. OwnStatus(cache[Key(p[1], p[2])])
        BY <2>1, <4>1 DEF RunnerInv, CacheOK
      <4>3. QED
        BY <3>2, <4>2 DEF OwnStatus
    <3>3. QED
      BY <3>1, <3>2 DEF StartRow, OwnStatus
  <2>2. \A p \in Skipped \cup Hits : p \in Pairs /\ p = <<p[1], p[2]>>
    BY DEF Skipped, Hits, Pairs
  <2>3. Reported' = Skipped \cup Hits
    <3>1. ASSUME NEW x \in Reported'
          PROVE  x \in Skipped \cup Hits
      <4>1. PICK r \in rows' : x = <<r.solver, r.path>>
        BY <3>1 DEF Reported
      <4>2. PICK p \in Skipped \cup Hits : StartRow(r, p)
        BY <1>3, <4>1
      <4>3. x = p
        BY <2>2, <4>1, <4>2 DEF StartRow
      <4>4. QED
        BY <4>2, <4>3
    <3>2. ASSUME NEW p \in Skipped \cup Hits
          PROVE  p \in Reported'
      <4>1. PICK r \in rows' : StartRow(r, p)
        BY <1>3, <3>2
      <4>2. p = <<r.solver, r.path>>
        BY <2>2, <3>2, <4>1 DEF StartRow
      <4>3. QED
        BY <4>1, <4>2 DEF Reported
    <3>3. QED
      BY <3>1, <3>2
  <2>4. Reported' \cup DOMAIN jobs' = Pairs' /\ Reported' \cap DOMAIN jobs' = {}
    BY <1>2, <1>5, <2>2, <2>3
  <2>5. QED
    BY <1>1, <1>3, <2>1, <2>4 DEF ReportOK
<1>8. QED
  BY <1>4, <1>6, <1>7 DEF RunnerInv

\* Initially there is no run, no job, no row and no cache.
LEMMA InitRunner == Init => RunnerInv
<1> SUFFICES ASSUME Init PROVE RunnerInv
  OBVIOUS
<1>1. DOMAIN cache = {} /\ DOMAIN jobs = {} /\ rows = {} /\ running = FALSE
  BY DEF Init
<1>2. WorldOK
  <2>1. (CHOOSE v \in Versions : TRUE) \in Versions
    BY VersionsAssumption
  <2>2. QED
    BY <2>1 DEF Init, WorldOK
<1>3. CacheOK /\ ReportOK
  BY <1>1 DEF CacheOK, ReportOK
<1>4. JobsOK
  <2>1. Busy = {}
    BY <1>1 DEF Busy
  <2>2. Cardinality(Busy) <= setup.jobs
    BY <1>2, <2>1, SetupFacts, FS_EmptySet
  <2>3. QED
    BY <1>1, <2>2 DEF JobsOK
<1>5. QED
  BY <1>2, <1>3, <1>4 DEF RunnerInv

\* Between two runs, and when a run ends or is killed, there is nothing to report.
LEMMA IdleKeeps ==
    ASSUME RunnerInv, Change \/ ChooseOptions \/ EndRun \/ Crash \/ UNCHANGED vars
    PROVE  RunnerInv'
<1>1. CASE UNCHANGED vars
  BY <1>1 DEF vars, world, options, RunnerInv, WorldOK, JobsOK, JobOK, OwnFile, CertFile, CacheOK, ReportOK,
     Busy, Reported, Pairs, Solvers, Instances, Programs
<1>2. CASE Change
  <2>1. content' \in [Instances -> Contents] /\ version' \in [Programs -> Versions]
    BY <1>2 DEF Change, RunnerInv, WorldOK
  <2>2. UNCHANGED <<setup, cache, certs, running, jobs, rows>> /\ ~ running
    BY <1>2 DEF Change
  <2>3. WorldOK'
    BY <2>1, <2>2 DEF RunnerInv, WorldOK, CertFile, Pairs, Solvers, Instances, Programs
  <2>4. JobsOK' /\ CacheOK' /\ ReportOK'
    BY <2>2 DEF RunnerInv, JobsOK, JobOK, OwnFile, CertFile, CacheOK, ReportOK, Busy, Pairs, Solvers, Instances
  <2>5. QED
    BY <2>3, <2>4 DEF RunnerInv
<1>3. CASE ChooseOptions
  <2>1. UNCHANGED <<setup, content, version, cache, certs, running, jobs, rows>> /\ ~ running
    BY <1>3 DEF ChooseOptions, world
  <2>2. QED
    BY <2>1 DEF RunnerInv, WorldOK, JobsOK, JobOK, OwnFile, CertFile, CacheOK, ReportOK, Busy, Reported, Pairs,
       Solvers, Instances, Programs
<1>4. CASE EndRun
  <2>1. UNCHANGED <<setup, content, version, cache, certs, jobs, rows>> /\ ~ running'
    BY <1>4 DEF EndRun, world
  <2>2. QED
    BY <2>1 DEF RunnerInv, WorldOK, JobsOK, JobOK, OwnFile, CertFile, CacheOK, ReportOK, Busy, Pairs,
       Solvers, Instances, Programs
<1>5. CASE Crash
  <2>1. UNCHANGED <<setup, content, version, cache, certs, rows>> /\ ~ running' /\ DOMAIN jobs' = {}
    BY <1>5 DEF Crash, world
  <2>2. WorldOK' /\ CacheOK' /\ ReportOK'
    BY <2>1 DEF RunnerInv, WorldOK, CertFile, CacheOK, ReportOK, Pairs, Solvers, Instances, Programs
  <2>3. Busy' = {}
    BY <2>1 DEF Busy
  <2>4. Cardinality(Busy') <= setup'.jobs
    BY <2>1, <2>3, SetupFacts, FS_EmptySet DEF RunnerInv
  <2>5. QED
    BY <2>1, <2>2, <2>4 DEF RunnerInv, JobsOK
<1>6. QED
  BY <1>1, <1>2, <1>3, <1>4, <1>5

\* Together.
LEMMA NextRunner == RunnerInv /\ [Next]_vars => RunnerInv'
<1> SUFFICES ASSUME RunnerInv, [Next]_vars PROVE RunnerInv'
  OBVIOUS
<1>1. CASE \E p \in Pairs : Collect(p)
  BY <1>1, CollectKeeps
<1>2. CASE \E p \in Pairs : IsWorking(p)
  BY <1>2, WorkerKeeps
<1>3. CASE StartRun
  BY <1>3, StartKeeps
<1>4. CASE Change \/ ChooseOptions \/ EndRun \/ Crash \/ UNCHANGED vars
  BY <1>4, IdleKeeps
<1>5. QED
  BY <1>1, <1>2, <1>3, <1>4 DEF Next, IsWorking

\* What RunnerInv says: as many rows as pairs are reported.
LEMMA OneRowEach ==
    ASSUME RunnerInv, running
    PROVE  Cardinality(rows) = Cardinality(Reported)
<1> DEFINE f == [r \in rows |-> <<r.solver, r.path>>]
<1>1. f \in [rows -> Reported]
  BY DEF Reported
<1>2. \A r, s \in rows : f[r] = f[s] => r = s
  BY DEF RunnerInv, ReportOK
<1>3. \A x \in Reported : \E r \in rows : f[r] = x
  BY DEF Reported
<1> HIDE DEF f
<1>4. f \in Bijection(rows, Reported)
  BY <1>1, <1>2, <1>3, Fun_IsInj, Fun_IsSurj DEF Bijection
<1>5. IsFiniteSet(Reported)
  BY SetupFacts, FS_Subset DEF RunnerInv, ReportOK
<1>6. ExistsBijection(Reported, rows)
  BY <1>4, Fun_ExistsBij, Fun_ExistsBijSymmetric
<1>7. QED
  BY <1>5, <1>6, FS_Bijection

-----------------------------------------------------------------------------
(* The theorems that ask nothing of the keys of the cache.                 *)

\* RunnerInv holds in every state.
THEOREM RunnerInvariant == Spec => []RunnerInv
BY InitRunner, NextRunner, PTL DEF Spec

\* The state is well formed and no more workers are busy than --jobs allows; nothing
\* is in the cache that a solver did not answer or that came from the cache.
THEOREM RunnerTypeCorrect == Spec => []TypeOK
<1>1. RunnerInv => TypeOK
  BY DEF RunnerInv, WorldOK, JobsOK, JobOK, CacheOK, TypeOK
<1>2. QED
  BY <1>1, RunnerInvariant, PTL

\* However workers interleave, whatever the cache holds and whenever the run before
\* was killed: each solver and instance is waited for or reported, once.
THEOREM NothingLostOrDoubled == Spec => []EachPairOnce
<1>1. RunnerInv => EachPairOnce
  BY OneRowEach DEF RunnerInv, ReportOK, EachPairOnce
<1>2. QED
  BY <1>1, RunnerInvariant, PTL

\* Where no two instances of a family have one stem, a certificate in the directory from
\* an earlier run or of another worker is never verified for the answer of this one, in
\* a row of this run or in one that the cache kept.
THEOREM CertificateIsOwn == Spec => []CertIsOwn
<1>1. RunnerInv => CertIsOwn
  BY DEF RunnerInv, WorldOK, ReportOK, OwnStatus, CertIsOwn
<1>2. QED
  BY <1>1, RunnerInvariant, PTL

-----------------------------------------------------------------------------
(* Where the key tells all that an answer depends on: every step keeps      *)
(* CurrentInv.                                                              *)

\* No certificate status is None.
NoneIsNoStatus == \A v, a : [by |-> v, of |-> a] # None

\* Two jobs that use one .aig are one job.
LEMMA AigOwned ==
    ASSUME RunnerInv, KeyTellsAll(setup), NEW p \in Pairs, NEW q \in Pairs,
           Aig(p) = Aig(q), setup.format[p[1]] = "aag", ~ NotAsked(p[1], p[2])
    PROVE  p = q
<1>1. p[1] = q[1] /\ setup.source[p[2]] = setup.source[q[2]] /\ setup.source[p[2]] # None
  BY DEF Aig, NotAsked
<1>2. /\ p[1] \in DOMAIN setup.format /\ p[2] \in DOMAIN setup.source /\ q[2] \in DOMAIN setup.source
      /\ p = <<p[1], p[2]>> /\ q = <<q[1], q[2]>>
  BY DEF Pairs, Solvers, Instances
<1>3. Converts(setup)
  BY <1>2 DEF Converts
<1>4. p[2] = q[2]
  BY <1>1, <1>2, <1>3 DEF KeyTellsAll
<1>5. QED
  BY <1>1, <1>2, <1>4

\* What a job reads when its solver starts is what it was asked.
LEMMA ReadsQuestion ==
    ASSUME RunnerInv, NEW p \in Pairs,
           setup.format[p[1]] = "aag" => aig[Aig(p)] = "full"
    PROVE  FileRead(p[1], p[2]) = Question(p[1], p[2])
<1>1. setup.format[p[1]] \in {"dqdimacs", "aag", "tlsf"}
  BY SetupsAssumption DEF RunnerInv, WorldOK, CertFile, Pairs, Solvers
<1>2. QED
  BY <1>1 DEF FileRead, Question, Aig

\* A job with these fields is current when the converted files are a.
Fits(p, a, s, k, g, b, t) ==
    /\ k = Key(p[1], p[2]) /\ ~ NotAsked(p[1], p[2])
    /\ g # None => g = Due(p[1], p[2])
    /\ s = "ready" /\ setup.format[p[1]] = "aag" => a[Aig(p)] = "full"
    /\ s \in {"converting", "writing"} => setup.format[p[1]] = "aag"
    /\ s \notin {"verifying", "done"} => ~ b
    /\ s = "done" /\ verify /\ b => t # None /\ t.by = verifierV

\* A job after a step of its worker, if its fields fit.
LEMMA StillCurrent ==
    ASSUME NEW p, NEW s, NEW g, NEW b, NEW t, NEW k, jobs'[p] = Job(s, k, g, b, t),
           UNCHANGED <<setup, content, version, verifierV, options>>,
           Fits(p, aig', s, k, g, b, t)
    PROVE  JobCurrent(p, jobs[p])'
<1>1. /\ jobs'[p].stage = s /\ jobs'[p].key = k /\ jobs'[p].got = g /\ jobs'[p].status = t
  BY DEF Job
<1>2. jobs'[p].cert = b
  BY DEF Job
<1>3. Key(p[1], p[2])' = Key(p[1], p[2]) /\ NotAsked(p[1], p[2])' = NotAsked(p[1], p[2])
  BY DEF Key, NotAsked, options
<1>4. Due(p[1], p[2])' = Due(p[1], p[2])
  BY DEF Due, Answer, Question, options
<1>5. Aig(p)' = Aig(p) /\ verify' = verify
  BY DEF Aig, options
<1>6. QED
  BY <1>1, <1>2, <1>3, <1>4, <1>5 DEF JobCurrent, Fits

\* The jobs of other workers, the cache and the report stay current with them.
LEMMA OthersCurrent ==
    ASSUME RunnerInv, CurrentInv, NEW p \in Pairs, NEW j, Works(p, j), p \in DOMAIN jobs,
           JobCurrent(p, jobs[p])', AigOK',
           \A q \in Pairs : /\ q # p /\ setup.format[q[1]] = "aag" /\ ~ NotAsked(q[1], q[2])
                            /\ aig[Aig(q)] = "full"
                            => aig'[Aig(q)] = "full"
    PROVE  CurrentInv'
<1>1. UNCHANGED <<setup, content, version, verifierV, cache, running, options, rows>>
      /\ DOMAIN jobs' = DOMAIN jobs
  BY DEF Works
<1>2. \A q \in DOMAIN jobs : q # p => jobs'[q] = jobs[q]
  BY DEF Works
<1>3. verify' = verify /\ timeout' = timeout
  BY <1>1 DEF options
<1>4. ASSUME NEW q \in DOMAIN jobs'
      PROVE  JobCurrent(q, jobs[q])'
  <2>1. CASE q = p
    BY <2>1
  <2>2. CASE q # p
    <3>1. q \in Pairs /\ q \in DOMAIN jobs /\ jobs'[q] = jobs[q]
      BY <1>1, <1>2, <1>4, <2>2 DEF RunnerInv, JobsOK
    <3>2. JobCurrent(q, jobs[q])
      BY <3>1 DEF CurrentInv
    <3>3. Key(q[1], q[2])' = Key(q[1], q[2]) /\ NotAsked(q[1], q[2])' = NotAsked(q[1], q[2])
      BY <1>1, <1>3 DEF Key, NotAsked
    <3>4. Due(q[1], q[2])' = Due(q[1], q[2])
      BY <1>1, <1>3 DEF Due, Answer, Question
    <3>5. Aig(q)' = Aig(q)
      BY <1>1 DEF Aig
    <3>6. QED
      BY <1>1, <1>3, <2>2, <3>1, <3>2, <3>3, <3>4, <3>5 DEF JobCurrent
  <2>3. QED
    BY <2>1, <2>2
<1>5. \A k \in DOMAIN cache' : RowCurrent(k, cache[k])'
  BY <1>1, <1>3 DEF CurrentInv, RowCurrent, KeyAnswer, Solvers, Instances
<1>6. RowsCurrent'
  BY <1>1, <1>3 DEF CurrentInv, RowsCurrent, Due, Answer, Question, AskedInverted
<1>7. /\ verify' \in setup'.verify
      /\ ~ running' => DOMAIN jobs' = {}
      /\ ByContents(setup') => \A it, jt \in Instances' : it # jt => content'[it] # content'[jt]
  BY <1>1, <1>3 DEF CurrentInv, ByContents, ReadsSources, Instances
<1>8. QED
  BY <1>4, <1>5, <1>6, <1>7 DEF CurrentInv

\* A file that is not being written stays not so when nobody opens it.
LEMMA AigStays ==
    ASSUME AigOK, NEW p \in DOMAIN jobs, NEW j, Works(p, j), aig' = aig, jobs[p].stage # "writing"
    PROVE  AigOK'
<1>1. DOMAIN aig' = Solvers' \X {setup'.source[it] : it \in Instances'}
  BY DEF AigOK, Works, Solvers, Instances
<1>2. ASSUME NEW x \in DOMAIN aig', aig'[x] = "partial"
      PROVE  \E q \in DOMAIN jobs' : jobs'[q].stage = "writing" /\ Aig(q)' = x
  <2>1. PICK q \in DOMAIN jobs : jobs[q].stage = "writing" /\ Aig(q) = x
    BY <1>2 DEF AigOK
  <2>2. q # p /\ q \in DOMAIN jobs' /\ jobs'[q] = jobs[q]
    BY <2>1 DEF Works
  <2>3. Aig(q)' = Aig(q)
    BY DEF Aig, Works
  <2>4. QED
    BY <2>1, <2>2, <2>3
<1>3. \A x \in DOMAIN aig' : aig'[x] \in {"absent", "partial", "full"}
  BY DEF AigOK
<1>4. QED
  BY <1>1, <1>2, <1>3 DEF AigOK

\* A worker takes a job: the .aig it would use is absent, or nobody is writing it.
LEMMA TakeCurrent ==
    ASSUME RunnerInv, CurrentInv, KeyTellsAll(setup), NEW p \in Pairs, TakeJob(p)
    PROVE  CurrentInv'
<1> DEFINE j == jobs[p]
           s == NextStage(p)
<1>1. p \in DOMAIN jobs /\ j.stage = "queued" /\ JobCurrent(p, j) /\ AigOK
  BY DEF TakeJob, Moves, CurrentInv
<1>2. Works(p, Job(s, j.key, j.got, j.cert, j.status))
  BY WorkerSteps
     DEF RunnerInv, IsWorking, TakeJob, OpenAig, CloseAig, RefusePath, Launch, SolverExits, VerifyOne, Moves
<1>3. aig' = aig
  BY DEF TakeJob
<1>4. s = IF NoSource(p) THEN "done" ELSE IF NeedsConversion(p) THEN "converting" ELSE "ready"
  BY <1>1 DEF NextStage
<1>5. s = "converting" => setup.format[p[1]] = "aag"
  BY <1>4 DEF NeedsConversion
<1>6. ~ NotAsked(p[1], p[2]) /\ ~ j.cert /\ j.key = Key(p[1], p[2])
  BY <1>1 DEF JobCurrent
<1>7. ASSUME s = "ready", setup.format[p[1]] = "aag"
      PROVE  aig'[Aig(p)] = "full"
  <2>1. aig[Aig(p)] # "absent"
    BY <1>4, <1>7 DEF NeedsConversion
  <2>2. Aig(p) \in DOMAIN aig
    BY <1>1 DEF AigOK, Aig, Pairs
  <2>3. aig[Aig(p)] # "partial"
    <3>1. SUFFICES ASSUME aig[Aig(p)] = "partial" PROVE FALSE
      OBVIOUS
    <3>2. PICK q \in DOMAIN jobs : jobs[q].stage = "writing" /\ Aig(q) = Aig(p)
      BY <1>1, <2>2, <3>1 DEF AigOK
    <3>3. q \in Pairs
      BY DEF RunnerInv, JobsOK
    <3>4. p = q
      BY <1>6, <1>7, <3>2, <3>3, AigOwned
    <3>5. QED
      BY <1>1, <3>2, <3>4
  <2>4. QED
    BY <1>1, <1>3, <2>1, <2>2, <2>3 DEF AigOK
<1>8. j.got # None => j.got = Due(p[1], p[2])
  BY <1>1 DEF JobCurrent
<1>9. jobs'[p] = Job(s, j.key, j.got, j.cert, j.status)
  BY <1>1, <1>2 DEF Works
<1>10. UNCHANGED <<setup, content, version, verifierV, options>>
  BY <1>2 DEF Works
<1>11. s \in {"done", "converting", "ready"}
  BY <1>4
<1>12. JobCurrent(p, jobs[p])'
  <2> HIDE DEF j, s
  <2>1. Fits(p, aig', s, j.key, j.got, j.cert, j.status)
    BY <1>5, <1>6, <1>7, <1>8, <1>11 DEF Fits
  <2>2. QED
    BY <1>9, <1>10, <2>1, StillCurrent
<1>13. AigOK'
  BY <1>1, <1>2, <1>3, AigStays
<1>14. QED
  BY <1>1, <1>2, <1>3, <1>12, <1>13, OthersCurrent

\* aigtoaig opens the .aig, or has written it: no other job uses it.
LEMMA ConvertCurrent ==
    ASSUME RunnerInv, CurrentInv, KeyTellsAll(setup), NEW p \in Pairs, OpenAig(p) \/ CloseAig(p)
    PROVE  CurrentInv'
<1> DEFINE j == jobs[p]
           s == NextStage(p)
           state == IF s = "writing" THEN "partial" ELSE "full"
<1>1. p \in DOMAIN jobs /\ j.stage \in {"converting", "writing"} /\ JobCurrent(p, j) /\ AigOK
  BY DEF OpenAig, CloseAig, Moves, CurrentInv
<1>2. Works(p, Job(s, j.key, j.got, j.cert, j.status))
  BY WorkerSteps
     DEF RunnerInv, IsWorking, TakeJob, OpenAig, CloseAig, RefusePath, Launch, SolverExits, VerifyOne, Moves
<1>3. s \in {"writing", "ready"} /\ aig' = [aig EXCEPT ![Aig(p)] = state]
  BY <1>1 DEF OpenAig, CloseAig, Moves, NextStage
<1>4. /\ ~ NotAsked(p[1], p[2]) /\ ~ j.cert /\ j.key = Key(p[1], p[2])
      /\ setup.format[p[1]] = "aag"
      /\ j.got # None => j.got = Due(p[1], p[2])
  BY <1>1 DEF JobCurrent
<1>5. Aig(p) \in DOMAIN aig
  BY <1>1 DEF AigOK, Aig, Pairs
<1>6. jobs'[p] = Job(s, j.key, j.got, j.cert, j.status)
  BY <1>1, <1>2 DEF Works
<1>7. UNCHANGED <<setup, content, version, verifierV, options>>
  BY <1>2 DEF Works
<1>8. s = "ready" => aig'[Aig(p)] = "full"
  BY <1>3, <1>5
<1>9. JobCurrent(p, jobs[p])'
  <2>1. s \in {"writing", "ready"}
    BY <1>3
  <2> HIDE DEF j, s
  <2>2. Fits(p, aig', s, j.key, j.got, j.cert, j.status)
    BY <1>4, <1>8, <2>1 DEF Fits
  <2>3. QED
    BY <1>6, <1>7, <2>2, StillCurrent
<1>10. AigOK'
  <2>1. DOMAIN aig' = Solvers' \X {setup'.source[it] : it \in Instances'}
    BY <1>1, <1>3, <1>7 DEF AigOK, Solvers, Instances
  <2>2. \A x \in DOMAIN aig' : aig'[x] \in {"absent", "partial", "full"}
    BY <1>1, <1>3 DEF AigOK
  <2>3. ASSUME NEW x \in DOMAIN aig', aig'[x] = "partial"
        PROVE  \E q \in DOMAIN jobs' : jobs'[q].stage = "writing" /\ Aig(q)' = x
    <3>1. CASE x = Aig(p)
      <4>1. s = "writing"
        BY <1>3, <1>5, <2>3, <3>1
      <4>2. jobs'[p].stage = "writing" /\ Aig(p)' = x /\ p \in DOMAIN jobs'
        BY <1>1, <1>2, <1>6, <1>7, <3>1, <4>1 DEF Job, Aig, Works
      <4>3. QED
        BY <4>2
    <3>2. CASE x # Aig(p)
      <4>1. aig[x] = "partial" /\ x \in DOMAIN aig
        BY <1>3, <2>3, <3>2
      <4>2. PICK q \in DOMAIN jobs : jobs[q].stage = "writing" /\ Aig(q) = x
        BY <1>1, <4>1 DEF AigOK
      <4>3. q # p /\ q \in DOMAIN jobs' /\ jobs'[q] = jobs[q]
        BY <1>2, <3>2, <4>2 DEF Works
      <4>4. Aig(q)' = Aig(q)
        BY <1>7 DEF Aig
      <4>5. QED
        BY <4>2, <4>3, <4>4
    <3>3. QED
      BY <3>1, <3>2
  <2>4. QED
    BY <2>1, <2>2, <2>3 DEF AigOK
<1>11. ASSUME NEW q \in Pairs, q # p, setup.format[q[1]] = "aag", ~ NotAsked(q[1], q[2]),
              aig[Aig(q)] = "full"
       PROVE  aig'[Aig(q)] = "full"
  <2>1. Aig(q) # Aig(p)
    BY <1>11, AigOwned
  <2>2. QED
    BY <1>3, <1>11, <2>1
<1>12. QED
  BY <1>1, <1>2, <1>9, <1>10, <1>11, OthersCurrent

\* The path is refused.
LEMMA RefuseCurrent ==
    ASSUME RunnerInv, CurrentInv, NEW p \in Pairs, RefusePath(p)
    PROVE  CurrentInv'
<1> DEFINE j == jobs[p]
<1>1. p \in DOMAIN jobs /\ j.stage = "ready" /\ JobCurrent(p, j) /\ AigOK /\ aig' = aig
  BY DEF RefusePath, CurrentInv, world
<1>2. Works(p, Job("done", j.key, Error, j.cert, j.status))
  BY WorkerSteps
     DEF RunnerInv, IsWorking, TakeJob, OpenAig, CloseAig, RefusePath, Launch, SolverExits, VerifyOne, Moves
<1>3. ~ NotAsked(p[1], p[2]) /\ ~ j.cert /\ j.key = Key(p[1], p[2])
  BY <1>1 DEF JobCurrent
<1>4. Due(p[1], p[2]) = Error
  BY DEF RefusePath, Due
<1>5. jobs'[p] = Job("done", j.key, Error, j.cert, j.status)
  BY <1>1, <1>2 DEF Works
<1>6. UNCHANGED <<setup, content, version, verifierV, options>>
  BY <1>2 DEF Works
<1>7. JobCurrent(p, jobs[p])'
  <2> HIDE DEF j
  <2>1. Fits(p, aig', "done", j.key, Error, j.cert, j.status)
    BY <1>3, <1>4 DEF Fits
  <2>2. QED
    BY <1>5, <1>6, <2>1, StillCurrent
<1>8. AigOK'
  BY <1>1, <1>2, AigStays
<1>9. QED
  BY <1>1, <1>2, <1>7, <1>8, OthersCurrent

\* The solver starts: it reads the file that the answer is asked for.
LEMMA LaunchCurrent ==
    ASSUME RunnerInv, CurrentInv, NEW p \in Pairs, Launch(p)
    PROVE  CurrentInv'
<1> DEFINE j == jobs[p]
           a == Answer(p[1], FileRead(p[1], p[2]))
<1>1. p \in DOMAIN jobs /\ j.stage = "ready" /\ JobCurrent(p, j) /\ AigOK /\ aig' = aig
  BY DEF Launch, CurrentInv
<1>2. Works(p, Job("solving", j.key, a, j.cert, j.status))
  BY WorkerSteps
     DEF RunnerInv, IsWorking, TakeJob, OpenAig, CloseAig, RefusePath, Launch, SolverExits, VerifyOne, Moves
<1>3. ~ NotAsked(p[1], p[2]) /\ ~ j.cert /\ j.key = Key(p[1], p[2])
  BY <1>1 DEF JobCurrent
<1>4. a = Due(p[1], p[2])
  <2>1. FileRead(p[1], p[2]) = Question(p[1], p[2])
    BY <1>1, ReadsQuestion DEF JobCurrent
  <2>2. QED
    BY <2>1 DEF Due, Launch
<1>5. jobs'[p] = Job("solving", j.key, a, j.cert, j.status)
  BY <1>1, <1>2 DEF Works
<1>6. UNCHANGED <<setup, content, version, verifierV, options>>
  BY <1>2 DEF Works
<1>7. JobCurrent(p, jobs[p])'
  <2> HIDE DEF j, a
  <2>1. Fits(p, aig', "solving", j.key, a, j.cert, j.status)
    BY <1>3, <1>4 DEF Fits
  <2>2. QED
    BY <1>5, <1>6, <2>1, StillCurrent
<1>8. AigOK'
  BY <1>1, <1>2, AigStays
<1>9. QED
  BY <1>1, <1>2, <1>7, <1>8, OthersCurrent

\* The solver answers.
LEMMA ExitCurrent ==
    ASSUME RunnerInv, CurrentInv, NEW p \in Pairs, SolverExits(p)
    PROVE  CurrentInv'
<1> DEFINE j == jobs[p]
           b == certs'[CertFile(p)] # None
<1>1. p \in DOMAIN jobs /\ j.stage = "solving" /\ JobCurrent(p, j) /\ AigOK /\ aig' = aig
  BY DEF SolverExits, CurrentInv
<1>2. Works(p, Job("verifying", j.key, j.got, b, j.status))
  BY WorkerSteps
     DEF RunnerInv, IsWorking, TakeJob, OpenAig, CloseAig, RefusePath, Launch, SolverExits, VerifyOne, Moves
<1>3. /\ ~ NotAsked(p[1], p[2]) /\ j.key = Key(p[1], p[2])
      /\ j.got # None => j.got = Due(p[1], p[2])
  BY <1>1 DEF JobCurrent
<1>4. jobs'[p] = Job("verifying", j.key, j.got, b, j.status)
  BY <1>1, <1>2 DEF Works
<1>5. UNCHANGED <<setup, content, version, verifierV, options>>
  BY <1>2 DEF Works
<1>6. JobCurrent(p, jobs[p])'
  <2> HIDE DEF j, b
  <2>1. Fits(p, aig', "verifying", j.key, j.got, b, j.status)
    BY <1>3 DEF Fits
  <2>2. QED
    BY <1>4, <1>5, <2>1, StillCurrent
<1>7. AigOK'
  BY <1>1, <1>2, AigStays
<1>8. QED
  BY <1>1, <1>2, <1>6, <1>7, OthersCurrent

\* Its certificate is verified, by the verifier that is installed.
LEMMA VerifyCurrent ==
    ASSUME NoneIsNoStatus, RunnerInv, CurrentInv, NEW p \in Pairs, VerifyOne(p)
    PROVE  CurrentInv'
<1> DEFINE j == jobs[p]
           status == IF verify /\ j.cert THEN [by |-> verifierV, of |-> certs[CertFile(p)]] ELSE None
<1>1. p \in DOMAIN jobs /\ j.stage = "verifying" /\ JobCurrent(p, j) /\ AigOK /\ aig' = aig
  BY DEF VerifyOne, CurrentInv, world
<1>2. Works(p, Job("done", j.key, j.got, j.cert, status))
  BY WorkerSteps
     DEF RunnerInv, IsWorking, TakeJob, OpenAig, CloseAig, RefusePath, Launch, SolverExits, VerifyOne, Moves
<1>3. /\ ~ NotAsked(p[1], p[2]) /\ j.key = Key(p[1], p[2])
      /\ j.got # None => j.got = Due(p[1], p[2])
  BY <1>1 DEF JobCurrent
<1>4. jobs'[p] = Job("done", j.key, j.got, j.cert, status)
  BY <1>1, <1>2 DEF Works
<1>5. UNCHANGED <<setup, content, version, verifierV, options>>
  BY <1>2 DEF Works
<1>6. verify /\ j.cert => status # None /\ status.by = verifierV
  BY DEF NoneIsNoStatus
<1>7. JobCurrent(p, jobs[p])'
  <2> HIDE DEF j, status
  <2>1. Fits(p, aig', "done", j.key, j.got, j.cert, status)
    BY <1>3, <1>6 DEF Fits
  <2>2. QED
    BY <1>4, <1>5, <2>1, StillCurrent
<1>8. AigOK'
  BY <1>1, <1>2, AigStays
<1>9. QED
  BY <1>1, <1>2, <1>7, <1>8, OthersCurrent

\* A hit answers the question of the pair that hits.
LEMMA HitIsCurrent ==
    ASSUME RunnerInv, CurrentInv, KeyTellsAll(setup), NEW p \in Pairs, InCache(p[1], p[2])
    PROVE  LET c == cache[Key(p[1], p[2])] IN
           /\ c.got = Due(p[1], p[2]) /\ c.inverted = FALSE
           /\ verify /\ c.cert => c.status # None /\ c.status.by = verifierV
<1> DEFINE k == Key(p[1], p[2])
           c == cache[k]
<1>1. RowCurrent(k, c)
  BY DEF InCache, CurrentInv
<1>2. p[1] \in Solvers /\ p[2] \in Instances
  BY DEF Pairs
<1>3. /\ k.program = setup.program[p[1]] /\ k.instance = content[p[2]] /\ k.timeout = timeout
      /\ k.code = version[setup.program[p[1]]]
  <2>1. setup.python = {}
    BY DEF KeyTellsAll
  <2>2. QED
    BY <2>1 DEF Key
<1> HIDE DEF k, c
<1>4. PICK sv \in Solvers, it \in Instances :
          /\ setup.program[sv] = k.program
          /\ setup.format[sv] # "dqdimacs" \/ setup.refused # {} => content[it] = k.instance
          /\ c.got = KeyAnswer(k, sv, it)
  BY <1>1 DEF RowCurrent
<1>5. c.inverted = FALSE /\ (verify /\ c.cert => c.status # None /\ c.status.by = verifierV)
  BY <1>1 DEF RowCurrent
<1>6. setup.format[sv] = setup.format[p[1]]
  BY <1>2, <1>3, <1>4 DEF KeyTellsAll, Solvers
<1>7. CASE setup.format[sv] = "dqdimacs" /\ setup.refused = {}
  <2>1. c.got = Answer(p[1], Question(p[1], p[2]))
    BY <1>3, <1>4, <1>6, <1>7 DEF KeyAnswer, Question, Answer
  <2>2. QED
    BY <1>7, <1>5, <2>1 DEF Due, k, c
<1>8. CASE setup.format[sv] # "dqdimacs" \/ setup.refused # {}
  <2>1. ByContents(setup)
    BY <1>8 DEF ByContents, ReadsSources, Solvers
  <2>2. content[it] = content[p[2]]
    BY <1>3, <1>4, <1>8
  <2>3. it = p[2]
    BY <1>2, <2>1, <2>2 DEF CurrentInv
  <2>4. c.got = Due(p[1], p[2])
    BY <1>3, <1>4, <1>6, <2>3 DEF KeyAnswer, Due, Question, Answer
  <2>5. QED
    BY <1>5, <2>4 DEF k, c
<1>9. QED
  BY <1>7, <1>8

\* A run starts with the hits.
LEMMA StartCurrent ==
    ASSUME RunnerInv, CurrentInv, KeyTellsAll(setup), StartRun
    PROVE  CurrentInv'
<1>1. UNCHANGED <<setup, content, version, verifierV, cache, aig, timeout, verify>> /\ running'
      /\ ~ running
  BY DEF StartRun, world, options
<1>2. /\ \A r \in rows' : \E p \in Skipped \cup Hits : StartRow(r, p)
      /\ jobs' = [p \in Pairs \ (Skipped \cup Hits) |-> NewJob(p[1], p[2])]
  BY StartFacts DEF RunnerInv
<1>3. ASSUME NEW p \in DOMAIN jobs'
      PROVE  JobCurrent(p, jobs[p])'
  <2>1. p \in Pairs /\ p \notin Skipped /\ jobs'[p] = NewJob(p[1], p[2])
    BY <1>2, <1>3
  <2>2. ~ NotAsked(p[1], p[2])
    BY <2>1 DEF Skipped
  <2>3. /\ jobs'[p].stage = "queued" /\ jobs'[p].key = Key(p[1], p[2]) /\ jobs'[p].got = None
        /\ ~ jobs'[p].cert
    BY <2>1 DEF NewJob
  <2>4. Key(p[1], p[2])' = Key(p[1], p[2]) /\ NotAsked(p[1], p[2])' = NotAsked(p[1], p[2])
    BY <1>1 DEF Key, NotAsked
  <2>5. QED
    BY <2>2, <2>3, <2>4 DEF JobCurrent
<1>4. AigOK'
  <2>1. AigOK /\ DOMAIN jobs = {}
    BY <1>1 DEF CurrentInv
  <2>2. \A x \in DOMAIN aig : aig[x] # "partial"
    BY <2>1 DEF AigOK
  <2>3. QED
    BY <1>1, <2>1, <2>2 DEF AigOK, Solvers, Instances
<1>5. \A k \in DOMAIN cache' : RowCurrent(k, cache[k])'
  BY <1>1 DEF CurrentInv, RowCurrent, KeyAnswer, Solvers, Instances
<1>6. ASSUME NEW r \in rows'
      PROVE  /\ r.got # None => /\ r.got = Due(r.solver, r.path)
                                /\ r.inverted = AskedInverted(r.solver, r.path)
             /\ verify /\ r.cert => r.status # None /\ r.status.by = verifierV
  <2>1. PICK p \in Skipped \cup Hits : StartRow(r, p)
    BY <1>2, <1>6
  <2>2. p \in Pairs
    BY DEF Skipped, Hits
  <2>3. CASE p \in Hits
    <3> DEFINE c == cache[Key(p[1], p[2])]
    <3>1. /\ c.got = Due(p[1], p[2]) /\ c.inverted = FALSE
          /\ verify /\ c.cert => c.status # None /\ c.status.by = verifierV
      BY <2>2, <2>3, HitIsCurrent DEF Hits
    <3>2. p \notin Skipped
      BY <2>3 DEF Hits
    <3>3. /\ r.solver = p[1] /\ r.path = p[2] /\ r.got = c.got /\ r.cert = c.cert
          /\ r.status = c.status /\ r.inverted = AskedInverted(p[1], p[2])
      BY <2>1, <3>1, <3>2 DEF StartRow
    <3> HIDE DEF c
    <3>4. QED
      BY <3>1, <3>3
  <2>4. CASE p \notin Hits
    <3>1. r.got = None /\ r.cert = FALSE
      BY <2>1, <2>4 DEF StartRow
    <3>2. QED
      BY <3>1
  <2>5. QED
    BY <2>3, <2>4
<1>7. RowsCurrent'
  BY <1>1, <1>6 DEF RowsCurrent, Due, Answer, Question, AskedInverted
<1>8. /\ verify' \in setup'.verify
      /\ ~ running' => DOMAIN jobs' = {}
      /\ ByContents(setup') => \A it, jt \in Instances' : it # jt => content'[it] # content'[jt]
  BY <1>1 DEF CurrentInv, ByContents, ReadsSources, Instances
<1>9. QED
  BY <1>3, <1>4, <1>5, <1>7, <1>8 DEF CurrentInv

\* The pool hands a job back: its row is reported, and stored under its key.
LEMMA CollectCurrent ==
    ASSUME RunnerInv, CurrentInv, KeyTellsAll(setup), NEW p \in Pairs, Collect(p)
    PROVE  CurrentInv'
<1> DEFINE j == jobs[p]
           n == Normalise(JobRow(p), p[1], p[2])
           sr == StoredRow(p)
<1>1. p \in DOMAIN jobs /\ j.stage = "done" /\ running /\ JobCurrent(p, j)
  BY DEF Collect, CurrentInv
<1>2. UNCHANGED <<setup, content, version, verifierV, aig, running, timeout, verify>>
  BY DEF Collect, options
<1>3. /\ DOMAIN jobs' = DOMAIN jobs \ {p} /\ \A q \in DOMAIN jobs' : jobs'[q] = jobs[q]
      /\ rows' = rows \cup {n}
  BY DEF Collect
<1>4. /\ j.key = Key(p[1], p[2])
      /\ j.got # None => j.got = Due(p[1], p[2])
      /\ verify /\ j.cert => j.status # None /\ j.status.by = verifierV
  BY <1>1 DEF JobCurrent
<1>5. \A q \in DOMAIN jobs' : JobCurrent(q, jobs[q])'
  BY <1>2, <1>3 DEF CurrentInv, JobCurrent, Key, NotAsked, Due, Answer, Question, Aig
<1>6. AigOK'
  <2>1. AigOK
    BY DEF CurrentInv
  <2>2. ASSUME NEW x \in DOMAIN aig', aig'[x] = "partial"
        PROVE  \E q \in DOMAIN jobs' : jobs'[q].stage = "writing" /\ Aig(q)' = x
    <3>1. PICK q \in DOMAIN jobs : jobs[q].stage = "writing" /\ Aig(q) = x
      BY <1>2, <2>1, <2>2 DEF AigOK
    <3>2. q \in DOMAIN jobs' /\ jobs'[q] = jobs[q] /\ Aig(q)' = Aig(q)
      BY <1>1, <1>2, <1>3, <3>1 DEF Aig
    <3>3. QED
      BY <3>1, <3>2
  <2>3. QED
    BY <1>2, <2>1, <2>2 DEF AigOK, Solvers, Instances
<1>7. \A k \in DOMAIN cache' : RowCurrent(k, cache[k])'
  <2>1. sr = Row(p[1], p[2], j.got, FALSE, j.cert, j.status, FALSE)
    BY JobRowFields DEF StoredRow
  <2>2. j.got # None => RowCurrent(j.key, sr)
    <3>1. sr.inverted = FALSE /\ sr.got = j.got /\ sr.cert = j.cert /\ sr.status = j.status
      BY <2>1 DEF Row
    <3>2. SUFFICES ASSUME j.got # None PROVE RowCurrent(j.key, sr)
      OBVIOUS
    <3>3. p[1] \in Solvers /\ p[2] \in Instances
      BY DEF Pairs
    <3>4. setup.python = {}
      BY DEF KeyTellsAll
    <3>5. /\ setup.program[p[1]] = j.key.program /\ content[p[2]] = j.key.instance
          /\ j.key.timeout = timeout /\ j.key.code = version[setup.program[p[1]]]
      BY <1>4, <3>4 DEF Key
    <3>6. j.got = KeyAnswer(j.key, p[1], p[2])
      BY <1>4, <3>2, <3>5 DEF KeyAnswer, Due, Answer, Question
    <3> HIDE DEF j, sr
    <3>7. QED
      BY <1>4, <3>1, <3>3, <3>5, <3>6 DEF RowCurrent
  <2>3. ASSUME NEW k \in DOMAIN cache'
        PROVE  (j.got # None /\ k = j.key /\ cache'[k] = sr) \/ (k \in DOMAIN cache /\ cache'[k] = cache[k])
    BY <2>3 DEF Collect, IsStored
  <2> HIDE DEF j, sr
  <2>4. ASSUME NEW k \in DOMAIN cache'
        PROVE  RowCurrent(k, cache'[k])
    BY <2>2, <2>3 DEF CurrentInv
  <2>5. QED
    BY <1>2, <2>4 DEF RowCurrent, KeyAnswer, Solvers, Instances
<1>8. RowsCurrent'
  <2>1. ReportedAs(n, p[1], p[2], j.got, j.cert, j.status, FALSE)
    BY JobRowFields
  <2> HIDE DEF n, j
  <2>2. /\ n.got # None => /\ n.got = Due(n.solver, n.path)
                           /\ n.inverted = AskedInverted(n.solver, n.path)
        /\ verify /\ n.cert => n.status # None /\ n.status.by = verifierV
    BY <1>4, <2>1 DEF ReportedAs
  <2>3. \A r \in rows' :
           /\ r.got # None => /\ r.got = Due(r.solver, r.path)
                              /\ r.inverted = AskedInverted(r.solver, r.path)
           /\ verify /\ r.cert => r.status # None /\ r.status.by = verifierV
    BY <1>1, <1>3, <2>2 DEF CurrentInv, RowsCurrent
  <2>4. QED
    BY <1>2, <2>3 DEF RowsCurrent, Due, Answer, Question, AskedInverted
<1>9. /\ verify' \in setup'.verify
      /\ ~ running' => DOMAIN jobs' = {}
      /\ ByContents(setup') => \A it, jt \in Instances' : it # jt => content'[it] # content'[jt]
  BY <1>1, <1>2 DEF CurrentInv, ByContents, ReadsSources, Instances
<1>10. QED
  BY <1>5, <1>6, <1>7, <1>8, <1>9 DEF CurrentInv

\* Initially nothing has been answered.
LEMMA InitCurrent == Init /\ KeyTellsAll(setup) => CurrentInv
<1> SUFFICES ASSUME Init, KeyTellsAll(setup) PROVE CurrentInv
  OBVIOUS
<1>1. DOMAIN cache = {} /\ DOMAIN jobs = {} /\ running = FALSE /\ verify \in setup.verify
  BY DEF Init
<1>2. AigOK
  BY DEF Init, AigOK
<1>3. ByContents(setup) => \A it, jt \in Instances : it # jt => content[it] # content[jt]
  BY DEF Init, KeyTellsAll
<1>4. RowsCurrent
  BY <1>1 DEF RowsCurrent
<1>5. QED
  BY <1>1, <1>2, <1>3, <1>4 DEF CurrentInv

\* Between two runs what changes is in the keys, or does not matter.
LEMMA ChangeCurrent ==
    ASSUME RunnerInv, CurrentInv, KeyTellsAll(setup), Change
    PROVE  CurrentInv'
<1>1. UNCHANGED <<setup, cache, aig, running, timeout, verify, jobs>> /\ ~ running
  BY DEF Change, options
<1>2. DOMAIN jobs = {}
  BY <1>1 DEF CurrentInv
<1>3. ByContents(setup) => content' = content
  BY DEF Change, KeyTellsAll
<1>4. verify => verifierV' = verifierV
  <2>1. "verifier" \in setup.changes => TRUE \notin setup.verify
    BY DEF KeyTellsAll
  <2>2. verify \in BOOLEAN /\ verify \in setup.verify
    BY SetupsAssumption DEF CurrentInv, RunnerInv, WorldOK
  <2>3. "verifier" \in setup.changes => ~ verify
    BY <2>1, <2>2
  <2>4. QED
    BY <2>3 DEF Change
<1>5. ASSUME NEW k \in DOMAIN cache'
      PROVE  RowCurrent(k, cache[k])'
  <2>1. RowCurrent(k, cache[k]) /\ cache'[k] = cache[k]
    BY <1>1, <1>5 DEF CurrentInv
  <2>2. verify' /\ cache'[k].cert => cache'[k].status # None /\ cache'[k].status.by = verifierV'
    BY <1>1, <1>4, <2>1 DEF RowCurrent
  <2>3. PICK sv \in Solvers, it \in Instances :
          /\ setup.program[sv] = k.program
          /\ setup.format[sv] # "dqdimacs" \/ setup.refused # {} => content[it] = k.instance
          /\ cache[k].got = KeyAnswer(k, sv, it)
    BY <2>1 DEF RowCurrent
  <2>4. /\ setup.format[sv] # "dqdimacs" \/ setup.refused # {} => content'[it] = k.instance
        /\ KeyAnswer(k, sv, it)' = KeyAnswer(k, sv, it)
    BY <1>1, <1>3, <2>3 DEF ByContents, ReadsSources, Solvers, KeyAnswer
  <2>5. sv \in Solvers' /\ it \in Instances'
    BY <1>1 DEF Solvers, Instances
  <2>6. cache'[k].inverted = FALSE
    BY <2>1 DEF RowCurrent
  <2>7. QED
    BY <1>1, <2>1, <2>2, <2>3, <2>4, <2>5, <2>6 DEF RowCurrent
<1>6. AigOK'
  BY <1>1 DEF CurrentInv, AigOK, Solvers, Instances, Aig
<1>7. RowsCurrent' /\ \A p \in DOMAIN jobs' : JobCurrent(p, jobs[p])'
  BY <1>1, <1>2 DEF RowsCurrent
<1>8. /\ verify' \in setup'.verify
      /\ ~ running' => DOMAIN jobs' = {}
      /\ ByContents(setup') => \A it, jt \in Instances' : it # jt => content'[it] # content'[jt]
  BY <1>1, <1>2, <1>3 DEF CurrentInv, ByContents, ReadsSources, Instances
<1>9. QED
  BY <1>5, <1>6, <1>7, <1>8 DEF CurrentInv

\* The options of the next run, the end of a run, and a run that is killed.
LEMMA StopCurrent ==
    ASSUME RunnerInv, CurrentInv, KeyTellsAll(setup), ChooseOptions \/ EndRun \/ Crash
    PROVE  CurrentInv'
<1>1. UNCHANGED <<setup, content, version, verifierV, cache, aig>>
      /\ running' = FALSE /\ DOMAIN jobs' = {}
  BY DEF ChooseOptions, EndRun, Crash, world, CurrentInv
<1>2. verify' = verify
  <2>1. verify \in setup.verify /\ verify' \in setup.verify
    BY DEF ChooseOptions, EndRun, Crash, options, CurrentInv
  <2>2. QED
    BY <2>1 DEF KeyTellsAll
<1>3. ASSUME NEW k \in DOMAIN cache'
      PROVE  RowCurrent(k, cache[k])'
  <2>1. RowCurrent(k, cache[k]) /\ cache' = cache
    BY <1>1, <1>3 DEF CurrentInv
  <2>2. QED
    BY <1>1, <1>2, <2>1 DEF RowCurrent, KeyAnswer, Solvers, Instances
<1>4. AigOK'
  <2>1. AigOK
    BY DEF CurrentInv
  <2>2. ASSUME NEW x \in DOMAIN aig, aig[x] = "partial"
        PROVE  FALSE
    <3>1. PICK q \in DOMAIN jobs : jobs[q].stage = "writing" /\ Aig(q) = x
      BY <2>1, <2>2 DEF AigOK
    <3>2. Crash
      BY <1>1, <3>1 DEF ChooseOptions, EndRun
    <3>3. JobCurrent(q, jobs[q]) /\ q[1] \in DOMAIN setup.format
      BY DEF CurrentInv, RunnerInv, JobsOK, Pairs, Solvers
    <3>4. Converts(setup)
      BY <3>1, <3>3 DEF JobCurrent, Converts
    <3>5. QED
      BY <3>2, <3>4 DEF KeyTellsAll, Crash
  <2>3. QED
    BY <1>1, <2>1, <2>2 DEF AigOK, Solvers, Instances
<1>5. RowsCurrent' /\ \A p \in DOMAIN jobs' : JobCurrent(p, jobs[p])'
  BY <1>1 DEF RowsCurrent
<1>6. /\ verify' \in setup'.verify
      /\ ~ running' => DOMAIN jobs' = {}
      /\ ByContents(setup') => \A it, jt \in Instances' : it # jt => content'[it] # content'[jt]
  BY <1>1, <1>2 DEF CurrentInv, ByContents, ReadsSources, Instances
<1>7. QED
  BY <1>3, <1>4, <1>5, <1>6 DEF CurrentInv

\* Together.
LEMMA NextCurrent ==
    NoneIsNoStatus /\ (\A s \in Setups : KeyTellsAll(s)) /\ RunnerInv /\ CurrentInv /\ [Next]_vars
        => CurrentInv'
<1> SUFFICES ASSUME NoneIsNoStatus, \A s \in Setups : KeyTellsAll(s), RunnerInv, CurrentInv, [Next]_vars
             PROVE  CurrentInv'
  OBVIOUS
<1>1. KeyTellsAll(setup)
  BY DEF RunnerInv, WorldOK
<1>2. CASE \E p \in Pairs : IsWorking(p)
  BY <1>1, <1>2, TakeCurrent, ConvertCurrent, RefuseCurrent, LaunchCurrent, ExitCurrent, VerifyCurrent
     DEF IsWorking
<1>3. CASE \E p \in Pairs : Collect(p)
  BY <1>1, <1>3, CollectCurrent
<1>4. CASE Change \/ ChooseOptions \/ StartRun \/ EndRun \/ Crash
  BY <1>1, <1>4, ChangeCurrent, StopCurrent, StartCurrent
<1>5. CASE UNCHANGED vars
  BY <1>5 DEF vars, world, options, CurrentInv, JobCurrent, RowCurrent, KeyAnswer, AigOK, RowsCurrent,
     Key, NotAsked, Due, Answer, Question, AskedInverted, Aig, Solvers, Instances
<1>6. QED
  BY <1>2, <1>3, <1>4, <1>5 DEF Next, IsWorking

\* Where the key tells all that an answer depends on, and no status is taken for "n/a":
\* every row of a report, cached or not, is the answer of the present solver to the
\* present file, with the status that the present verifier gives, whatever was cached
\* by earlier runs with other options, solvers or files.
THEOREM ReportStaysCurrent ==
    ASSUME \A s \in Setups : KeyTellsAll(s), NoneIsNoStatus
    PROVE  Spec => []ReportIsCurrent
<1>1. Init => RunnerInv /\ CurrentInv
  BY InitRunner, InitCurrent DEF RunnerInv, WorldOK
<1>2. RunnerInv /\ CurrentInv /\ [Next]_vars => (RunnerInv /\ CurrentInv)'
  BY NextRunner, NextCurrent
<1>3. RunnerInv /\ CurrentInv => ReportIsCurrent
  BY DEF CurrentInv, RowsCurrent, ReportIsCurrent
<1>4. QED
  BY <1>1, <1>2, <1>3, PTL DEF Spec
=============================================================================
