---------------------------- MODULE MCBenchRunner ----------------------------
(***************************************************************************)
(* Instances of BenchRunner for TLC.                                       *)
(***************************************************************************)
EXTENDS BenchRunner, TLC

Setup(program, format, python, source, inverted, timeouts, verifies, changes, n, crash) ==
    [program |-> program, format |-> format, python |-> python, source |-> source,
     inverted |-> inverted, jobs |-> 2, runs |-> n, timeouts |-> timeouts,
     verify |-> verifies, changes |-> changes, crash |-> crash,
     distinct |-> inverted # {}, refused |-> {},
     stem |-> [it \in DOMAIN source |-> it]]

\* frust and a snapshot of the same binary on two instances that may be equal.
TwoNames(changes, timeouts) ==
    Setup("frust" :> "frust" @@ "frust-v1" :> "frust", "frust" :> "dqdimacs" @@ "frust-v1" :> "dqdimacs",
          {}, "x" :> None @@ "y" :> None, {}, timeouts, {TRUE}, changes, 2, FALSE)

\* One solver over n runs, killed at any point.
Killed(timeouts, changes, n) ==
    Setup("frust" :> "frust", "frust" :> "dqdimacs", {}, "x" :> None @@ "y" :> None,
          {}, timeouts, {TRUE}, changes, n, TRUE)

\* A model checker and a synthesis tool on the source, of the negated question for x.
OnSource ==
    Setup("abc" :> "abc" @@ "strix" :> "strix", "abc" :> "aag" @@ "strix" :> "tlsf", {},
          "x" :> "sx" @@ "y" :> None, {"x"}, {10}, {FALSE}, {"program", "verifier"}, 3, FALSE)

\* The path of x is refused; a run may be killed.
OneRefused == [Killed({10}, {"program"}, 2) EXCEPT !.refused = {"x"}, !.distinct = TRUE]

\* And y may have the same contents.
RefusedTwice == [OneRefused EXCEPT !.distinct = FALSE, !.changes = {}, !.crash = FALSE]

\* x.qdimacs and x.dqdimacs in one directory.
OneStem == [Killed({10}, {}, 1) EXCEPT !.crash = FALSE, !.stem = [it \in {"x", "y"} |-> "x"]]

MCSetups == {TwoNames({"instance"}, {10}), Killed({10}, {"instance", "program"}, 2),
             Killed({5, 10}, {}, 2), Killed({10}, {"program"}, 3), OnSource, OneRefused,
             RefusedTwice, OneStem}

\* Where ReportIsCurrent excuses nothing it can be kept, and is missed in PythonSetups.
ASSUME SetupsAreKept == \A s \in MCSetups : RefusalsStay(s) => KeyTellsAll(s)

\* forkres, started as "python -m provers.forkres.cli", is edited between two runs.
PythonSetups ==
    {Setup("forkres" :> "forkres", "forkres" :> "dqdimacs", {"forkres"}, "x" :> None, {},
           {10}, {TRUE}, {"program"}, 2, FALSE)}
=============================================================================
