-------------------------------- MODULE History --------------------------------
(***************************************************************************)
(* reporting/history.rs: what the persisted runs say about one installer.  *)
(* Its timeline, the assessment that calls it broken or flaky, and the     *)
(* comparison of two runs, as functions of the runs on disk, oldest first. *)
(* Every other installer is treated the same way and independently.        *)
(*                                                                         *)
(* An entry is the installer's result in a run: its status, the category   *)
(* of its error and the hash its script was pinned to; each of the last    *)
(* two may be missing, and a run need not have the installer at all.  A    *)
(* run is known by its place, and a list of some runs is the set of their  *)
(* places.  The CUSUM statistic is in halves, the pass probability is      *)
(* compared as a fraction.                                                 *)
(***************************************************************************)
EXTENDS Integers, Sequences, FiniteSetsExt

CONSTANTS Entries   \* the results of the installer that runs may have

Missing == "missing"
Statuses == {"passed", "failed", "timedout", "cancelled", "skipped"}

ASSUME EntriesAssumption ==
    \A e \in Entries : DOMAIN e = {"status", "category", "sha"} /\ e.status \in Statuses

(* The installer is not in the run.                                        *)
Absent == [status |-> Missing, category |-> Missing, sha |-> Missing]

is_failure_status(status) == status \in {"failed", "timedout", "cancelled"}
Fails(e) == is_failure_status(e.status)

-----------------------------------------------------------------------------
(* The runs that have the installer.                                       *)
installer_timeline(runs) == {k \in DOMAIN runs : runs[k] # Absent}

(* The outcomes assess considers.                                          *)
Considered(runs) ==
    {k \in installer_timeline(runs) : runs[k].status \notin {"skipped", "cancelled"}}

Hashed(runs) == {k \in Considered(runs) : runs[k].sha # Missing}

(* Places where the script hash differs from the last one before.          *)
HashChanges(runs) ==
    LET hashed == Hashed(runs)
    IN  {k \in hashed : \E j \in hashed :
            /\ j < k /\ runs[j].sha # runs[k].sha
            /\ \A m \in hashed : m <= j \/ k <= m}

(* series: the outcomes since the last change of the script hash.          *)
Series(runs) ==
    LET changes == HashChanges(runs)
    IN  {k \in Considered(runs) : \A c \in changes : c <= k}

Passed(runs, k) == runs[k].status = "passed"
Passes(runs) == {k \in Series(runs) : Passed(runs, k)}
Failures(runs) == Series(runs) \ Passes(runs)

-----------------------------------------------------------------------------
CUSUM_FAIL == 2
CUSUM_PASS == -1
CUSUM_THRESHOLD == 6
FLAKY_MIN_TRIALS == 5
FLAKY_MIN_FAILURES == 2

CusumStart == [stat |-> 0, crossed_at |-> 0]

Moved(stat, passed) ==
    LET moved == stat + IF passed THEN CUSUM_PASS ELSE CUSUM_FAIL
    IN  IF moved < 0 THEN 0 ELSE moved

(* Mutant: a pass after the crossing changes nothing.                      *)
CusumStepNoReset(acc, at, passed) ==
    LET stat == Moved(acc.stat, passed)
    IN  [stat |-> stat,
         crossed_at |-> IF stat >= CUSUM_THRESHOLD /\ acc.crossed_at = 0
                        THEN at ELSE acc.crossed_at]

(* One outcome of the CUSUM loop; a pass after the crossing restarts it.   *)
CusumStep(acc, at, passed) ==
    LET stat == Moved(acc.stat, passed)
        crossed == IF stat >= CUSUM_THRESHOLD /\ acc.crossed_at = 0
                   THEN at ELSE acc.crossed_at
    IN  IF passed /\ crossed # 0 THEN CusumStart
        ELSE [stat |-> stat, crossed_at |-> crossed]

(* The loop over the series.                                               *)
Cusum(runs) ==
    LET series == Series(runs)
        after[n \in 0..Len(runs)] ==
            IF n = 0 THEN CusumStart
            ELSE IF n \in series THEN CusumStep(after[n - 1], n, Passed(runs, n))
            ELSE after[n - 1]
    IN  after

CrossedAt(runs) == Cusum(runs)[Len(runs)].crossed_at

(* Mutant: the run that crossed the threshold is named.                    *)
BrokenSinceCrossing(runs) == CrossedAt(runs)

(* The failures around the crossing, up to it.                             *)
Streak(runs, at) ==
    LET passes == Passes(runs)
    IN  {k \in Series(runs) : k <= at /\ \A j \in passes : j < k \/ at < j}

(* broken_since: the first failure of that streak; 0 when the threshold    *)
(* was not crossed.                                                        *)
broken_since(runs) ==
    LET at == CrossedAt(runs)
    IN  IF at = 0 THEN 0 ELSE Min(Streak(runs, at))

(* flaky: some pass came after a failure, and too few passes in all.       *)
flaky(runs) ==
    LET passes == Passes(runs)
        failures == Failures(runs)
    IN  /\ Cardinality(Series(runs)) >= FLAKY_MIN_TRIALS
        /\ Cardinality(failures) >= FLAKY_MIN_FAILURES
        /\ broken_since(runs) = 0
        /\ \E f \in failures, p \in passes : f < p
        /\ 10 * (Cardinality(passes) + 1) < 9 * (Cardinality(Series(runs)) + 2)

assess(runs) == [broken_since |-> broken_since(runs), flaky |-> flaky(runs)]

-----------------------------------------------------------------------------
(* Mutant: a change between two failing statuses is no change.             *)
DiffByFailing(a, b) ==
    IF a = Absent \/ b = Absent \/ Fails(a) = Fails(b) THEN "unchanged"
    ELSE IF Fails(b) THEN "regressed" ELSE "recovered"

(* diff_runs, of the installer's entries in two runs.                      *)
Diff(a, b) ==
    CASE a = Absent /\ b = Absent -> "unchanged"
      [] a = Absent /\ b # Absent -> "added"
      [] a # Absent /\ b = Absent -> "removed"
      [] OTHER -> IF a.status = b.status /\ a.category = b.category THEN "unchanged"
                  ELSE IF ~Fails(a) /\ Fails(b) THEN "regressed"
                  ELSE IF Fails(a) /\ ~Fails(b) THEN "recovered"
                  ELSE "changed"

(* The installer's part of failing_set: its category, if it fails.         *)
failing(e) == IF Fails(e) THEN {IF e.category = Missing THEN "unknown" ELSE e.category}
              ELSE {}
=============================================================================
