----------------------------- MODULE MetricsWindow -----------------------------
(***************************************************************************)
(* The data directory over many runs: results files under retention, read  *)
(* back by History, and the metrics snapshot each check leaves behind      *)
(* (reporting/metrics.rs, persist_metrics_snapshot in main.rs), which the  *)
(* metrics server and `status' read at any moment (server.rs).             *)
(*                                                                         *)
(* Time is what it decides here: which runs started within the rolling     *)
(* window (a suffix of the runs, as they start in order), and whether the  *)
(* snapshot was taken within it.  A snapshot is taken after its run        *)
(* started, so it leaves the window later than that run.  A run is known   *)
(* by its place among the files, oldest first.                             *)
(***************************************************************************)
EXTENDS History, SequencesExt

CONSTANTS Keeps,       \* values of general.results_retention
          MaxWindow,   \* bound: runs within the window
          MaxCount     \* bound: remediations counted

ASSUME WindowAssumption ==
    Keeps \subseteq Nat \ {0} /\ MaxWindow \in Nat /\ MaxCount \in Nat

VARIABLES keep,      \* general.results_retention
          files,     \* the installer's entry in each results file, oldest first
          window,    \* runs within the window: what is known and recorded of them
          snapshot,  \* metrics.json
          pending    \* a check has its results on disk, not yet its snapshot

vars == <<keep, files, window, snapshot, pending>>

RunFacts == [remediated : BOOLEAN,   \* a remediation was attempted
             filed : BOOLEAN,        \* its results file is there
             saved : BOOLEAN]        \* ghost: its snapshot was taken

WindowTypeOK ==
    /\ keep \in Keeps
    /\ files \in Seq(Entries \cup {Absent}) /\ Len(files) <= keep
    /\ window \in Seq(RunFacts) /\ Len(window) <= MaxWindow
    /\ snapshot \in [remediations : 0..MaxCount, fresh : BOOLEAN]
    /\ pending \in BOOLEAN

Init ==
    /\ keep \in Keeps
    /\ files = <<>> /\ window = <<>> /\ pending = FALSE
    /\ snapshot = [remediations |-> 0, fresh |-> FALSE]

-----------------------------------------------------------------------------
Filed(w) == {k \in DOMAIN w : w[k].filed}

(* Only the newest of the window's files are left.                         *)
Pruned(w) ==
    [k \in DOMAIN w |->
        [w[k] EXCEPT !.filed = @ /\ Cardinality({j \in Filed(w) : j > k}) < keep]]

(* persist_with_header and prune.  Only a failing result is remediated.    *)
FinishRun(entry, remediated) ==
    /\ ~pending /\ Len(window) < MaxWindow
    /\ remediated => Fails(entry) /\ snapshot.remediations < MaxCount
    /\ files' = SubSeq(files, IF Len(files) < keep THEN 1 ELSE 2, Len(files)) \o <<entry>>
    /\ window' = Pruned(Append(window,
                    [remediated |-> remediated, filed |-> TRUE, saved |-> FALSE]))
    /\ pending' = TRUE
    /\ UNCHANGED <<keep, snapshot>>

(* The results cannot be persisted; the snapshot is taken all the same.    *)
FinishRunUnfiled(remediated) ==
    /\ ~pending /\ Len(window) < MaxWindow
    /\ remediated => snapshot.remediations < MaxCount
    /\ window' = Append(window,
                    [remediated |-> remediated, filed |-> FALSE, saved |-> FALSE])
    /\ pending' = TRUE
    /\ UNCHANGED <<keep, files, snapshot>>

(* A snapshot is good while it was taken within the window.                *)
Carried == IF snapshot.fresh THEN snapshot.remediations ELSE 0

(* Mutant: the count starts afresh with every run.                         *)
PersistSnapshotAnew ==
    /\ pending
    /\ snapshot' = [remediations |-> IF Last(window).remediated THEN 1 ELSE 0, fresh |-> TRUE]
    /\ window' = [window EXCEPT ![Len(window)].saved = TRUE]
    /\ pending' = FALSE
    /\ UNCHANGED <<keep, files>>

(* persist_metrics_snapshot: the count is carried over, plus this run.     *)
PersistSnapshot ==
    /\ pending
    /\ snapshot' = [remediations |-> Carried + IF Last(window).remediated THEN 1 ELSE 0,
                    fresh |-> TRUE]
    /\ window' = [window EXCEPT ![Len(window)].saved = TRUE]
    /\ pending' = FALSE
    /\ UNCHANGED <<keep, files>>

(* The check dies before the snapshot, or cannot write it.                 *)
LosesSnapshot ==
    /\ pending
    /\ pending' = FALSE
    /\ UNCHANGED <<keep, files, window, snapshot>>

(* The oldest run leaves the window.                                       *)
RunAges ==
    /\ Len(window) > IF pending THEN 1 ELSE 0
    /\ window' = Tail(window)
    /\ UNCHANGED <<keep, files, snapshot, pending>>

(* The snapshot leaves the window, after the run that took it.             *)
SnapshotAges ==
    /\ snapshot.fresh /\ \A k \in DOMAIN window : ~window[k].saved
    /\ snapshot' = [snapshot EXCEPT !.fresh = FALSE]
    /\ UNCHANGED <<keep, files, window, pending>>

Next ==
    \/ \E e \in Entries \cup {Absent}, r \in BOOLEAN : FinishRun(e, r)
    \/ \E r \in BOOLEAN : FinishRunUnfiled(r)
    \/ PersistSnapshot \/ LosesSnapshot \/ RunAges \/ SnapshotAges

Spec == Init /\ [][Next]_vars

-----------------------------------------------------------------------------
(* total_remediations_24h: the outcomes in the files of the window, or the *)
(* count in the snapshot if that is more.                                  *)
total_remediations_24h ==
    Max({Carried, Cardinality({k \in Filed(window) : window[k].remediated})})

(* What `history', `status' and a notification say of the installer.       *)
Verdict == assess(files)

(* The runs in which the installer had an outcome, by place.               *)
Outcomes == {k \in DOMAIN files : files[k].status \in {"passed", "failed", "timedout"}}

(* The last three outcomes failed, each with the script the last one ran.  *)
LastThreeFailed ==
    \E a, b, c \in Outcomes :
        /\ a < b /\ b < c /\ {k \in Outcomes : k >= a} = {a, b, c}
        /\ \A k \in {a, b, c} : files[k].sha = files[c].sha /\ files[k].sha # Missing
                                /\ files[k].status # "passed"

(* An installer called broken since a run has failed in every outcome from *)
(* that run on, all of them with the same script, and one that failed the  *)
(* last three times with the same script is called broken, whatever came   *)
(* before: earlier scripts, passes, skipped or cancelled runs, and         *)
(* whatever retention has removed.  One called flaky instead has failed    *)
(* and later passed, with no change of script from that failure on         *)
(* (history.rs:123-164 and 368-393).                                       *)
BrokenMeansFailing ==
    LET verdict == Verdict
        since == verdict.broken_since
        from(j) == {k \in Outcomes : k >= j}
        OneScript(j) == Cardinality({files[k].sha : k \in from(j)} \ {Missing}) <= 1
    IN  /\ since # 0 => OneScript(since) /\ \A k \in from(since) : files[k].status # "passed"
        /\ LastThreeFailed => since # 0
        /\ verdict.flaky => \E j \in Outcomes : /\ files[j].status # "passed" /\ OneScript(j)
                                              /\ \E k \in from(j) : files[k].status = "passed"

(* What one more failure of a broken installer leaves.                     *)
StillBroken ==
    LET since == Verdict.broken_since
        dropped == Len(files) + 1 - Len(files')
        new == Last(files')
        hashed == {k \in Outcomes : files[k].sha # Missing}
        now == assess(files').broken_since
    IN  /\ files' # files /\ since > dropped
        /\ new.status \in {"failed", "timedout"}
        /\ \/ new.sha = Missing \/ hashed = {}
           \/ new.sha = files[Max(hashed)].sha
        => /\ \/ dropped = 0 \/ 1 \notin Outcomes
              \/ \E j, k \in hashed \ {1} : files[j].sha # files[k].sha
              => now = since - dropped
           /\ Cardinality({k \in Outcomes : k >= since}) >= 2
              => now \in 1..(since - dropped)

(* An installer that is broken and fails once more with the same script    *)
(* stays broken, since the same run, as long as no run is dropped that     *)
(* counted: one without an outcome, or one from before a change of script  *)
(* that is still on record.  Whatever is dropped, it stays broken if it    *)
(* had failed twice in a row, since the same run or (when a forgotten      *)
(* change of script joins results that have no hash) an earlier one.  A    *)
(* single failure that crossed the threshold with the help of older ones   *)
(* is no longer enough once the first of those is dropped, nor is a streak *)
(* whose own first run is (history.rs:123-164, jsonl.rs:718-732).          *)
StaysBroken == [][StillBroken]_vars

(* Between two neighbouring runs, `diff' names a change whenever the       *)
(* installer's part of the failing set differs, and calls it a regression  *)
(* or a recovery exactly when an installer in both runs starts or stops    *)
(* failing: a notification sent on_change always has something to show     *)
(* (history.rs:201-250).                                                   *)
DiffExplainsFailing ==
    \A k \in DOMAIN files \ {1} :
        LET a == files[k - 1]
            b == files[k]
        IN  /\ failing(a) # failing(b) => Diff(a, b) # "unchanged"
            /\ a # Absent /\ b # Absent =>
                 /\ Diff(a, b) = "regressed" <=> (failing(a) = {} /\ failing(b) # {})
                 /\ Diff(a, b) = "recovered" <=> (failing(a) # {} /\ failing(b) = {})

(* Whoever reads the metrics, at any moment, is told of at least every run *)
(* of the window whose remediation reached a snapshot, whether its results *)
(* file was never written or has been pruned since, and whichever checks   *)
(* died before their own snapshot (metrics.rs:306-332, main.rs:2966-2989). *)
RemediationsNotLost ==
    total_remediations_24h >=
        Cardinality({k \in DOMAIN window : window[k].remediated /\ window[k].saved})
=============================================================================
