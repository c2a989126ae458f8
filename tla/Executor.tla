------------------------------ MODULE Executor ------------------------------
(***************************************************************************)
(* runner/executor.rs: run_test_with_retry for every installer, on the     *)
(* Docker or on the local backend, with the container calls of             *)
(* runner/container.rs it makes.  Who starts an installer and who takes    *)
(* its result is left to the modules that extend this one: InstallerPool   *)
(* (parallel) and SequentialRun.  `tok' is the cancellation token the      *)
(* caller put in RunnerConfig.cancel.                                      *)
(*                                                                         *)
(* A captured text is the set of classifier pattern groups it contains     *)
(* (module Classifier) plus "interrupted", the executor's own wording for  *)
(* an exec it abandoned on cancellation, which no pattern matches.         *)
(***************************************************************************)
EXTENDS RunControl, Classifier, FiniteSets

CONSTANTS Installers,   \* the names of the runnable installers
          Pinned,       \* those with an expected_sha256
          Checked,      \* those with an expect_binary or a verify_cmd
          RetryCount,   \* test.retry_count
          Backend,      \* "docker" or "local"
          DaemonFaults  \* container calls the Docker daemon may refuse

ASSUME InstallersAssumption == IsFiniteSet(Installers)
ASSUME PinnedAssumption == Pinned \subseteq Installers
ASSUME CheckedAssumption == Checked \subseteq Installers
ASSUME RetryCountAssumption == RetryCount \in [Installers -> Nat]
ASSUME BackendAssumption == Backend \in {"docker", "local"}
ASSUME DaemonFaultsAssumption == DaemonFaults \subseteq {"start", "remove"}

VARIABLES pc,         \* where the worker of an installer is
          attempt,    \* attempt_index
          result,     \* the TestResult being built
          attempts,   \* the AttemptRecords pushed so far
          containers  \* containers the daemon holds: <<installer, attempt>>

execVars == <<pc, attempt, result, attempts, containers>>

-----------------------------------------------------------------------------
Statuses == {"pending", "passed", "failed", "skipped", "timed_out",
             "cancelled"}
ChecksumStates == {"not_checked", "verified", "mismatch", "unknown"}
Markers == Groups \cup {"interrupted"}

(* error is the category of the ErrorClassification, "none" without one.   *)
Results == [status : Statuses, error : Categories \cup {"none"},
            retryable : BOOLEAN, checksum : ChecksumStates,
            text : SUBSET Markers]

AttemptRecords == [status : Statuses, text : SUBSET Markers]

ExecutorPc == {"attempt", "prepare", "exec", "stopping", "checks",
               "checking", "cleanup", "decide", "backoff", "returned",
               "error"}

(* TestResult::new                                                         *)
NewResult == [status |-> "pending", error |-> "none", retryable |-> FALSE,
              checksum |-> "not_checked", text |-> {}]

success(r) == r.status = "passed"

max_attempts(i) == IF RetryCount[i] > 1 THEN RetryCount[i] ELSE 1

(* What a failing download, installer or container call may have printed:  *)
(* something transient, or nothing the classifier knows.                   *)
Outputs == {{}, {"network"}}

(* finalize_failure: classify a non-passing result that has no error yet.  *)
finalize_failure(r) ==
    IF success(r) \/ r.error # "none" THEN r
    ELSE LET c == classify_error(r.text, 1)
         IN [r EXCEPT !.error = c.category, !.retryable = c.retryable]

(* mark_cancelled: new status and stderr; error and checksum are kept.     *)
mark_cancelled(r, reason) ==
    [r EXCEPT !.status = "cancelled", !.text = {"cancelled_marker"} \cup reason]

(* Mutant: every failure is retried, whatever its class.                   *)
RetryAnyFailure(r) == ~ success(r) /\ r.status \notin {"timed_out", "cancelled"}

should_retry_result(r) ==
    /\ ~ success(r)
    /\ r.status \notin {"timed_out", "cancelled", "skipped"}
    /\ r.checksum # "mismatch"
    /\ r.retryable

Failed(r, text) == [r EXCEPT !.status = "failed", !.text = text]

(* The checksum state once the staged file was hashed and matched.         *)
VerifiedState(i) == IF i \in Pinned THEN "verified" ELSE "not_checked"

(* The checksum state when the download failed before the compare.         *)
UnknownState(i) == IF i \in Pinned THEN "unknown" ELSE "not_checked"

(* Where a backend goes once its result is known: the Docker backend       *)
(* cleans its container up first.                                          *)
AfterExec == IF Backend = "docker" THEN "cleanup" ELSE "decide"

Goto(i, label) == pc' = [pc EXCEPT ![i] = label]
Set(i, r) == result' = [result EXCEPT ![i] = r]

-----------------------------------------------------------------------------
(* Mutant: a retry does not look at the token again.                       *)
BeginAnyAttempt(i, tok) ==
    /\ pc[i] = "attempt"
    /\ Set(i, NewResult)
    /\ Goto(i, "prepare")
    /\ UNCHANGED <<attempt, attempts, containers>>

(* run_test: a cancelled token ends the attempt before anything starts.    *)
BeginAttempt(i, tok) ==
    /\ pc[i] = "attempt"
    /\ IF tok THEN /\ Set(i, mark_cancelled(NewResult, {}))
                   /\ Goto(i, "decide")
              ELSE /\ Set(i, NewResult)
                   /\ Goto(i, "prepare")
    /\ UNCHANGED <<attempt, attempts, containers>>

(* An error before the installer runs leaves run_test_with_retry with `?': *)
(* no container or no image (Docker); no temp dir, no curl or no bash      *)
(* (local).  Neither looks at the token.                                   *)
PrepareErrors(i) ==
    /\ pc[i] = "prepare"
    /\ Goto(i, "error")
    /\ UNCHANGED <<attempt, result, attempts, containers>>

(* create_container: created and started.                                  *)
ContainerStarts(i) ==
    /\ pc[i] = "prepare"
    /\ Backend = "docker"
    /\ containers' = containers \cup {<<i, attempt[i]>>}
    /\ Goto(i, "exec")
    /\ UNCHANGED <<attempt, result, attempts>>

(* create_container: created, but start_container failed.  The guard that  *)
(* would remove the container is only set up after create_container.       *)
ContainerStartFails(i) ==
    /\ pc[i] = "prepare"
    /\ Backend = "docker"
    /\ "start" \in DaemonFaults
    /\ containers' = containers \cup {<<i, attempt[i]>>}
    /\ Goto(i, "error")
    /\ UNCHANGED <<attempt, result, attempts>>

(* run_test_local: curl fails.                                             *)
LocalDownloadFails(i) ==
    /\ pc[i] = "prepare"
    /\ Backend = "local"
    /\ \E out \in Outputs :
          Set(i, [Failed(result[i], out) EXCEPT !.checksum = UnknownState(i)])
    /\ Goto(i, "decide")
    /\ UNCHANGED <<attempt, attempts, containers>>

(* run_test_local: the staged file does not match the pin; not executed.   *)
LocalMismatch(i) ==
    /\ pc[i] = "prepare"
    /\ Backend = "local"
    /\ i \in Pinned
    /\ Set(i, [Failed(result[i], {"checksum"}) EXCEPT !.checksum = "mismatch"])
    /\ Goto(i, "decide")
    /\ UNCHANGED <<attempt, attempts, containers>>

LocalSpawns(i) ==
    /\ pc[i] = "prepare"
    /\ Backend = "local"
    /\ Set(i, [result[i] EXCEPT !.checksum = VerifiedState(i)])
    /\ Goto(i, "exec")
    /\ UNCHANGED <<attempt, attempts, containers>>

-----------------------------------------------------------------------------
(* The installer exits 0.  What it printed is kept: the post-install       *)
(* checks append to it.                                                    *)
InstallerSucceeds(i) ==
    /\ pc[i] = "exec"
    /\ \E out \in Outputs :
          Set(i, [result[i] EXCEPT !.status = "passed",
                                   !.checksum = VerifiedState(i),
                                   !.text = out])
    /\ Goto(i, IF i \in Checked THEN "checks" ELSE AfterExec)
    /\ UNCHANGED <<attempt, attempts, containers>>

(* The installer exits non-zero (an exit code the classifier ignores).     *)
InstallerFails(i) ==
    /\ pc[i] = "exec"
    /\ \E out \in Outputs :
          Set(i, [Failed(result[i], out) EXCEPT !.checksum = VerifiedState(i)])
    /\ Goto(i, AfterExec)
    /\ UNCHANGED <<attempt, attempts, containers>>

(* build_verified_install_script: in Docker the download and the compare   *)
(* run inside the exec'd script ...                                        *)
ScriptDownloadFails(i) ==
    /\ pc[i] = "exec"
    /\ Backend = "docker"
    /\ \E out \in Outputs :
          Set(i, [Failed(result[i], out) EXCEPT !.checksum = UnknownState(i)])
    /\ Goto(i, "cleanup")
    /\ UNCHANGED <<attempt, attempts, containers>>

(* Mutant: a mismatch returns early, past guard.cleanup.                   *)
MismatchReturnsEarly(i) ==
    /\ pc[i] = "exec"
    /\ Backend = "docker"
    /\ i \in Pinned
    /\ Set(i, [Failed(result[i], {"checksum"}) EXCEPT !.checksum = "mismatch"])
    /\ Goto(i, "decide")
    /\ UNCHANGED <<attempt, attempts, containers>>

(* ... which exits 99 with CHECKSUM_MISMATCH before running the installer. *)
ScriptMismatch(i) ==
    /\ pc[i] = "exec"
    /\ Backend = "docker"
    /\ i \in Pinned
    /\ Set(i, [Failed(result[i], {"checksum"}) EXCEPT !.checksum = "mismatch"])
    /\ Goto(i, "cleanup")
    /\ UNCHANGED <<attempt, attempts, containers>>

(* The exec call (Docker) or reading the child (local) fails.  Docker      *)
(* reports Cancelled when the token is cancelled by then.                  *)
ExecErrors(i, tok) ==
    /\ pc[i] = "exec"
    /\ \E out \in Outputs :
          Set(i, IF tok /\ Backend = "docker"
                 THEN mark_cancelled(result[i], out)
                 ELSE Failed(result[i], out))
    /\ Goto(i, AfterExec)
    /\ UNCHANGED <<attempt, attempts, containers>>

(* The select sees the token first: Docker stops the container (2s grace), *)
(* local drops the child, which kills it.                                  *)
CancelObserved(i, tok) ==
    /\ pc[i] = "exec"
    /\ tok
    /\ IF Backend = "docker"
       THEN Goto(i, "stopping") /\ UNCHANGED result
       ELSE Goto(i, "decide") /\ Set(i, mark_cancelled(result[i], {"interrupted"}))
    /\ UNCHANGED <<attempt, attempts, containers>>

ContainerStopped(i) ==
    /\ pc[i] = "stopping"
    /\ Set(i, mark_cancelled(result[i], {"interrupted"}))
    /\ Goto(i, "cleanup")
    /\ UNCHANGED <<attempt, attempts, containers>>

(* The test timeout is armed around the whole exec, the stop included.     *)
InstallerTimesOut(i) ==
    /\ pc[i] \in {"exec", "stopping"}
    /\ Set(i, [result[i] EXCEPT !.status = "timed_out", !.text = {"timeout"}])
    /\ Goto(i, AfterExec)
    /\ UNCHANGED <<attempt, attempts, containers>>

-----------------------------------------------------------------------------
(* post_install: expect_binary and verify_cmd, then version_cmd, whose     *)
(* outcome is ignored.  A failing check keeps what the installer printed.  *)
ChecksFailed(i, why) ==
    /\ Set(i, Failed(result[i],
                     result[i].text \cup {"post_install_marker"} \cup why))
    /\ Goto(i, AfterExec)

(* Each Docker check refuses to start under a cancelled token.             *)
BeginChecks(i, tok) ==
    /\ pc[i] = "checks"
    /\ IF tok /\ Backend = "docker"
       THEN ChecksFailed(i, {"interrupted"})
       ELSE Goto(i, "checking") /\ UNCHANGED result
    /\ UNCHANGED <<attempt, attempts, containers>>

ChecksPass(i) ==
    /\ pc[i] = "checking"
    /\ Goto(i, AfterExec)
    /\ UNCHANGED <<attempt, result, attempts, containers>>

(* A check exits non-zero, cannot be started or exceeds its 60s.           *)
ChecksFail(i) ==
    /\ pc[i] = "checking"
    /\ \E out \in Outputs : ChecksFailed(i, out)
    /\ UNCHANGED <<attempt, attempts, containers>>

(* The token fires while a Docker check runs; local checks never look.     *)
ChecksInterrupted(i, tok) ==
    /\ pc[i] = "checking"
    /\ tok
    /\ Backend = "docker"
    /\ ChecksFailed(i, {"interrupted"})
    /\ UNCHANGED <<attempt, attempts, containers>>

(* guard.cleanup: stop and force-remove, best effort.                      *)
Cleanup(i) ==
    /\ pc[i] = "cleanup"
    /\ \/ containers' = containers \ {<<i, attempt[i]>>}
       \/ "remove" \in DaemonFaults /\ UNCHANGED containers
    /\ Goto(i, "decide")
    /\ UNCHANGED <<attempt, result, attempts>>

-----------------------------------------------------------------------------
(* Mutant: off by one in the loop's bound.                                 *)
DecideOneMore(i, tok) ==
    /\ pc[i] = "decide"
    /\ LET r == finalize_failure(result[i])
       IN /\ Set(i, r)
          /\ attempts' = [attempts EXCEPT ![i] =
                 Append(@, [status |-> r.status, text |-> r.text])]
          /\ Goto(i, IF /\ attempt[i] <= max_attempts(i)
                        /\ ~ tok
                        /\ should_retry_result(r)
                     THEN "backoff" ELSE "returned")
    /\ UNCHANGED <<attempt, containers>>

(* The tail of run_test and the body of the retry loop: classify, record   *)
(* the attempt, and return unless another one is due.                      *)
Decide(i, tok) ==
    /\ pc[i] = "decide"
    /\ LET r == finalize_failure(result[i])
       IN /\ Set(i, r)
          /\ attempts' = [attempts EXCEPT ![i] =
                 Append(@, [status |-> r.status, text |-> r.text])]
          /\ Goto(i, IF /\ attempt[i] < max_attempts(i)
                        /\ ~ tok
                        /\ should_retry_result(r)
                     THEN "backoff" ELSE "returned")
    /\ UNCHANGED <<attempt, containers>>

BackoffElapses(i) ==
    /\ pc[i] = "backoff"
    /\ attempt' = [attempt EXCEPT ![i] = @ + 1]
    /\ Goto(i, "attempt")
    /\ UNCHANGED <<result, attempts, containers>>

BackoffCancelled(i, tok) ==
    /\ pc[i] = "backoff"
    /\ tok
    /\ Set(i, finalize_failure(mark_cancelled(result[i], {})))
    /\ Goto(i, "returned")
    /\ UNCHANGED <<attempt, attempts, containers>>

-----------------------------------------------------------------------------
PrepareStep(i) ==
    \/ PrepareErrors(i)
    \/ ContainerStarts(i)
    \/ ContainerStartFails(i)
    \/ LocalDownloadFails(i)
    \/ LocalMismatch(i)
    \/ LocalSpawns(i)

ExecStep(i, tok) ==
    \/ InstallerSucceeds(i)
    \/ InstallerFails(i)
    \/ ScriptDownloadFails(i)
    \/ ScriptMismatch(i)
    \/ ExecErrors(i, tok)
    \/ CancelObserved(i, tok)
    \/ ContainerStopped(i)
    \/ InstallerTimesOut(i)

CheckStep(i, tok) ==
    \/ BeginChecks(i, tok)
    \/ ChecksPass(i)
    \/ ChecksFail(i)
    \/ ChecksInterrupted(i, tok)

RetryStep(i, tok) ==
    \/ Decide(i, tok)
    \/ BackoffElapses(i)
    \/ BackoffCancelled(i, tok)

ExecutorStep(i, tok) ==
    \/ BeginAttempt(i, tok)
    \/ PrepareStep(i)
    \/ ExecStep(i, tok)
    \/ CheckStep(i, tok)
    \/ Cleanup(i)
    \/ RetryStep(i, tok)

-----------------------------------------------------------------------------
(* An attempt is under way: a container or a download may exist.           *)
UnderWay == {"prepare", "exec", "stopping", "checks", "checking", "cleanup"}

(* Where an installer stands, for the refinement of RunContract.           *)
PhaseOf(i) ==
    IF pc[i] = "done" THEN result[i].status
    ELSE IF pc[i] \in UnderWay THEN "running" ELSE "idle"
=============================================================================
