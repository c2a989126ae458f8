------------------------------ MODULE CheckRun ------------------------------
(***************************************************************************)
(* main.rs: what cmd_check does once the results are in.  It reads the     *)
(* deadline flag, the signal and the run token one after the other, and    *)
(* decides on what it read: whether the run failed, whether to remediate,  *)
(* what the summary and the persisted run say, whether to notify, and the  *)
(* exit code of the process.  The signal handler and the deadline task are *)
(* still alive and may act between any two of these reads.                 *)
(*                                                                         *)
(* PoolCheck and SequentialCheck say where the results come from.          *)
(***************************************************************************)
EXTENDS Executor

CONSTANTS Remediate, \* --remediate
          Notify     \* [notifications].enabled, mode every_run

ASSUME RemediateAssumption == Remediate \in BOOLEAN
ASSUME NotifyAssumption == Notify \in BOOLEAN

VARIABLES main,             \* program counter of cmd_check
          collected,        \* installers with an entry in `results'
          deadlineExceeded, \* deadline_hit as read
          signalled,        \* signal_seen as read
          interrupted,      \* the run token as read
          anyFailed,        \* any_failed
          remediated,       \* remediate_results ran
          summaryCode,      \* exit_code of the printed summary
          saved,            \* the persisted run, NoRun before and on error
          notified,         \* a notification was dispatched
          exitCode          \* what the process exits with

readVars == <<deadlineExceeded, signalled, interrupted, anyFailed>>
outVars == <<remediated, summaryCode, saved, notified, exitCode>>
checkVars == <<main, collected, readVars, outVars>>

NoRun == [entries |-> {}, interrupted |-> FALSE, exit_code |-> -1]
SavedRuns == [entries : SUBSET Installers, interrupted : BOOLEAN,
              exit_code : {-1, 0, 1}]
ExitStatus == {-1, 0, 1, 130, 143}   \* -1: not decided yet

MainPc == {"work", "read_deadline", "read_signal", "read_token", "remediate",
           "summary", "persist", "notify", "return", "exited"}

CheckTypeOK ==
    /\ main \in MainPc
    /\ collected \subseteq Installers
    /\ deadlineExceeded \in BOOLEAN
    /\ signalled \in BOOLEAN
    /\ interrupted \in BOOLEAN
    /\ anyFailed \in BOOLEAN
    /\ remediated \in BOOLEAN
    /\ summaryCode \in ExitStatus
    /\ saved \in SavedRuns
    /\ notified \in BOOLEAN
    /\ exitCode \in ExitStatus

CheckInit ==
    /\ main = "work"
    /\ collected = {}
    /\ deadlineExceeded = FALSE
    /\ signalled = FALSE
    /\ interrupted = FALSE
    /\ anyFailed = FALSE
    /\ remediated = FALSE
    /\ summaryCode = -1
    /\ saved = NoRun
    /\ notified = FALSE
    /\ exitCode = -1

(* Mutant: a timeout is no failure.                                        *)
FailureWithoutTimeout(r) == r.status \in {"failed", "cancelled"}

is_failure(r) == r.status \in {"failed", "timed_out", "cancelled"}

(* Exit codes of AfscError: the signal, if one was seen, wins.             *)
ExitCodeNow ==
    CASE seen = "interrupt" -> 130
      [] seen = "terminate" -> 143
      [] OTHER -> IF anyFailed THEN 1 ELSE 0

-----------------------------------------------------------------------------
ReadDeadline ==
    /\ main = "read_deadline"
    /\ deadlineExceeded' = deadlineHit
    /\ main' = "read_signal"
    /\ UNCHANGED <<collected, signalled, interrupted, anyFailed, outVars>>

ReadSignal ==
    /\ main = "read_signal"
    /\ signalled' = (seen # "none")
    /\ main' = "read_token"
    /\ UNCHANGED <<collected, deadlineExceeded, interrupted, anyFailed, outVars>>

(* Mutant: a passed deadline excuses every result.                         *)
DeadlineExcusesAll(r) == is_failure(r) /\ ~ (deadlineExceeded /\ ~ signalled)

(* A result that counts against the run: deadline cancellations do not.    *)
CountsAsFailure(r) ==
    /\ is_failure(r)
    /\ ~ (deadlineExceeded /\ ~ signalled /\ r.status = "cancelled")

(* Mutant: only a signal counts as an interruption, not the deadline.      *)
ReadTokenSignalOnly ==
    /\ main = "read_token"
    /\ interrupted' = signalled
    /\ anyFailed' = (\E i \in collected : CountsAsFailure(result[i]))
    /\ main' = "remediate"
    /\ UNCHANGED <<collected, deadlineExceeded, signalled, outVars>>

ReadToken ==
    /\ main = "read_token"
    /\ interrupted' = runToken
    /\ anyFailed' = (\E i \in collected : CountsAsFailure(result[i]))
    /\ main' = "remediate"
    /\ UNCHANGED <<collected, deadlineExceeded, signalled, outVars>>

Remediation ==
    /\ main = "remediate"
    /\ remediated' = (Remediate /\ anyFailed /\ ~ interrupted)
    /\ main' = "summary"
    /\ UNCHANGED <<collected, readVars, summaryCode, saved, notified, exitCode>>

(* Mutant: the summary counts whatever did not pass as failed.             *)
SummariseUnsuccessful ==
    /\ main = "summary"
    /\ summaryCode' = IF \E i \in collected : ~ success(result[i]) THEN 1 ELSE 0
    /\ main' = "persist"
    /\ UNCHANGED <<collected, readVars, remediated, saved, notified, exitCode>>

Summarise ==
    /\ main = "summary"
    /\ summaryCode' = ExitCodeNow
    /\ main' = "persist"
    /\ UNCHANGED <<collected, readVars, remediated, saved, notified, exitCode>>

(* persist_with_header: temp file and rename; an I/O error is only logged. *)
Persist ==
    /\ main = "persist"
    /\ \/ saved' = [entries |-> collected, interrupted |-> interrupted,
                    exit_code |-> IF \E i \in collected : ~ success(result[i])
                                  THEN 1 ELSE 0]
       \/ UNCHANGED saved
    /\ main' = "notify"
    /\ UNCHANGED <<collected, readVars, remediated, summaryCode, notified, exitCode>>

(* Notifications work from the persisted run.                              *)
Notification ==
    /\ main = "notify"
    /\ notified' = (Notify /\ ~ signalled /\ saved # NoRun)
    /\ main' = "return"
    /\ UNCHANGED <<collected, readVars, remediated, summaryCode, saved, exitCode>>

(* cmd_check returns and main calls process::exit.                         *)
ReturnCode ==
    /\ main = "return"
    /\ exitCode' = ExitCodeNow
    /\ main' = "exited"
    /\ UNCHANGED <<collected, readVars, remediated, summaryCode, saved, notified>>

Epilogue ==
    \/ ReadDeadline
    \/ ReadSignal
    \/ ReadToken
    \/ Remediation
    \/ Summarise
    \/ Persist
    \/ Notification
    \/ ReturnCode

-----------------------------------------------------------------------------
Exited == main = "exited"

(* README.md:158-161 and main.rs:1835-1839: exit code 0 means no installer *)
(* failed or timed out, and that an installer was cancelled only because   *)
(* the deadline passed.                                                    *)
ExitZeroMeansNoFailure ==
    (Exited /\ exitCode = 0) =>
        \A i \in collected :
            \/ result[i].status \in {"passed", "skipped"}
            \/ result[i].status = "cancelled" /\ deadlineHit

(* A real failure is never reported as success: exit 1, or the code of the *)
(* signal that interrupted the run; the persisted run says 1 too.          *)
RealFailureReported ==
    (Exited /\ \E i \in collected : result[i].status \in {"failed", "timed_out"}) =>
        /\ exitCode \in {1, 130, 143}
        /\ saved # NoRun => saved.exit_code = 1

(* The printed summary and the process agree on the exit code, unless a    *)
(* signal arrived in between: cmd_check reads signal_seen a second time    *)
(* (main.rs:1936 and main.rs:2037).                                        *)
SummaryAgreesUnlessSignalled ==
    (Exited /\ collected = Installers) =>
        \/ summaryCode = exitCode
        \/ summaryCode \in {0, 1} /\ exitCode \in {130, 143}

(* A run whose results were cut short by a signal or by the deadline is    *)
(* persisted as interrupted, and never remediated: without that flag every *)
(* cancelled entry is the work of fail-fast, next to a real failure.       *)
CutShortIsRecorded ==
    /\ (saved # NoRun /\ ~ saved.interrupted) =>
          \A i \in saved.entries : result[i].status = "cancelled" =>
              \E j \in saved.entries : result[j].status \in {"failed", "timed_out"}
    /\ remediated => \E j \in collected : result[j].status \in {"failed", "timed_out"}
=============================================================================
