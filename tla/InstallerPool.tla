---------------------------- MODULE InstallerPool ----------------------------
(***************************************************************************)
(* runner/parallel.rs: ParallelRunner::run_all.  Every installer is a task *)
(* that waits for one of max_parallel permits, looks at the run token and  *)
(* then at the pool token, runs run_test_with_retry (module Executor) with *)
(* the pool token, and cancels the pool when fail-fast is on and it        *)
(* failed.  The signal handler and the deadline task (module RunControl)   *)
(* run beside the workers.                                                 *)
(***************************************************************************)
EXTENDS Executor

CONSTANTS MaxParallel, \* permits of the semaphore
          FailFast     \* --fail-fast

ASSUME MaxParallelAssumption == MaxParallel \in Nat \ {0}
ASSUME FailFastAssumption == FailFast \in BOOLEAN

VARIABLE permits  \* permits left in the semaphore

vars == <<controlVars, execVars, permits>>

PoolPc == {"queued", "admitted", "cleared", "done"}

TypeOK ==
    /\ ControlTypeOK
    /\ pc \in [Installers -> ExecutorPc \cup PoolPc]
    /\ attempt \in [Installers -> Nat]
    /\ result \in [Installers -> Results]
    /\ attempts \in [Installers -> Seq(AttemptRecords)]
    /\ containers \subseteq Installers \X Nat
    /\ permits \in 0..MaxParallel

Init ==
    /\ ControlInit
    /\ pc = [i \in Installers |-> "queued"]
    /\ attempt = [i \in Installers |-> 1]
    /\ result = [i \in Installers |-> NewResult]
    /\ attempts = [i \in Installers |-> << >>]
    /\ containers = {}
    /\ permits = MaxParallel

-----------------------------------------------------------------------------
(* Mutant: `let _ = acquire()', the permit is dropped at once.             *)
AcquireDropsPermit(i) ==
    /\ pc[i] = "queued"
    /\ permits > 0
    /\ Goto(i, "admitted")
    /\ UNCHANGED <<controlVars, attempt, result, attempts, containers, permits>>

Acquire(i) ==
    /\ pc[i] = "queued"
    /\ permits > 0
    /\ permits' = permits - 1
    /\ Goto(i, "admitted")
    /\ UNCHANGED <<controlVars, attempt, result, attempts, containers>>

(* Mutant: the permit is forgotten, not dropped.                           *)
ReturnLeaksPermit(i, r) ==
    /\ Set(i, r)
    /\ Goto(i, "done")
    /\ UNCHANGED permits

(* The task returns r: its permit is dropped with it.                      *)
Return(i, r) ==
    /\ Set(i, r)
    /\ Goto(i, "done")
    /\ permits' = permits + 1

(* Queued work after cancellation, first look: the run token.              *)
CheckRunToken(i) ==
    /\ pc[i] = "admitted"
    /\ IF runToken
       THEN Return(i, finalize_failure(mark_cancelled(NewResult, {})))
       ELSE Goto(i, "cleared") /\ UNCHANGED <<result, permits>>
    /\ UNCHANGED <<controlVars, attempt, attempts, containers>>

(* Second look: the pool token, taken to mean fail-fast.                   *)
CheckPoolToken(i) ==
    /\ pc[i] = "cleared"
    /\ IF poolToken
       THEN Return(i, [NewResult EXCEPT !.status = "skipped"])
       ELSE Goto(i, "attempt") /\ UNCHANGED <<result, permits>>
    /\ UNCHANGED <<controlVars, attempt, attempts, containers>>

Run(i) ==
    /\ ExecutorStep(i, poolToken)
    /\ UNCHANGED <<controlVars, permits>>

(* Mutant: the executor's error is not classified.                         *)
RecoverUnclassified(i) ==
    /\ pc[i] = "error"
    /\ Set(i, Failed(NewResult, {}))
    /\ attempts' = [attempts EXCEPT ![i] = << >>]
    /\ Goto(i, "returned")
    /\ UNCHANGED <<controlVars, attempt, containers, permits>>

(* run_test_with_retry returned Err: a new Failed result takes the place   *)
(* of everything the attempts had recorded.                                *)
RecoverError(i) ==
    /\ pc[i] = "error"
    /\ \E out \in Outputs : Set(i, finalize_failure(Failed(NewResult, out)))
    /\ attempts' = [attempts EXCEPT ![i] = << >>]
    /\ Goto(i, "returned")
    /\ UNCHANGED <<controlVars, attempt, containers, permits>>

(* Mutant: every task that ends cancels the pool.                          *)
FinishAlwaysCancels(i) ==
    /\ pc[i] = "returned"
    /\ poolToken' = TRUE
    /\ Return(i, result[i])
    /\ UNCHANGED <<runToken, seen, handler, deadlineHit, timer,
                   attempt, attempts, containers>>

(* The end of the task: fail-fast, then the permit is dropped.             *)
Finish(i) ==
    /\ pc[i] = "returned"
    /\ poolToken' = (poolToken \/ (/\ FailFast
                                   /\ ~ success(result[i])
                                   /\ result[i].status # "cancelled"))
    /\ Return(i, result[i])
    /\ UNCHANGED <<runToken, seen, handler, deadlineHit, timer,
                   attempt, attempts, containers>>

Worker(i) ==
    \/ Acquire(i)
    \/ CheckRunToken(i)
    \/ CheckPoolToken(i)
    \/ Run(i)
    \/ RecoverError(i)
    \/ Finish(i)

Control == ControlNext /\ UNCHANGED <<execVars, permits>>

AllDone == \A i \in Installers : pc[i] = "done"

(* run_all has collected every result; the process goes on elsewhere.      *)
Terminated == AllDone /\ UNCHANGED vars

Next ==
    \/ \E i \in Installers : Worker(i)
    \/ Control
    \/ Terminated

(* Workers are tokio tasks on a multi-threaded runtime: a runnable one is  *)
(* eventually polled.  An exec ends at the latest at the test timeout; for *)
(* the calls the code puts no timeout around (creating a container, curl,  *)
(* removing a container) it is the environment that must answer.           *)
Fairness ==
    /\ \A i \in Installers : WF_vars(Worker(i))
    /\ WF_vars(SignalCancels /\ UNCHANGED <<execVars, permits>>)
    /\ WF_vars(DeadlineFlags /\ UNCHANGED <<execVars, permits>>)
    /\ WF_vars(DeadlineCancels /\ UNCHANGED <<execVars, permits>>)

Spec == Init /\ [][Next]_vars

FairSpec == Spec /\ Fairness

-----------------------------------------------------------------------------
InFlight == {i \in Installers : pc[i] \notin {"queued", "done"}}

(* The semaphore bounds the work: at most MaxParallel tasks are between    *)
(* acquiring their permit and returning, on every path a task can take     *)
(* (run_all, parallel.rs:62-104).                                          *)
BoundedConcurrency == Cardinality(InFlight) <= MaxParallel

(* Contract of executor.rs (line 12) and of should_retry_result: an        *)
(* attempt that is followed by another one failed, and its output shows a  *)
(* network error or a held package lock; an unclassified failure, a        *)
(* mismatch, a post-install failure, a timeout or a cancellation never is. *)
OnlyTransientRetried ==
    \A i \in Installers : \A n \in 1..Len(attempts[i]) :
        (n < attempt[i]) =>
            /\ attempts[i][n].status = "failed"
            /\ attempts[i][n].text \cap {"network", "apt_lock"} # {}
            /\ attempts[i][n].text \cap {"checksum", "post_install_marker",
                   "timeout", "cancelled_marker", "interrupted"} = {}

(* The retry loop's arithmetic: attempt_index stays within max_attempts,   *)
(* and the attempt records are exactly the attempts made, unless an        *)
(* executor error replaced them (run_test_with_retry, executor.rs:877-947).*)
AttemptBudget ==
    \A i \in Installers :
        /\ attempt[i] \in 1..max_attempts(i)
        /\ Len(attempts[i]) \in {0, attempt[i] - 1, attempt[i]}
        /\ pc[i] = "attempt" => Len(attempts[i]) = attempt[i] - 1

(* Every result a task returns is a verdict, and a failed, timed out or    *)
(* cancelled one says why (finalize_failure on every path).                *)
FailuresClassified ==
    \A i \in Installers : pc[i] = "done" =>
        /\ result[i].status # "pending"
        /\ result[i].status \in {"failed", "timed_out", "cancelled"}
              => result[i].error # "none"
        /\ result[i].status = "passed" => result[i].error = "none"

(* With a daemon that obeys, a container lives only while its attempt is   *)
(* between create_container and guard.cleanup: early returns, timeouts and *)
(* cancellations all remove it (run_test_docker, executor.rs:419-608).     *)
NoContainerLeft ==
    \A c \in containers :
        /\ c[2] = attempt[c[1]]
        /\ pc[c[1]] \in {"exec", "stopping", "checks", "checking", "cleanup"}

RealFailure(i) ==
    /\ pc[i] = "done"
    /\ result[i].status \in {"failed", "timed_out"}

FailFastFired == FailFast /\ \E j \in Installers : RealFailure(j)

(* A verdict that blames the run and not the installer has a cause         *)
(* (parallel.rs:6-8).  An installer that was never started is Cancelled    *)
(* only when the run token was; one in flight also when fail-fast stopped  *)
(* the pool.  Only one that never started is Skipped: because fail-fast    *)
(* stopped the pool, or because the run token was cancelled between its    *)
(* two looks (that the latter happens is SkippedMeansFailFast's finding).  *)
StopHasACause ==
    \A i \in Installers : pc[i] = "done" =>
        /\ result[i].status = "cancelled" =>
              runToken \/ (attempts[i] # << >> /\ FailFastFired)
        /\ result[i].status = "skipped" =>
              attempts[i] = << >> /\ (runToken \/ FailFastFired)

(* parallel.rs:6-8 and 65, "fail-fast yields Skipped", "a signal [...]     *)
(* produces the same shape with `Cancelled`": who is reported as skipped   *)
(* due to fail-fast was kept from running by fail-fast.                    *)
SkippedMeansFailFast ==
    \A i \in Installers :
        pc[i] = "done" /\ result[i].status = "skipped" => FailFastFired

(* Every installer gets its verdict: no permit, retry or cancellation path *)
(* leaves a task waiting, so run_all returns (parallel.rs:106-116).        *)
EveryInstallerJudged == <>AllDone

Contract == INSTANCE RunContract
                WITH Jobs <- Installers, Limit <- MaxParallel,
                     StopOnError <- FailFast,
                     phase <- [i \in Installers |-> PhaseOf(i)],
                     stopped <- poolToken

(* The pool keeps the promises of RunContract, on every interleaving of    *)
(* its workers, the signal handler and the deadline task.                  *)
PoolKeepsContract == Contract!ContractSpec
=============================================================================
