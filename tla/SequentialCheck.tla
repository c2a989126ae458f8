--------------------------- MODULE SequentialCheck ---------------------------
(***************************************************************************)
(* `check' with [execution].parallel = 1: cmd_check runs the installers in *)
(* order itself (main.rs:1798-1826), with the run token, and then goes on  *)
(* as CheckRun says.                                                       *)
(***************************************************************************)
EXTENDS CheckRun

CONSTANTS Order,    \* the runnable installers as order_specs returns them
          FailFast  \* --fail-fast

ASSUME OrderAssumption ==
    /\ Order \in Seq(Installers)
    /\ \A i \in Installers : \E n \in 1..Len(Order) : Order[n] = i
    /\ \A m, n \in 1..Len(Order) : Order[m] = Order[n] => m = n
ASSUME FailFastAssumption == FailFast \in BOOLEAN

VARIABLES queue,    \* what the iterator has not handed out
          draining  \* the first loop was left: the rest is not run

seqVars == <<controlVars, execVars, checkVars, queue, draining>>

SeqTypeOK ==
    /\ ControlTypeOK
    /\ CheckTypeOK
    /\ pc \in [Installers -> ExecutorPc \cup {"queued", "done"}]
    /\ attempt \in [Installers -> Nat]
    /\ \A i \in Installers : attempt[i] <= max_attempts(i)
    /\ result \in [Installers -> Results]
    /\ attempts \in [Installers -> Seq(AttemptRecords)]
    /\ containers \subseteq Installers \X Nat
    /\ queue \in Seq(Installers)
    /\ draining \in BOOLEAN

SeqInit ==
    /\ ControlInit
    /\ CheckInit
    /\ pc = [i \in Installers |-> "queued"]
    /\ attempt = [i \in Installers |-> 1]
    /\ result = [i \in Installers |-> NewResult]
    /\ attempts = [i \in Installers |-> << >>]
    /\ containers = {}
    /\ queue = Order
    /\ draining = FALSE

-----------------------------------------------------------------------------
Active == {i \in Installers : pc[i] \notin {"queued", "done"}}

(* The next iteration of the first loop.                                   *)
StartNext ==
    /\ main = "work"
    /\ Active = {}
    /\ ~ draining
    /\ queue # << >>
    /\ Goto(Head(queue), "attempt")
    /\ queue' = Tail(queue)
    /\ UNCHANGED <<controlVars, attempt, result, attempts, containers,
                   checkVars, draining>>

SeqRun(i) ==
    /\ main = "work"
    /\ ExecutorStep(i, runToken)
    /\ UNCHANGED <<controlVars, checkVars, queue, draining>>

(* Mutant: any result ends the first loop, fail-fast or not.               *)
PushAndStop(i) ==
    /\ main = "work"
    /\ pc[i] = "returned"
    /\ Goto(i, "done")
    /\ collected' = collected \cup {i}
    /\ draining' = TRUE
    /\ UNCHANGED <<controlVars, attempt, result, attempts, containers, main,
                   readVars, outVars, queue>>

(* The result is pushed; a cancelled run or fail-fast leaves the loop.     *)
PushResult(i) ==
    /\ main = "work"
    /\ pc[i] = "returned"
    /\ Goto(i, "done")
    /\ collected' = collected \cup {i}
    /\ draining' = (runToken \/ (FailFast /\ ~ success(result[i])))
    /\ UNCHANGED <<controlVars, attempt, result, attempts, containers, main,
                   readVars, outVars, queue>>

(* `run_test_with_retry(test).await?': an executor error ends cmd_check at *)
(* once, with the exit code of AfscError::Other.                           *)
AbortRun(i) ==
    /\ main = "work"
    /\ pc[i] = "error"
    /\ main' = "exited"
    /\ exitCode' = 1
    /\ UNCHANGED <<controlVars, execVars, collected, readVars, remediated,
                   summaryCode, saved, notified, queue, draining>>

(* Mutant: only a cancelled run accounts for the installers left over.     *)
DrainOnlyWhenCancelled ==
    /\ main = "work"
    /\ draining /\ runToken
    /\ queue # << >>
    /\ Set(Head(queue), finalize_failure(mark_cancelled(NewResult, {})))
    /\ Goto(Head(queue), "done")
    /\ collected' = collected \cup {Head(queue)}
    /\ queue' = Tail(queue)
    /\ UNCHANGED <<controlVars, attempt, attempts, containers, main, readVars,
                   outVars, draining>>

(* The second loop: what was not run is Cancelled or Skipped.              *)
DrainNext ==
    /\ main = "work"
    /\ draining
    /\ queue # << >>
    /\ LET i == Head(queue)
       IN /\ Set(i, IF runToken
                    THEN finalize_failure(mark_cancelled(NewResult, {}))
                    ELSE [NewResult EXCEPT !.status = "skipped"])
          /\ Goto(i, "done")
          /\ collected' = collected \cup {i}
    /\ queue' = Tail(queue)
    /\ UNCHANGED <<controlVars, attempt, attempts, containers, main, readVars,
                   outVars, draining>>

CollectSequential ==
    /\ main = "work"
    /\ Active = {}
    /\ queue = << >>
    /\ main' = "read_deadline"
    /\ UNCHANGED <<controlVars, execVars, collected, readVars, outVars, queue,
                   draining>>

SeqControl ==
    /\ main # "exited"
    /\ ControlNext
    /\ UNCHANGED <<execVars, checkVars, queue, draining>>

SeqEpilogue == Epilogue /\ UNCHANGED <<controlVars, execVars, queue, draining>>

SeqExited == Exited /\ UNCHANGED seqVars

SeqWork ==
    \/ StartNext
    \/ \E i \in Installers : SeqRun(i) \/ PushResult(i) \/ AbortRun(i)
    \/ DrainNext
    \/ CollectSequential

SeqNext ==
    \/ SeqWork
    \/ SeqControl
    \/ SeqEpilogue
    \/ SeqExited

SeqSpec == SeqInit /\ [][SeqNext]_seqVars

(* cmd_check is one future: it is polled until it is ready.                *)
SeqFairSpec == SeqSpec /\ WF_seqVars(SeqWork \/ SeqEpilogue)

-----------------------------------------------------------------------------
(* A queued installer after fail-fast is Skipped, after a cancellation it  *)
(* is Cancelled, and in both cases something caused it (main.rs:1799-1801).*)
SequentialStopHasACause ==
    \A i \in collected :
        /\ result[i].status = "skipped" =>
              FailFast /\ \E j \in collected : result[j].status \in {"failed", "timed_out"}
        /\ result[i].status = "cancelled" => runToken

(* The sequential run ends: every installer is executed, cancelled or      *)
(* skipped, or an executor error ends the command.                         *)
SequentialRunEnds == <>Exited

Contract == INSTANCE RunContract
                WITH Jobs <- Installers, Limit <- 1, StopOnError <- FailFast,
                     phase <- [i \in Installers |-> PhaseOf(i)],
                     stopped <- runToken \/ draining

(* main.rs:1799, "same result shape as the pool": the sequential loop      *)
(* keeps the same promises, with one installer at a time.                  *)
SequentialKeepsContract == Contract!ContractSpec
=============================================================================
