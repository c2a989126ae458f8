----------------------------- MODULE RunControl -----------------------------
(***************************************************************************)
(* What can stop a `check` run: the SIGINT/SIGTERM handler task and the    *)
(* whole-run deadline task of cmd_check, and the two cancellation tokens   *)
(* they act on.  poolToken is a child of runToken (ParallelRunner::run_all *)
(* creates it), so cancelling the run cancels the pool in the same step;   *)
(* fail-fast cancels the pool alone (InstallerPool).                       *)
(*                                                                         *)
(* Both tasks run on their own tokio workers: each statement below is a    *)
(* step of its own, and the installers' workers run in between.            *)
(***************************************************************************)

CONSTANTS Signals,    \* the signals the environment may deliver
          HasDeadline \* [execution].run_deadline_seconds > 0

ASSUME SignalsAssumption == Signals \subseteq {"interrupt", "terminate"}
ASSUME HasDeadlineAssumption == HasDeadline \in BOOLEAN

VARIABLES runToken,    \* the run's CancellationToken is cancelled
          poolToken,   \* the pool's child token is cancelled
          seen,        \* the handler's Arc<Mutex<Option<Signal>>>
          handler,     \* program counter of the signal handler task
          deadlineHit, \* the AtomicBool the deadline task stores
          timer        \* program counter of the deadline task

controlVars == <<runToken, poolToken, seen, handler, deadlineHit, timer>>

ControlTypeOK ==
    /\ runToken \in BOOLEAN
    /\ poolToken \in BOOLEAN
    /\ seen \in {"none"} \cup Signals
    /\ handler \in {"waiting", "cancelling", "done"}
    /\ deadlineHit \in BOOLEAN
    /\ timer \in {"sleeping", "expired", "flagged", "done"}

ControlInit ==
    /\ runToken = FALSE
    /\ poolToken = FALSE
    /\ seen = "none"
    /\ handler = "waiting"
    /\ deadlineHit = FALSE
    /\ timer = IF HasDeadline THEN "sleeping" ELSE "done"

(* token.cancel() on the run token: its child is cancelled with it.        *)
CancelRun ==
    /\ runToken' = TRUE
    /\ poolToken' = TRUE

-----------------------------------------------------------------------------
(* The handler is single-shot: the first signal is remembered ...          *)
SignalArrives(s) ==
    /\ handler = "waiting"
    /\ seen' = s
    /\ handler' = "cancelling"
    /\ UNCHANGED <<runToken, poolToken, deadlineHit, timer>>

(* ... and then the run is cancelled.                                      *)
SignalCancels ==
    /\ handler = "cancelling"
    /\ CancelRun
    /\ handler' = "done"
    /\ UNCHANGED <<seen, deadlineHit, timer>>

(* The deadline passes: the task returns if the run is already cancelled.  *)
DeadlineExpires ==
    /\ timer = "sleeping"
    /\ timer' = IF runToken THEN "done" ELSE "expired"
    /\ UNCHANGED <<runToken, poolToken, seen, handler, deadlineHit>>

DeadlineFlags ==
    /\ timer = "expired"
    /\ deadlineHit' = TRUE
    /\ timer' = "flagged"
    /\ UNCHANGED <<runToken, poolToken, seen, handler>>

DeadlineCancels ==
    /\ timer = "flagged"
    /\ CancelRun
    /\ timer' = "done"
    /\ UNCHANGED <<seen, handler, deadlineHit>>

ControlNext ==
    \/ \E s \in Signals : SignalArrives(s)
    \/ SignalCancels
    \/ DeadlineExpires
    \/ DeadlineFlags
    \/ DeadlineCancels
=============================================================================
