---------------------------- MODULE RunContract ----------------------------
(***************************************************************************)
(* What a run promises about its installers, whichever way they are        *)
(* scheduled (docs of parallel.rs, lines 3-8, and main.rs, lines           *)
(* 1799-1801):                                                             *)
(*   - an attempt starts only while the run is not stopped, and at most    *)
(*     Limit of them are under way at any time;                            *)
(*   - an installer is judged once, and not while an attempt is under way; *)
(*   - Cancelled and Skipped are only given after the run was stopped;     *)
(*   - the run is stopped from outside, or by the first real failure when  *)
(*     fail-fast is on, in the step that reports that failure.             *)
(* InstallerPool and SequentialCheck are shown to implement it.            *)
(***************************************************************************)
EXTENDS Integers, FiniteSets

CONSTANTS Jobs,        \* the installers of the run
          Limit,       \* how many may run at once
          StopOnError  \* fail-fast

VARIABLES phase,   \* "idle", "running", or the verdict
          stopped  \* no attempt starts any more

contractVars == <<phase, stopped>>

Verdicts == {"passed", "failed", "timed_out", "cancelled", "skipped"}

ContractInit ==
    /\ phase = [j \in Jobs |-> "idle"]
    /\ stopped = FALSE

Running == {j \in Jobs : phase[j] = "running"}

StartAttempt(j) ==
    /\ phase[j] = "idle"
    /\ ~ stopped
    /\ Cardinality(Running) < Limit
    /\ phase' = [phase EXCEPT ![j] = "running"]
    /\ UNCHANGED stopped

EndAttempt(j) ==
    /\ phase[j] = "running"
    /\ phase' = [phase EXCEPT ![j] = "idle"]
    /\ UNCHANGED stopped

Judge(j, v) ==
    /\ phase[j] = "idle"
    /\ v \in {"cancelled", "skipped"} => stopped
    /\ phase' = [phase EXCEPT ![j] = v]
    /\ stopped' = (stopped \/ (StopOnError /\ v \in {"failed", "timed_out"}))

Stop ==
    /\ stopped' = TRUE
    /\ UNCHANGED phase

ContractNext ==
    \/ \E j \in Jobs : StartAttempt(j) \/ EndAttempt(j)
    \/ \E j \in Jobs, v \in Verdicts : Judge(j, v)
    \/ Stop

ContractSpec == ContractInit /\ [][ContractNext]_contractVars
=============================================================================
