----------------------------- MODULE PoolCheck -----------------------------
(***************************************************************************)
(* `check' with [execution].parallel > 1: run_all (module InstallerPool),  *)
(* whose Vec of results cmd_check then evaluates (module CheckRun).        *)
(***************************************************************************)
EXTENDS InstallerPool, CheckRun

checkPoolVars == <<vars, checkVars>>

PoolCheckTypeOK == TypeOK /\ CheckTypeOK

PoolCheckInit == Init /\ CheckInit

PoolWork ==
    /\ main = "work"
    /\ \E i \in Installers : Worker(i)
    /\ UNCHANGED checkVars

(* Every handle has been awaited.                                          *)
CollectPool ==
    /\ main = "work"
    /\ AllDone
    /\ collected' = Installers
    /\ main' = "read_deadline"
    /\ UNCHANGED <<vars, readVars, outVars>>

(* The handler and the deadline task die with the process.                 *)
PoolControl ==
    /\ main # "exited"
    /\ Control
    /\ UNCHANGED checkVars

PoolEpilogue == Epilogue /\ UNCHANGED vars

PoolExited == Exited /\ UNCHANGED checkPoolVars

PoolCheckNext ==
    \/ PoolWork
    \/ CollectPool
    \/ PoolControl
    \/ PoolEpilogue
    \/ PoolExited

PoolCheckSpec == PoolCheckInit /\ [][PoolCheckNext]_checkPoolVars

(* README.md:183-184: at the deadline, "exit 0 unless something actually   *)
(* failed".  An installer whose check was abandoned on cancellation did    *)
(* not actually fail.                                                      *)
DeadlineIsNotAFailure ==
    (/\ Exited
     /\ deadlineHit
     /\ seen = "none"
     /\ \A i \in Installers :
           \/ result[i].status \in {"passed", "skipped", "cancelled"}
           \/ "interrupted" \in result[i].text)
       => exitCode = 0
=============================================================================
