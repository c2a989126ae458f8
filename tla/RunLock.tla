------------------------------- MODULE RunLock -------------------------------
(***************************************************************************)
(* lock.rs: the pid-file lock that keeps two `check' processes on one data *)
(* directory apart.  Every system call of try_acquire is a step, so other  *)
(* processes act between O_EXCL-creating the file and writing the pid into *)
(* it, and between reading a pid, probing it and removing the file.  A     *)
(* process may be killed at any step and then leaves the file behind.      *)
(*                                                                         *)
(* A process is one invocation and has a pid of its own.  A write goes to  *)
(* the file the process created, even when its name was removed meanwhile. *)
(*                                                                         *)
(* The data directory can be written: the code ignores an error of writing *)
(* the pid (lock.rs:35-36), after which the next process takes the empty   *)
(* file of a live holder for stale, and errors of the two remove_file      *)
(* calls (lock.rs:46,68), after which a stale file stays.                  *)
(***************************************************************************)
EXTENDS Naturals, FiniteSets

CONSTANTS Procs,   \* the `check' processes, in the place of their pids
          Nobody   \* no process

ASSUME NobodyAssumption == Nobody \notin Procs

VARIABLES file,   \* the lock file: who created it, whether it has its pid
          pc,     \* where a process is
          tries,  \* iterations of try_acquire's loop begun
          saw,    \* what read_holder returned
          rival   \* a live holder existed when the process started

vars == <<file, pc, tries, saw, rival>>

NoFile == [creator |-> Nobody, written |-> FALSE]
Files == [creator : Procs \cup {Nobody}, written : BOOLEAN]

Acquiring == {"open", "read", "judge", "remove", "write"}
LockPc == Acquiring \cup {"new", "held", "released", "refused", "exited"}

TypeOK ==
    /\ file \in Files
    /\ pc \in [Procs -> LockPc]
    /\ tries \in [Procs -> 0..2]
    /\ saw \in [Procs -> Procs \cup {Nobody}]
    /\ rival \in [Procs -> BOOLEAN]

Init ==
    /\ file = NoFile
    /\ pc = [p \in Procs |-> "new"]
    /\ tries = [p \in Procs |-> 0]
    /\ saw = [p \in Procs |-> Nobody]
    /\ rival = [p \in Procs |-> FALSE]

(* pid_alive: /proc/<pid> exists.                                          *)
pid_alive(p) == p \in Procs /\ pc[p] \notin {"new", "exited"}

(* create_new succeeded: from here on the process acts as the holder.      *)
Holds(p) == pc[p] \in {"write", "held"}

(* read_holder: nothing from a missing or a still empty file.              *)
read_holder == IF file.written THEN file.creator ELSE Nobody

Goto(p, label) == pc' = [pc EXCEPT ![p] = label]

-----------------------------------------------------------------------------
Start(p) ==
    /\ pc[p] = "new"
    /\ Goto(p, "open")
    /\ tries' = [tries EXCEPT ![p] = 1]
    /\ rival' = [rival EXCEPT ![p] = \E q \in Procs : Holds(q)]
    /\ UNCHANGED <<file, saw>>

(* OpenOptions::create_new: atomic, fails when the name exists.            *)
Open(p) ==
    /\ pc[p] = "open"
    /\ IF file = NoFile
       THEN /\ file' = [creator |-> p, written |-> FALSE]
            /\ Goto(p, "write")
       ELSE /\ Goto(p, "read")
            /\ UNCHANGED file
    /\ UNCHANGED <<tries, saw, rival>>

(* Any other error of the open ends the command.                           *)
OpenFails(p) ==
    /\ pc[p] = "open"
    /\ Goto(p, "exited")
    /\ UNCHANGED <<file, tries, saw, rival>>

WritePid(p) ==
    /\ pc[p] = "write"
    /\ file' = IF file.creator = p THEN [file EXCEPT !.written = TRUE] ELSE file
    /\ Goto(p, "held")
    /\ UNCHANGED <<tries, saw, rival>>

Read(p) ==
    /\ pc[p] = "read"
    /\ saw' = [saw EXCEPT ![p] = read_holder]
    /\ Goto(p, "judge")
    /\ UNCHANGED <<file, tries, rival>>

(* Mutant: a holder is taken for stale without probing its pid.            *)
JudgeAlwaysStale(p) ==
    /\ pc[p] = "judge"
    /\ Goto(p, "remove")
    /\ UNCHANGED <<file, tries, saw, rival>>

(* Mutant: an unreadable holder is taken for a live one.                   *)
JudgeUnreadableAsHeld(p) ==
    /\ pc[p] = "judge"
    /\ Goto(p, IF saw[p] = Nobody \/ pid_alive(saw[p]) THEN "refused" ELSE "remove")
    /\ UNCHANGED <<file, tries, saw, rival>>

(* A live pid refuses; a dead or unreadable one is taken for stale.        *)
Judge(p) ==
    /\ pc[p] = "judge"
    /\ Goto(p, IF pid_alive(saw[p]) THEN "refused" ELSE "remove")
    /\ UNCHANGED <<file, tries, saw, rival>>

(* Reclaim whatever is at the path now, and try once more.                 *)
Remove(p) ==
    /\ pc[p] = "remove"
    /\ file' = NoFile
    /\ IF tries[p] < 2
       THEN Goto(p, "open") /\ tries' = [tries EXCEPT ![p] = @ + 1]
       ELSE Goto(p, "refused") /\ UNCHANGED tries
    /\ UNCHANGED <<saw, rival>>

(* Drop for RunLock: the path is removed, whoever's file it is.            *)
Release(p) ==
    /\ pc[p] = "held"
    /\ file' = NoFile
    /\ Goto(p, "released")
    /\ UNCHANGED <<tries, saw, rival>>

Exit(p) ==
    /\ pc[p] \in {"released", "refused"}
    /\ Goto(p, "exited")
    /\ UNCHANGED <<file, tries, saw, rival>>

(* SIGKILL or power loss of the process: nothing is cleaned up.            *)
Kill(p) ==
    /\ pc[p] \in Acquiring \cup {"held", "released"}
    /\ Goto(p, "exited")
    /\ UNCHANGED <<file, tries, saw, rival>>

Step(p) ==
    \/ Open(p) \/ OpenFails(p) \/ WritePid(p) \/ Read(p) \/ Judge(p)
    \/ Remove(p) \/ Release(p) \/ Exit(p) \/ Kill(p)

AllExited == (\A p \in Procs : pc[p] = "exited") /\ UNCHANGED vars

Next == (\E p \in Procs : Start(p) \/ Step(p)) \/ AllExited

Spec == Init /\ [][Next]_vars

(* Processes that do not overlap in try_acquire: the timer and the manual  *)
(* runs a host really has, apart by more than the few system calls.        *)
Alone(p) == \A q \in Procs : q # p => pc[q] \notin Acquiring

SerialNext ==
    \/ \E p \in Procs : (Alone(p) /\ Start(p)) \/ Step(p)
    \/ AllExited

SerialSpec == Init /\ [][SerialNext]_vars

-----------------------------------------------------------------------------
(* lock.rs:3, "Two `check` processes [...] must not interleave".           *)
MutualExclusion == \A p, q \in Procs : Holds(p) /\ Holds(q) => p = q

(* lock.rs:5-6, "a SIGKILLed run never wedges the next one": whatever file *)
(* the dead left behind, empty or not, a process is only refused when some *)
(* live process held the lock as it started.                               *)
NeverWedged == \A p \in Procs : pc[p] = "refused" => rival[p]

(* Nobody removes the file of a live holder: a third process would find no *)
(* trace of it.                                                            *)
HolderKeepsItsFile ==
    \A p \in Procs : Holds(p) => /\ file.creator = p
                                 /\ file.written = (pc[p] = "held")
=============================================================================
