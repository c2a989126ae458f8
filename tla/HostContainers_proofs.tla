------------------------ MODULE HostContainers_proofs ------------------------
(***************************************************************************)
(* The run lock is exclusive and never wedges, for any number of processes *)
(* killed at any step, as long as no two of them are inside try_acquire at *)
(* the same time (SerialSpec).  Spec itself does not satisfy               *)
(* MutualExclusion: the overlap is what TLC's counterexample exploits.     *)
(*                                                                         *)
(* A host with any number of processes and containers implements that      *)
(* serial lock; a check that has reaped shares the daemon with no          *)
(* container of another check, and no live container is taken away.        *)
(***************************************************************************)
EXTENDS HostContainers, TLAPS

(* At most one process is inside try_acquire.                              *)
OneAcquirer ==
    \A p, q \in Procs : pc[p] \in Acquiring /\ pc[q] \in Acquiring => p = q

(* The creator of the file at the path holds the lock, or is dead.         *)
OwnerHoldsOrDied ==
    \A q \in Procs : file.creator = q => Holds(q) \/ pc[q] = "exited"

NobodyWrites == file.creator = Nobody => file = NoFile

(* What a process inside try_acquire knows: a live holder was there when   *)
(* it started and is the one it read; before it removes the file there is  *)
(* no live holder; and on its second try the path is free.                 *)
AcquirerKnows ==
    \A p \in Procs :
        /\ pc[p] \in {"open", "read", "judge", "remove"} =>
              \A h \in Procs : Holds(h) => rival[p]
        /\ pc[p] = "judge" =>
              /\ \A h \in Procs : Holds(h) => saw[p] = h
              /\ saw[p] \in Procs => rival[p] \/ pc[saw[p]] = "exited"
        /\ pc[p] = "remove" => \A h \in Procs : ~ Holds(h)
        /\ pc[p] \in {"open", "read", "judge", "remove"} /\ tries[p] # 1 =>
              pc[p] = "open" /\ file = NoFile

SerialInv ==
    /\ TypeOK
    /\ OneAcquirer
    /\ OwnerHoldsOrDied
    /\ NobodyWrites
    /\ HolderKeepsItsFile
    /\ AcquirerKnows
    /\ NeverWedged

-----------------------------------------------------------------------------
(* Type correctness of the lock protocol, overlapping or not: every step   *)
(* of try_acquire and Drop keeps the state in its types.                   *)
LEMMA TypeStep == TypeOK /\ [Next]_vars => TypeOK'
<1> SUFFICES ASSUME TypeOK, [Next]_vars PROVE TypeOK'
  OBVIOUS
<1> USE NobodyAssumption DEF TypeOK, Files, NoFile, LockPc, Acquiring, Goto
<1>1. ASSUME NEW p \in Procs, Start(p) PROVE TypeOK'
  BY <1>1 DEF Start
<1>2. ASSUME NEW p \in Procs, Step(p) PROVE TypeOK'
  <2>1. CASE Open(p)
    <3>1. CASE file = NoFile
      <4>1. /\ file' = [creator |-> p, written |-> FALSE]
            /\ pc' = [pc EXCEPT ![p] = "write"]
            /\ UNCHANGED <<tries, saw, rival>>
        BY <2>1, <3>1 DEF Open
      <4>2. file' \in Files
        BY <4>1 DEF Files
      <4> QED
        BY <4>1, <4>2
    <3>2. CASE file # NoFile
      BY <2>1, <3>2 DEF Open
    <3> QED
      BY <3>1, <3>2
  <2>2. CASE OpenFails(p)
    BY <2>2 DEF OpenFails
  <2>3. CASE WritePid(p)
    BY <2>3 DEF WritePid
  <2>4. CASE Read(p)
    BY <2>4 DEF Read, read_holder
  <2>5. CASE Judge(p)
    BY <2>5 DEF Judge
  <2>6. CASE Remove(p)
    BY <2>6 DEF Remove
  <2>7. CASE Release(p)
    BY <2>7 DEF Release
  <2>8. CASE Exit(p)
    BY <2>8 DEF Exit
  <2>9. CASE Kill(p)
    BY <2>9 DEF Kill
  <2> QED
    BY <1>2, <2>1, <2>2, <2>3, <2>4, <2>5, <2>6, <2>7, <2>8, <2>9 DEF Step
<1>3. CASE UNCHANGED vars
  BY <1>3 DEF vars
<1> QED
  BY <1>1, <1>2, <1>3 DEF Next, AllExited

(* The lock protocol is type correct for any set of processes, under every *)
(* interleaving of try_acquire, Drop and kills.                            *)
THEOREM LockTypeCorrect == Spec => []TypeOK
<1>1. Init => TypeOK
  BY NobodyAssumption DEF Init, TypeOK, Files, NoFile, LockPc, Acquiring
<1> QED
  BY <1>1, TypeStep, PTL DEF Spec

(* Serialised acquisition only removes behaviours.                         *)
LEMMA SerialNextIsNext == SerialNext => Next
BY DEF SerialNext, Next

(* The invariant holds when no process has started.                        *)
LEMMA SerialInit == Init => SerialInv
BY NobodyAssumption
   DEF Init, SerialInv, TypeOK, Files, NoFile, LockPc, Acquiring, OneAcquirer,
       OwnerHoldsOrDied, NobodyWrites, HolderKeepsItsFile, AcquirerKnows,
       NeverWedged, Holds

(* A process enters try_acquire alone.                                     *)
LEMMA StartKeeps ==
    ASSUME SerialInv, TypeOK', NEW p \in Procs, Alone(p), Start(p)
    PROVE  SerialInv'
<1> USE NobodyAssumption
    DEF SerialInv, TypeOK, Files, NoFile, LockPc, Acquiring, Goto, Holds,
        Alone, Start
<1>1. OneAcquirer'
  BY DEF OneAcquirer
<1>2. OwnerHoldsOrDied'
  BY DEF OwnerHoldsOrDied
<1>3. NobodyWrites'
  BY DEF NobodyWrites
<1>4. HolderKeepsItsFile'
  BY DEF HolderKeepsItsFile
<1>5. AcquirerKnows'
  BY DEF OneAcquirer, HolderKeepsItsFile, OwnerHoldsOrDied, AcquirerKnows
<1>6. NeverWedged'
  BY DEF NeverWedged
<1> QED
  BY <1>1, <1>2, <1>3, <1>4, <1>5, <1>6

(* Creating the lock file (create_new) keeps the invariant.                *)
LEMMA OpenKeeps ==
    ASSUME SerialInv, TypeOK', NEW p \in Procs, Open(p)
    PROVE  SerialInv'
<1> USE NobodyAssumption
    DEF SerialInv, TypeOK, Files, NoFile, LockPc, Acquiring, Goto, Holds,
        Open
<1>1. OneAcquirer'
  BY DEF OneAcquirer
<1>2. OwnerHoldsOrDied'
  BY DEF OwnerHoldsOrDied
<1>3. NobodyWrites'
  BY DEF NobodyWrites
<1>4. HolderKeepsItsFile'
  BY DEF HolderKeepsItsFile
<1>5. AcquirerKnows'
  BY DEF OneAcquirer, HolderKeepsItsFile, OwnerHoldsOrDied, AcquirerKnows
<1>6. NeverWedged'
  BY DEF NeverWedged
<1> QED
  BY <1>1, <1>2, <1>3, <1>4, <1>5, <1>6

(* Finding the lock file already there keeps the invariant.                *)
LEMMA OpenFailsKeeps ==
    ASSUME SerialInv, TypeOK', NEW p \in Procs, OpenFails(p)
    PROVE  SerialInv'
<1> USE NobodyAssumption
    DEF SerialInv, TypeOK, Files, NoFile, LockPc, Acquiring, Goto, Holds,
        OpenFails
<1>1. OneAcquirer'
  BY DEF OneAcquirer
<1>2. OwnerHoldsOrDied'
  BY DEF OwnerHoldsOrDied
<1>3. NobodyWrites'
  BY DEF NobodyWrites
<1>4. HolderKeepsItsFile'
  BY DEF HolderKeepsItsFile
<1>5. AcquirerKnows'
  BY DEF AcquirerKnows
<1>6. NeverWedged'
  BY DEF NeverWedged
<1> QED
  BY <1>1, <1>2, <1>3, <1>4, <1>5, <1>6

(* Writing the owner's pid keeps the invariant.                            *)
LEMMA WritePidKeeps ==
    ASSUME SerialInv, TypeOK', NEW p \in Procs, WritePid(p)
    PROVE  SerialInv'
<1> USE NobodyAssumption
    DEF SerialInv, TypeOK, Files, NoFile, LockPc, Acquiring, Goto, Holds,
        WritePid
<1>1. OneAcquirer'
  BY DEF OneAcquirer
<1>2. OwnerHoldsOrDied'
  BY DEF OwnerHoldsOrDied
<1>3. NobodyWrites'
  BY DEF NobodyWrites
<1>4. HolderKeepsItsFile'
  BY DEF HolderKeepsItsFile
<1>5. AcquirerKnows'
  BY DEF OneAcquirer, HolderKeepsItsFile, OwnerHoldsOrDied, AcquirerKnows
<1>6. NeverWedged'
  BY DEF NeverWedged
<1> QED
  BY <1>1, <1>2, <1>3, <1>4, <1>5, <1>6

(* Reading the lock file keeps the invariant.                              *)
LEMMA ReadKeeps ==
    ASSUME SerialInv, TypeOK', NEW p \in Procs, Read(p)
    PROVE  SerialInv'
<1> USE NobodyAssumption
    DEF SerialInv, TypeOK, Files, NoFile, LockPc, Acquiring, Goto, Holds,
        Read, read_holder
<1>1. OneAcquirer'
  BY DEF OneAcquirer
<1>2. OwnerHoldsOrDied'
  BY DEF OwnerHoldsOrDied
<1>3. NobodyWrites'
  BY DEF NobodyWrites
<1>4. HolderKeepsItsFile'
  BY DEF HolderKeepsItsFile
<1>5. AcquirerKnows'
  BY DEF OneAcquirer, HolderKeepsItsFile, OwnerHoldsOrDied, AcquirerKnows
<1>6. NeverWedged'
  BY DEF NeverWedged
<1> QED
  BY <1>1, <1>2, <1>3, <1>4, <1>5, <1>6

(* Judging the recorded pid keeps the invariant.                           *)
LEMMA JudgeKeeps ==
    ASSUME SerialInv, TypeOK', NEW p \in Procs, Judge(p)
    PROVE  SerialInv'
<1> USE NobodyAssumption
    DEF SerialInv, TypeOK, Files, NoFile, LockPc, Acquiring, Goto, Holds,
        Judge, pid_alive
<1>1. OneAcquirer'
  BY DEF OneAcquirer
<1>2. OwnerHoldsOrDied'
  BY DEF OwnerHoldsOrDied
<1>3. NobodyWrites'
  BY DEF NobodyWrites
<1>4. HolderKeepsItsFile'
  BY DEF HolderKeepsItsFile
<1>5. AcquirerKnows'
  BY DEF OneAcquirer, HolderKeepsItsFile, AcquirerKnows
<1>6. NeverWedged'
  BY DEF AcquirerKnows, NeverWedged
<1> QED
  BY <1>1, <1>2, <1>3, <1>4, <1>5, <1>6

(* Removing a stale lock file keeps the invariant.                         *)
LEMMA RemoveKeeps ==
    ASSUME SerialInv, TypeOK', NEW p \in Procs, Remove(p)
    PROVE  SerialInv'
<1> USE NobodyAssumption
    DEF SerialInv, TypeOK, Files, NoFile, LockPc, Acquiring, Goto, Holds,
        Remove
<1>1. OneAcquirer'
  BY DEF OneAcquirer
<1>2. OwnerHoldsOrDied'
  BY DEF OwnerHoldsOrDied
<1>3. NobodyWrites'
  BY DEF NobodyWrites
<1>4. HolderKeepsItsFile'
  BY DEF AcquirerKnows, HolderKeepsItsFile
<1>5. AcquirerKnows'
  BY DEF AcquirerKnows
<1>6. NeverWedged'
  BY DEF AcquirerKnows, NeverWedged
<1> QED
  BY <1>1, <1>2, <1>3, <1>4, <1>5, <1>6

(* Dropping the guard keeps the invariant.                                 *)
LEMMA ReleaseKeeps ==
    ASSUME SerialInv, TypeOK', NEW p \in Procs, Release(p)
    PROVE  SerialInv'
<1> USE NobodyAssumption
    DEF SerialInv, TypeOK, Files, NoFile, LockPc, Acquiring, Goto, Holds,
        Release
<1>1. OneAcquirer'
  BY DEF OneAcquirer
<1>2. OwnerHoldsOrDied'
  BY DEF OwnerHoldsOrDied
<1>3. NobodyWrites'
  BY DEF NobodyWrites
<1>4. HolderKeepsItsFile'
  BY DEF HolderKeepsItsFile
<1>5. AcquirerKnows'
  BY DEF AcquirerKnows
<1>6. NeverWedged'
  BY DEF NeverWedged
<1> QED
  BY <1>1, <1>2, <1>3, <1>4, <1>5, <1>6

(* The end of a process keeps the invariant.                               *)
LEMMA ExitKeeps ==
    ASSUME SerialInv, TypeOK', NEW p \in Procs, Exit(p)
    PROVE  SerialInv'
<1> USE NobodyAssumption
    DEF SerialInv, TypeOK, Files, NoFile, LockPc, Acquiring, Goto, Holds,
        Exit
<1>1. OneAcquirer'
  BY DEF OneAcquirer
<1>2. OwnerHoldsOrDied'
  BY DEF OwnerHoldsOrDied
<1>3. NobodyWrites'
  BY DEF NobodyWrites
<1>4. HolderKeepsItsFile'
  BY DEF HolderKeepsItsFile
<1>5. AcquirerKnows'
  BY DEF AcquirerKnows
<1>6. NeverWedged'
  BY DEF NeverWedged
<1> QED
  BY <1>1, <1>2, <1>3, <1>4, <1>5, <1>6

(* A process killed anywhere keeps the invariant.                          *)
LEMMA KillKeeps ==
    ASSUME SerialInv, TypeOK', NEW p \in Procs, Kill(p)
    PROVE  SerialInv'
<1> USE NobodyAssumption
    DEF SerialInv, TypeOK, Files, NoFile, LockPc, Acquiring, Goto, Holds,
        Kill
<1>1. OneAcquirer'
  BY DEF OneAcquirer
<1>2. OwnerHoldsOrDied'
  BY DEF OwnerHoldsOrDied
<1>3. NobodyWrites'
  BY DEF NobodyWrites
<1>4. HolderKeepsItsFile'
  BY DEF HolderKeepsItsFile
<1>5. AcquirerKnows'
  BY DEF AcquirerKnows
<1>6. NeverWedged'
  BY DEF NeverWedged
<1> QED
  BY <1>1, <1>2, <1>3, <1>4, <1>5, <1>6

(* Every step keeps the invariant.                                         *)
LEMMA SerialStep == SerialInv /\ [SerialNext]_vars => SerialInv'
<1> SUFFICES ASSUME SerialInv, [SerialNext]_vars PROVE SerialInv'
  OBVIOUS
<1>1. TypeOK'
  BY TypeStep, SerialNextIsNext DEF SerialInv
<1>2. ASSUME NEW p \in Procs, Alone(p), Start(p) PROVE SerialInv'
  BY <1>1, <1>2, StartKeeps
<1>3. ASSUME NEW p \in Procs, Step(p) PROVE SerialInv'
  BY <1>1, <1>3, OpenKeeps, OpenFailsKeeps, WritePidKeeps, ReadKeeps,
     JudgeKeeps, RemoveKeeps, ReleaseKeeps, ExitKeeps, KillKeeps DEF Step
<1>4. CASE UNCHANGED vars
  BY <1>4 DEF SerialInv, TypeOK, OneAcquirer, OwnerHoldsOrDied, NobodyWrites,
     HolderKeepsItsFile, AcquirerKnows, NeverWedged, Holds, vars
<1> QED
  BY <1>2, <1>3, <1>4 DEF SerialNext, AllExited

(* The inductive invariant: with one process inside try_acquire at a time, *)
(* what an acquirer knows about the file and its holder stays true until   *)
(* it acts on it, whoever is killed meanwhile.                             *)
THEOREM SerialInvariant == SerialSpec => []SerialInv
BY SerialInit, SerialStep, PTL DEF SerialSpec

(* A live holder's file is never removed or overwritten: a later process   *)
(* finds its pid (try_acquire, lock.rs:29-59).                             *)
THEOREM HolderIsVisible == SerialSpec => []HolderKeepsItsFile
<1>1. SerialInv => HolderKeepsItsFile
  BY DEF SerialInv
<1> QED
  BY <1>1, SerialInvariant, PTL

(* lock.rs:3: no two `check' processes hold the lock, for any number of    *)
(* processes that do not overlap inside try_acquire.                       *)
THEOREM LockIsExclusive == SerialSpec => []MutualExclusion
<1>1. SerialInv => MutualExclusion
  BY DEF SerialInv, HolderKeepsItsFile, MutualExclusion
<1> QED
  BY <1>1, SerialInvariant, PTL

(* lock.rs:5-6: whatever a killed process left at the path, empty file or  *)
(* not, a process is refused only when it met a live holder.               *)
THEOREM LockNeverWedges == SerialSpec => []NeverWedged
<1>1. SerialInv => NeverWedged
  BY DEF SerialInv
<1> QED
  BY <1>1, SerialInvariant, PTL

-----------------------------------------------------------------------------
(* The host: containers and reapers on top of the lock.                    *)

BoxRecords == [owner : Owners \cup {Nobody}, age : Nat, ran : Nat, limit : Nat,
               stage : Stages, stuck : BOOLEAN]

HostType ==
    /\ other \in [Others -> {"new", "working", "gone"}]
    /\ phase \in [Owners -> Phases]
    /\ box \in [Boxes -> BoxRecords]
    /\ victims \in [Owners -> SUBSET Boxes]
    /\ spared \in [Owners -> SUBSET Boxes]

(* A container was made by a process that was at work then.                *)
OwnersWorked ==
    \A b \in Boxes :
        /\ box[b].owner = Nobody => box[b] = Free
        /\ box[b].owner \in Procs => pc[box[b].owner] \in {"held", "released", "exited"}
        /\ box[b].owner \in Others => other[box[b].owner] # "new"

(* What a locked check has in memory it has only while it holds the lock.  *)
PhaseOfHolder == \A p \in Procs : phase[p] # "start" => pc[p] = "held"

(* A check that has dropped its lock left only what it could not remove or *)
(* could not start.                                                        *)
ReleasedLeftNothing ==
    \A b \in Boxes :
        box[b].owner \in Procs /\ pc[box[b].owner] = "released" =>
            box[b].stuck \/ box[b].stage = "left"

(* What is on a reaper's list stays an orphan until it is gone: owners do  *)
(* not come back to life and containers do not get younger.                *)
VictimsStayOrphans ==
    \A o \in Owners : \A b \in victims[o] :
        /\ box[b] # Free
        /\ ~Alive(box[b].owner) \/ box[b].age > max_age

(* The timeout bounds the part of its age a container spends in the exec.  *)
ExecWithinLimit ==
    \A b \in Boxes : Alive(box[b].owner) => /\ box[b].ran <= box[b].limit
                                            /\ box[b].ran <= box[b].age

(* A reaper has all containers of other checks on its list, has tried, or  *)
(* met one left by a check that was still exiting.                         *)
ReapersSeeAll ==
    \A p \in Procs, b \in Boxes :
        /\ phase[p] \in {"reaping", "reaped"}
        /\ box[b].owner \in Procs \ {p}
        => \/ box[b].stuck
           \/ phase[p] = "reaping" /\ b \in victims[p]
           \/ box[b].stage = "left" /\ b \in spared[p]

HostInv ==
    /\ HostType /\ OwnersWorked /\ PhaseOfHolder /\ ReleasedLeftNothing
    /\ VictimsStayOrphans /\ ExecWithinLimit /\ ReapersSeeAll

-----------------------------------------------------------------------------
(* The processes that take no lock, the reaper and the containers never    *)
(* touch the lock: what the host does is a behaviour of the serial lock.   *)
LEMMA HostStepIsLockStep == [HostNext]_allVars => [SerialNext]_vars
<1> SUFFICES ASSUME [HostNext]_allVars PROVE [SerialNext]_vars
  OBVIOUS
<1>1. ASSUME NEW p \in Procs, LockStep(p) \/ ReleaseLock(p) \/ KillProc(p)
      PROVE  SerialNext
  BY <1>1 DEF LockStep, ReleaseLock, KillProc, SerialNext, Step
<1>2. ASSUME NEW o \in Others, StartOther(o) \/ EndOther(o)
      PROVE  UNCHANGED vars
  BY <1>2 DEF StartOther, EndOther
<1>3. ASSUME NEW o \in Owners, HostStep(o)
      PROVE  UNCHANGED vars
  BY <1>3 DEF HostStep, ListOrphans, SkipReaping, EndReaping, ReapOne, CleanUp,
              CreateContainer, StartContainer, StartFails, EndExec, EndAttempt
<1>4. CASE Tick
  BY <1>4 DEF Tick
<1>5. CASE AllGone
  BY <1>5 DEF AllGone, allVars
<1>6. CASE UNCHANGED allVars
  BY <1>6 DEF allVars
<1> QED
  BY <1>1, <1>2, <1>3, <1>4, <1>5, <1>6 DEF HostNext

(* The host's processes and containers implement the serial lock.          *)
THEOREM HostImplementsLock == HostSpec => SerialSpec
<1>1. HostInit => Init
  BY DEF HostInit
<1> QED
  BY <1>1, HostStepIsLockStep, PTL DEF HostSpec, SerialSpec

-----------------------------------------------------------------------------
LEMMA HostInitial == HostInit => HostInv
<1> SUFFICES ASSUME HostInit PROVE HostInv
  OBVIOUS
<1> QED
  BY NobodyAssumption, HostAssumption
  DEF HostInit, Init, HostInv, HostType, BoxRecords, OwnersWorked, PhaseOfHolder,
      ReleasedLeftNothing, VictimsStayOrphans, ExecWithinLimit, ReapersSeeAll, Free,
      Owners, Phases, Stages, InUse

(* Steps inside try_acquire, and a process that exits: whoever owns a      *)
(* container or is reaping is not among them, or ends for good.            *)
LEMMA LockStepKeeps ==
    ASSUME HostInv, TypeOK, NEW p \in Procs, LockStep(p)
    PROVE  HostInv'
<1> USE NobodyAssumption, HostAssumption
<1>1. UNCHANGED hostVars
  BY DEF LockStep
<1>2. PICK label \in LockPc : pc' = [pc EXCEPT ![p] = label]
  BY DEF LockStep, Start, Open, OpenFails, WritePid, Read, Judge, Remove, Exit, Goto,
         LockPc, Acquiring
<1>3. /\ pc[p] # "held"
      /\ pc[p] \in {"released", "exited"} => pc'[p] = "exited"
      /\ pc'[p] # "released"
  BY DEF LockStep, Start, Open, OpenFails, WritePid, Read, Judge, Remove, Exit, Goto,
         TypeOK, LockPc, Acquiring
<1> USE <1>1, <1>2, <1>3 DEF HostInv, HostType, hostVars, TypeOK
<1>4. OwnersWorked'
  BY DEF OwnersWorked
<1>5. PhaseOfHolder'
  BY DEF PhaseOfHolder
<1>6. ReleasedLeftNothing'
  BY DEF ReleasedLeftNothing
<1>7. VictimsStayOrphans'
  BY DEF VictimsStayOrphans, OwnersWorked, Alive, pid_alive, BoxRecords, Owners
<1>8. ExecWithinLimit'
  BY DEF ExecWithinLimit, OwnersWorked, Alive, pid_alive, BoxRecords, Owners
<1>9. ReapersSeeAll'
  BY DEF ReapersSeeAll
<1> QED
  BY <1>4, <1>5, <1>6, <1>7, <1>8, <1>9

-----------------------------------------------------------------------------
(* Drop of the lock, at the end of a check whose containers are dealt with. *)
LEMMA ReleaseLockKeeps ==
    ASSUME HostInv, TypeOK, NEW p \in Procs, ReleaseLock(p)
    PROVE  HostInv'
<1> USE NobodyAssumption, HostAssumption
<1>1. /\ pc[p] = "held" /\ pc' = [pc EXCEPT ![p] = "released"]
      /\ UNCHANGED <<other, box>>
      /\ phase' = [phase EXCEPT ![p] = "start"]
      /\ victims' = [victims EXCEPT ![p] = {}]
      /\ spared' = [spared EXCEPT ![p] = {}]
      /\ \A b \in Boxes : box[b].owner = p => box[b].stuck \/ box[b].stage = "left"
  BY DEF ReleaseLock, Release, Gone, Goto, Idle
<1> USE <1>1 DEF HostInv, TypeOK
<1>2. HostType'
  BY DEF HostType, Phases, Owners
<1> USE <1>2 DEF HostType
<1>3. OwnersWorked'
  BY DEF OwnersWorked
<1>4. PhaseOfHolder'
  BY DEF PhaseOfHolder, Owners
<1>5. ReleasedLeftNothing'
  BY DEF ReleasedLeftNothing
<1>6. VictimsStayOrphans'
  BY DEF VictimsStayOrphans, OwnersWorked, Alive, pid_alive, BoxRecords, Owners
<1>7. ExecWithinLimit'
  BY DEF ExecWithinLimit, OwnersWorked, Alive, pid_alive, BoxRecords, Owners
<1>8. ReapersSeeAll'
  BY DEF ReapersSeeAll, Owners
<1> QED
  BY <1>3, <1>4, <1>5, <1>6, <1>7, <1>8

(* SIGKILL: what the process had in memory is gone, its containers stay.   *)
LEMMA KillProcKeeps ==
    ASSUME HostInv, TypeOK, NEW p \in Procs, KillProc(p)
    PROVE  HostInv'
<1> USE NobodyAssumption, HostAssumption
<1>1. /\ pc' = [pc EXCEPT ![p] = "exited"]
      /\ UNCHANGED <<other, box>>
      /\ phase' = [phase EXCEPT ![p] = "start"]
      /\ victims' = [victims EXCEPT ![p] = {}]
      /\ spared' = [spared EXCEPT ![p] = {}]
  BY DEF KillProc, Kill, Gone, Goto
<1> USE <1>1 DEF HostInv, TypeOK
<1>2. HostType'
  BY DEF HostType, Phases, Owners
<1> USE <1>2 DEF HostType
<1>3. OwnersWorked'
  BY DEF OwnersWorked
<1>4. PhaseOfHolder'
  BY DEF PhaseOfHolder, Owners
<1>5. ReleasedLeftNothing'
  BY DEF ReleasedLeftNothing
<1>6. VictimsStayOrphans'
  BY DEF VictimsStayOrphans, OwnersWorked, Alive, pid_alive, BoxRecords, Owners
<1>7. ExecWithinLimit'
  BY DEF ExecWithinLimit, OwnersWorked, Alive, pid_alive, BoxRecords, Owners
<1>8. ReapersSeeAll'
  BY DEF ReapersSeeAll, Owners
<1> QED
  BY <1>3, <1>4, <1>5, <1>6, <1>7, <1>8

(* A process without the lock begins or ends.                              *)
LEMMA OtherKeeps ==
    ASSUME HostInv, TypeOK, NEW o \in Others, StartOther(o) \/ EndOther(o)
    PROVE  HostInv'
<1> USE NobodyAssumption, HostAssumption DEF vars
<1>1. /\ UNCHANGED <<pc, box>>
      /\ \/ other[o] = "new" /\ other' = [other EXCEPT ![o] = "working"]
            /\ UNCHANGED <<phase, victims, spared>>
         \/ /\ other[o] = "working" /\ other' = [other EXCEPT ![o] = "gone"]
            /\ phase' = [phase EXCEPT ![o] = "start"]
            /\ victims' = [victims EXCEPT ![o] = {}]
            /\ spared' = [spared EXCEPT ![o] = {}]
  BY DEF StartOther, EndOther, Gone
<1> USE <1>1 DEF HostInv
<1>2. HostType'
  BY DEF HostType, Phases, Owners
<1> USE <1>2 DEF HostType
<1>3. OwnersWorked'
  BY DEF OwnersWorked
<1>4. PhaseOfHolder'
  BY DEF PhaseOfHolder, Owners
<1>5. ReleasedLeftNothing'
  BY DEF ReleasedLeftNothing
<1>6. VictimsStayOrphans'
  BY DEF VictimsStayOrphans, OwnersWorked, Alive, pid_alive, BoxRecords, Owners
<1>7. ExecWithinLimit'
  BY DEF ExecWithinLimit, Free, OwnersWorked, Alive, pid_alive, BoxRecords, Owners
<1>8. ReapersSeeAll'
  BY DEF ReapersSeeAll, Owners
<1> QED
  BY <1>3, <1>4, <1>5, <1>6, <1>7, <1>8

-----------------------------------------------------------------------------
(* The reaper lists.  Another check that owns a container is dead, or has  *)
(* dropped the lock and left only what is stuck or has no guard: it cannot *)
(* hold the lock while the reaper does.                                    *)
LEMMA ListOrphansKeeps ==
    ASSUME HostInv, TypeOK, MutualExclusion, NEW o \in Owners, ListOrphans(o)
    PROVE  HostInv'
<1> USE NobodyAssumption, HostAssumption DEF vars
<1>1. /\ UNCHANGED <<pc, other, box>>
      /\ Working(o)
      /\ phase' = [phase EXCEPT ![o] = "reaping"]
      /\ victims' = [victims EXCEPT ![o] = Orphans(o)]
      /\ spared' = [spared EXCEPT ![o] = {b \in Boxes : box[b].stage = "left"} \ Orphans(o)]
  BY DEF ListOrphans
<1>2. Orphans(o) \subseteq Boxes
  BY DEF Orphans
<1> USE <1>1, <1>2 DEF HostInv
<1>3. HostType'
  BY DEF HostType, Phases
<1> USE <1>3 DEF HostType
<1>4. OwnersWorked'
  BY DEF OwnersWorked
<1>5. PhaseOfHolder'
  BY DEF PhaseOfHolder, Working, Owners
<1>6. ReleasedLeftNothing'
  BY DEF ReleasedLeftNothing
<1>7. VictimsStayOrphans'
  BY DEF VictimsStayOrphans, Orphans, Alive, pid_alive
<1>8. ExecWithinLimit'
  BY DEF ExecWithinLimit, Alive, pid_alive
<1>9. ReapersSeeAll'
  <2> SUFFICES ASSUME NEW p \in Procs, NEW b \in Boxes,
                      phase'[p] \in {"reaping", "reaped"}, box[b].owner \in Procs \ {p}
               PROVE  \/ box[b].stuck
                      \/ phase'[p] = "reaping" /\ b \in victims'[p]
                      \/ box[b].stage = "left" /\ b \in spared'[p]
    BY DEF ReapersSeeAll
  <2>1. CASE p # o
    BY <2>1 DEF ReapersSeeAll, Owners
  <2>2. CASE p = o /\ ~box[b].stuck
    <3>1. pc[p] = "held" /\ pc[box[b].owner] # "held"
      BY <2>2 DEF Working, MutualExclusion, Holds
    <3>2. CASE pc[box[b].owner] = "exited"
      <4>1. box[b] # Free /\ ~Alive(box[b].owner)
        BY <3>2 DEF Free, Alive, pid_alive
      <4> QED
        BY <2>2, <4>1 DEF Orphans, Owners
    <3>3. CASE pc[box[b].owner] = "released"
      <4>1. box[b].stage = "left"
        BY <2>2, <3>3 DEF ReleasedLeftNothing
      <4> QED
        BY <2>2, <4>1 DEF Owners
    <3> QED
      BY <3>1, <3>2, <3>3 DEF OwnersWorked
  <2> QED
    BY <2>1, <2>2
<1> QED
  BY <1>4, <1>5, <1>6, <1>7, <1>8, <1>9

(* Reaping is left out, or over: the list is empty by then.                *)
LEMMA ReapingOverKeeps ==
    ASSUME HostInv, NEW o \in Owners, SkipReaping(o) \/ EndReaping(o)
    PROVE  HostInv'
<1> USE NobodyAssumption, HostAssumption DEF vars
<1>1. /\ UNCHANGED <<pc, other, box, victims, spared>>
      /\ Working(o)
      /\ \/ phase[o] = "start" /\ phase' = [phase EXCEPT ![o] = "skipped"]
         \/ /\ phase[o] = "reaping" /\ phase' = [phase EXCEPT ![o] = "reaped"]
            /\ victims[o] = {}
  BY DEF SkipReaping, EndReaping
<1> USE <1>1 DEF HostInv
<1>2. HostType'
  BY DEF HostType, Phases
<1> USE <1>2 DEF HostType
<1>3. PhaseOfHolder'
  BY DEF PhaseOfHolder, Working, Owners
<1>4. OwnersWorked' /\ ReleasedLeftNothing'
  BY DEF OwnersWorked, ReleasedLeftNothing
<1>5. VictimsStayOrphans' /\ ExecWithinLimit'
  BY DEF VictimsStayOrphans, ExecWithinLimit, Alive, pid_alive
<1>6. ReapersSeeAll'
  BY DEF ReapersSeeAll, Owners
<1> QED
  BY <1>3, <1>4, <1>5, <1>6

-----------------------------------------------------------------------------
(* A container is removed, by a reaper or by its owner: it is off every    *)
(* list.                                                                   *)
LEMMA RemovedKeeps ==
    ASSUME HostInv, NEW b \in Boxes, Removed(b), UNCHANGED <<pc, other, phase, spared>>
    PROVE  HostInv'
<1> USE NobodyAssumption, HostAssumption
<1>1. Free \in BoxRecords /\ Free.owner = Nobody /\ Free.ran = 0 /\ Free.limit = 0 /\ Free.age = 0
  BY DEF Free, BoxRecords, Stages, InUse
<1>2. /\ box' = [box EXCEPT ![b] = Free]
      /\ victims' = [o \in Owners |-> victims[o] \ {b}]
  BY DEF Removed
<1> USE <1>1, <1>2 DEF HostInv
<1>3. HostType'
  BY DEF HostType
<1> USE <1>3 DEF HostType
<1>4. OwnersWorked' /\ ReleasedLeftNothing' /\ PhaseOfHolder'
  BY DEF OwnersWorked, ReleasedLeftNothing, PhaseOfHolder
<1>5. VictimsStayOrphans'
  BY DEF VictimsStayOrphans, Alive, pid_alive
<1>6. ExecWithinLimit'
  BY DEF ExecWithinLimit, Alive, pid_alive
<1>7. ReapersSeeAll'
  BY DEF ReapersSeeAll, Owners
<1> QED
  BY <1>4, <1>5, <1>6, <1>7

(* A removal fails: the container is marked, and off the list of the       *)
(* process that tried.                                                     *)
LEMMA RemovalFailsKeeps ==
    ASSUME HostInv, NEW o \in Owners, NEW b \in Boxes, RemovalFails(o, b),
           box[b] # Free, UNCHANGED <<pc, other, phase, spared>>
    PROVE  HostInv'
<1> USE NobodyAssumption, HostAssumption
<1>1. /\ box' = [box EXCEPT ![b] = [box[b] EXCEPT !.stuck = TRUE]]
      /\ victims' = [victims EXCEPT ![o] = @ \ {b}]
  BY DEF RemovalFails
<1>2. box[b] \in BoxRecords /\ box'[b] = [box[b] EXCEPT !.stuck = TRUE]
  BY <1>1 DEF HostInv, HostType
<1>3. /\ box'[b].owner = box[b].owner /\ box'[b].age = box[b].age
      /\ box'[b].limit = box[b].limit /\ box'[b].ran = box[b].ran
      /\ box'[b].stage = box[b].stage /\ box'[b].stuck /\ box'[b] \in BoxRecords
  BY <1>2 DEF BoxRecords
<1>4. box'[b] # Free
  BY <1>3 DEF Free
<1>5. \A c \in Boxes : c # b => box'[c] = box[c]
  BY <1>1 DEF HostInv, HostType
<1>6. HostType'
  BY <1>1, <1>3 DEF HostInv, HostType
<1> USE <1>3, <1>4, <1>5, <1>6 DEF HostInv, HostType
<1>7. OwnersWorked' /\ ReleasedLeftNothing' /\ PhaseOfHolder'
  BY DEF OwnersWorked, ReleasedLeftNothing, PhaseOfHolder
<1>8. VictimsStayOrphans'
  BY <1>1 DEF VictimsStayOrphans, Alive, pid_alive
<1>9. ExecWithinLimit'
  BY DEF ExecWithinLimit, Alive, pid_alive
<1>10. ReapersSeeAll'
  BY <1>1 DEF ReapersSeeAll, Owners
<1> QED
  BY <1>7, <1>8, <1>9, <1>10

(* The attempt in a container goes on to its next stage.  Its owner is the *)
(* one holder of the lock, or took none.                                   *)
LEMMA StageKeeps ==
    ASSUME HostInv, TypeOK, MutualExclusion,
           NEW o \in Owners, NEW b \in Boxes, NEW from, NEW to \in Stages,
           Working(o), box[b].owner = o, Stage(b, from, to),
           UNCHANGED <<pc, other, phase, victims, spared>>
    PROVE  HostInv'
<1> USE NobodyAssumption, HostAssumption
<1>1. box' = [box EXCEPT ![b] = [box[b] EXCEPT !.stage = to]]
  BY DEF Stage
<1>2. /\ box'[b] \in BoxRecords /\ box'[b] # Free
      /\ box'[b].owner = box[b].owner /\ box'[b].age = box[b].age
      /\ box'[b].limit = box[b].limit /\ box'[b].stuck = box[b].stuck
      /\ box'[b].ran = box[b].ran
  BY <1>1 DEF HostInv, HostType, BoxRecords, Free, Owners
<1>3. \A c \in Boxes : c # b => box'[c] = box[c]
  BY <1>1 DEF HostInv, HostType
<1>4. HostType'
  BY <1>1, <1>2 DEF HostInv, HostType
<1> USE <1>2, <1>3, <1>4 DEF HostInv, HostType
<1>5. OwnersWorked' /\ ReleasedLeftNothing' /\ PhaseOfHolder'
  BY DEF OwnersWorked, ReleasedLeftNothing, PhaseOfHolder, Owners, Working
<1>6. VictimsStayOrphans'
  BY DEF VictimsStayOrphans, Alive, pid_alive
<1>7. ExecWithinLimit'
  BY DEF ExecWithinLimit, Alive, pid_alive
<1>8. ReapersSeeAll'
  BY DEF ReapersSeeAll, PhaseOfHolder, Working, MutualExclusion, Holds, Owners
<1> QED
  BY <1>5, <1>6, <1>7, <1>8

(* A new container, in a place no list names.                              *)
LEMMA CreateContainerKeeps ==
    ASSUME HostInv, TypeOK, MutualExclusion,
           NEW o \in Owners, NEW limit \in Limits, CreateContainer(o, limit)
    PROVE  HostInv'
<1> USE NobodyAssumption, HostAssumption
<1> DEFINE new == [Free EXCEPT !.owner = o, !.limit = limit, !.stage = "created"]
<1>1. PICK b \in Boxes : box[b] = Free /\ box' = [box EXCEPT ![b] = new]
  BY DEF CreateContainer, FreeBox
<1>2. /\ new.owner = o /\ new.age = 0 /\ new.limit = limit /\ new # Free
      /\ new.ran = 0 /\ new \in BoxRecords
  BY DEF Free, BoxRecords, Owners, Stages, InUse
<1>3. box'[b] = new /\ \A c \in Boxes : c # b => box'[c] = box[c]
  BY <1>1 DEF HostInv, HostType
<1>4. UNCHANGED <<pc, other, phase, victims, spared>> /\ Working(o)
      /\ phase[o] \in {"reaped", "skipped"}
  BY DEF CreateContainer, vars
<1>5. HostType'
  BY <1>1, <1>2, <1>4 DEF HostInv, HostType
<1>6. \A v \in Owners : b \notin victims[v]
  BY <1>1 DEF HostInv, VictimsStayOrphans
<1> USE <1>2, <1>3, <1>4, <1>5 DEF HostInv, HostType
<1> HIDE DEF new
<1>7. OwnersWorked'
  BY DEF OwnersWorked, Working, Owners
<1>8. PhaseOfHolder'
  BY DEF PhaseOfHolder
<1>9. ReleasedLeftNothing'
  BY DEF ReleasedLeftNothing, Working
<1>10. VictimsStayOrphans'
  BY <1>6 DEF VictimsStayOrphans, Alive, pid_alive
<1>11. ExecWithinLimit'
  BY DEF ExecWithinLimit, Alive, pid_alive
<1>12. ReapersSeeAll'
  BY <1>6 DEF ReapersSeeAll, PhaseOfHolder, Working, MutualExclusion, Holds, Owners
<1> QED
  BY <1>7, <1>8, <1>9, <1>10, <1>11, <1>12

(* Containers age; the exec in one of a live process goes on only within   *)
(* its limit.                                                              *)
LEMMA TickKeeps ==
    ASSUME HostInv, Tick
    PROVE  HostInv'
<1> USE NobodyAssumption, HostAssumption
<1>1. /\ \A b \in Boxes : box[b].stage = "exec" /\ Alive(box[b].owner) =>
                           box[b].ran < box[b].limit
      /\ box' = [b \in Boxes |-> IF Ages(b) THEN Aged(b) ELSE box[b]]
      /\ UNCHANGED <<pc, other, phase, victims, spared>>
  BY DEF Tick, vars
<1>2. ASSUME NEW b \in Boxes
      PROVE  /\ box'[b] \in BoxRecords
             /\ box'[b].owner = box[b].owner /\ box'[b].limit = box[b].limit
             /\ box'[b].stage = box[b].stage /\ box'[b].stuck = box[b].stuck
             /\ \/ box'[b].age = box[b].age /\ box'[b].ran = box[b].ran
                \/ box'[b].age = box[b].age + 1 /\ box'[b].ran = box[b].ran
                \/ /\ box'[b].age = box[b].age + 1 /\ box'[b].ran = box[b].ran + 1
                   /\ box[b].stage = "exec"
             /\ (box'[b] = Free) <=> (box[b] = Free)
  <2>1. box[b] \in BoxRecords
    BY DEF HostInv, HostType
  <2>2. CASE ~Ages(b)
    BY <1>1, <2>1, <2>2
  <2>3. CASE Ages(b)
    <3>1. box'[b] = Aged(b) /\ box[b].owner # Nobody
      BY <1>1, <2>3 DEF Ages, Alive, pid_alive
    <3>2. PICK n : n = IF box[b].stage = "exec" THEN box[b].ran + 1 ELSE box[b].ran
      OBVIOUS
    <3>3. /\ n \in Nat /\ box[b].age + 1 \in Nat
          /\ n = box[b].ran \/ (n = box[b].ran + 1 /\ box[b].stage = "exec")
      BY <2>1, <3>2 DEF BoxRecords
    <3>4. box'[b] = [box[b] EXCEPT !.age = box[b].age + 1, !.ran = n]
      BY <3>1, <3>2 DEF Aged
    <3>5. /\ box'[b] \in BoxRecords
          /\ box'[b].owner = box[b].owner /\ box'[b].limit = box[b].limit
          /\ box'[b].stage = box[b].stage /\ box'[b].stuck = box[b].stuck
          /\ box'[b].age = box[b].age + 1 /\ box'[b].ran = n
      <4>1. PICK x \in BoxRecords : x = box[b]
        BY <2>1
      <4>2. PICK a \in Nat : a = box[b].age + 1
        BY <3>3
      <4>3. PICK y : y = box'[b]
        OBVIOUS
      <4>4. n \in Nat /\ y = [x EXCEPT !.age = a, !.ran = n]
        BY <3>3, <3>4, <4>1, <4>2, <4>3
      <4>5. /\ y \in BoxRecords
            /\ y.owner = x.owner /\ y.limit = x.limit
            /\ y.stage = x.stage /\ y.stuck = x.stuck
            /\ y.age = a /\ y.ran = n
        <5>1. PICK z : z = [x EXCEPT !.age = a]
          OBVIOUS
        <5>2. /\ z \in BoxRecords /\ z.owner = x.owner /\ z.limit = x.limit
              /\ z.stage = x.stage /\ z.stuck = x.stuck /\ z.age = a
          BY <5>1 DEF BoxRecords
        <5>3. y = [z EXCEPT !.ran = n]
          BY <4>4, <5>1 DEF BoxRecords
        <5> QED
          BY <4>4, <5>2, <5>3 DEF BoxRecords
      <4> QED
        BY <4>1, <4>2, <4>3, <4>5
    <3>6. box'[b] # Free /\ box[b] # Free
      BY <3>1, <3>5 DEF Free
    <3> QED
      BY <3>3, <3>5, <3>6
  <2> QED
    BY <2>2, <2>3
<1>3. \A b \in Boxes : box[b].age \in Nat /\ box[b].ran \in Nat /\ box[b].limit \in Nat
  BY DEF HostInv, HostType, BoxRecords
<1>4. max_age \in Nat
  BY DEF max_age
<1>5. HostType'
  BY <1>1, <1>2 DEF HostInv, HostType
<1>6. OwnersWorked' /\ ReleasedLeftNothing' /\ PhaseOfHolder'
  BY <1>1, <1>2 DEF HostInv, OwnersWorked, ReleasedLeftNothing, PhaseOfHolder
<1>7. VictimsStayOrphans'
  <2>1. \A b \in Boxes : box'[b].owner = box[b].owner
    BY <1>2
  <2>2. \A b \in Boxes : Alive(box[b].owner)' <=> Alive(box[b].owner)
    BY <1>1, <2>1 DEF Alive, pid_alive
  <2> SUFFICES ASSUME NEW o \in Owners, NEW b \in victims[o]
               PROVE  /\ box'[b] # Free
                      /\ ~Alive(box[b].owner) \/ box'[b].age > max_age
    BY <1>1, <2>2 DEF VictimsStayOrphans, max_age, HostInv, HostType
  <2> QED
    BY <1>2, <1>3, <1>4 DEF HostInv, HostType, VictimsStayOrphans
<1>8. ExecWithinLimit'
  BY <1>1, <1>2, <1>3 DEF HostInv, ExecWithinLimit, Alive, pid_alive
<1>9. ReapersSeeAll'
  BY <1>1, <1>2 DEF HostInv, ReapersSeeAll
<1> QED
  BY <1>5, <1>6, <1>7, <1>8, <1>9 DEF HostInv

-----------------------------------------------------------------------------
LEMMA HostStepKeeps ==
    ASSUME HostInv, TypeOK, MutualExclusion, NEW o \in Owners, HostStep(o)
    PROVE  HostInv'
<1>1. CASE ListOrphans(o)
  BY <1>1, ListOrphansKeeps
<1>2. CASE SkipReaping(o) \/ EndReaping(o)
  BY <1>2, ReapingOverKeeps
<1>3. ASSUME NEW b \in Boxes, ReapOne(o, b) PROVE HostInv'
  <2>1. box[b] # Free /\ UNCHANGED <<pc, other, phase, spared>>
    BY <1>3 DEF ReapOne, HostInv, VictimsStayOrphans, vars
  <2> QED
    BY <1>3, <2>1, RemovedKeeps, RemovalFailsKeeps DEF ReapOne
<1>4. ASSUME NEW b \in Boxes, CleanUp(o, b) PROVE HostInv'
  <2>1. box[b] # Free /\ UNCHANGED <<pc, other, phase, spared>>
    BY <1>4, NobodyAssumption, HostAssumption DEF CleanUp, Free, Owners, vars
  <2> QED
    BY <1>4, <2>1, RemovedKeeps, RemovalFailsKeeps DEF CleanUp
<1>5. ASSUME NEW b \in Boxes,
             \/ StartContainer(o, b) \/ StartFails(o, b)
             \/ EndExec(o, b) \/ EndAttempt(o, b)
      PROVE  HostInv'
  <2>1. /\ Working(o) /\ box[b].owner = o
        /\ UNCHANGED <<pc, other, phase, victims, spared>>
    BY <1>5 DEF StartContainer, StartFails, EndExec, EndAttempt, vars
  <2>2. PICK from, to \in Stages : Stage(b, from, to)
    BY <1>5 DEF StartContainer, StartFails, EndExec, EndAttempt, Stages, InUse
  <2> QED
    BY <2>1, <2>2, StageKeeps
<1>6. ASSUME NEW limit \in Limits, CreateContainer(o, limit) PROVE HostInv'
  BY <1>6, CreateContainerKeeps
<1> QED
  BY <1>1, <1>2, <1>3, <1>4, <1>5, <1>6 DEF HostStep

LEMMA HostKeeps == HostInv /\ TypeOK /\ MutualExclusion /\ [HostNext]_allVars => HostInv'
<1> SUFFICES ASSUME HostInv, TypeOK, MutualExclusion, [HostNext]_allVars PROVE HostInv'
  OBVIOUS
<1>1. ASSUME NEW p \in Procs, LockStep(p) \/ ReleaseLock(p) \/ KillProc(p) PROVE HostInv'
  BY <1>1, LockStepKeeps, ReleaseLockKeeps, KillProcKeeps
<1>2. ASSUME NEW o \in Others, StartOther(o) \/ EndOther(o) PROVE HostInv'
  BY <1>2, OtherKeeps
<1>3. ASSUME NEW o \in Owners, HostStep(o) PROVE HostInv'
  BY <1>3, HostStepKeeps
<1>4. CASE Tick
  BY <1>4, TickKeeps
<1>5. CASE UNCHANGED allVars
  <2>1. UNCHANGED <<pc, other, phase, box, victims, spared>>
    BY <1>5 DEF allVars, vars, hostVars
  <2> QED
    BY <2>1 DEF HostInv, HostType, OwnersWorked, PhaseOfHolder, ReleasedLeftNothing,
                VictimsStayOrphans, ExecWithinLimit, ReapersSeeAll, Alive, pid_alive
<1> QED
  BY <1>1, <1>2, <1>3, <1>4, <1>5 DEF HostNext, AllGone

(* The inductive invariant of the host: who may own a container, what is   *)
(* on a reaper's list, how old a container in use can be.                  *)
THEOREM HostInvariant == HostSpec => []HostInv
<1>1. SerialInv => TypeOK
  BY DEF SerialInv
<1> QED
  BY <1>1, HostInitial, HostKeeps, HostImplementsLock, SerialInvariant, LockIsExclusive, PTL
  DEF HostSpec

(* container.rs:385-412, main.rs:1651-1673: a check that has reaped shares *)
(* the daemon with no container of another check under the lock but those  *)
(* whose removal failed, and those whose start failed and whose owner had  *)
(* not exited when the reaper listed, for any number of processes and      *)
(* containers.                                                             *)
THEOREM ReapedHostIsClean == HostSpec => []NothingLeftBehind
<1>1. HostInv => NothingLeftBehind
  BY DEF HostInv, ReapersSeeAll, NothingLeftBehind
<1> QED
  BY <1>1, HostInvariant, PTL

(* container.rs:383-384: no step of any process removes the container of a *)
(* live one whose attempt is not over, for every timeout, as long as the   *)
(* installer's timeout and the time spent outside the exec it covers stay  *)
(* within the reaper's age limit.                                          *)
THEOREM LiveContainersAreKept == HostSpec => LiveContainerKept
<1> DEFINE Kept == \A b \in Boxes :
                     /\ box[b].stage \in InUse /\ Alive(box[b].owner)
                     /\ box[b].limit + (box[b].age - box[b].ran) <= 2 * Timeout
                     => box'[b] # Free
<1>1. ASSUME HostInv, HostInv', HostNext PROVE Kept
  <2> USE <1>1, NobodyAssumption, HostAssumption
  <2> SUFFICES ASSUME NEW b \in Boxes, box[b].stage \in InUse, Alive(box[b].owner),
                      box[b].limit + (box[b].age - box[b].ran) <= 2 * Timeout,
                      box'[b] = Free
               PROVE  FALSE
    OBVIOUS
  <2>1. box[b] # Free
    BY DEF Free, InUse
  <2>2. /\ box[b].age \in Nat /\ box[b].limit \in Nat /\ box[b].ran \in Nat
        /\ box[b].ran <= box[b].limit
    BY DEF HostInv, HostType, BoxRecords, ExecWithinLimit
  <2>3. ~(box[b].age > max_age)
    BY <2>2 DEF max_age
  <2>4. \A o \in Owners : b \notin victims[o]
    BY <2>3 DEF HostInv, VictimsStayOrphans
  <2>5. box' # box
    BY <2>1
  <2>6. CASE Tick
    <3>1. box'[b] = box[b] \/ box'[b] = Aged(b)
      BY <2>6 DEF Tick
    <3>2. Aged(b).owner = box[b].owner
      BY DEF Aged, HostInv, HostType, BoxRecords
    <3>3. box'[b].owner = box[b].owner /\ box[b].owner # Nobody
      BY <3>1, <3>2, <2>1 DEF HostInv, OwnersWorked
    <3> QED
      BY <3>3 DEF Free
  <2>7. ASSUME NEW o \in Owners, HostStep(o) PROVE FALSE
    <3>1. CASE \E c \in Boxes : ReapOne(o, c) \/ CleanUp(o, c)
      <4>1. PICK c \in Boxes : ReapOne(o, c) \/ CleanUp(o, c)
        BY <3>1
      <4>2. c # b
        BY <2>4, <4>1 DEF ReapOne, CleanUp, InUse
      <4> QED
        BY <2>1, <4>1, <4>2 DEF ReapOne, CleanUp, Removed, RemovalFails, HostInv, HostType
    <3>2. CASE \E c \in Boxes : \/ StartContainer(o, c) \/ StartFails(o, c)
                                \/ EndExec(o, c) \/ EndAttempt(o, c)
      <4>1. PICK c \in Boxes, to \in Stages : box' = [box EXCEPT ![c].stage = to]
        BY <3>2 DEF StartContainer, StartFails, EndExec, EndAttempt, Stage, Stages, InUse
      <4>2. box'[b].owner = box[b].owner
        BY <4>1 DEF HostInv, HostType, BoxRecords
      <4> QED
        BY <2>1, <4>2 DEF Free, HostInv, HostType, BoxRecords, OwnersWorked
    <3>3. CASE \E limit \in Limits : CreateContainer(o, limit)
      <4>1. PICK limit \in Limits : CreateContainer(o, limit)
        BY <3>3
      <4>2. FreeBox # b
        BY <2>1, <4>1 DEF CreateContainer, FreeBox
      <4> QED
        BY <2>1, <4>1, <4>2 DEF CreateContainer, HostInv, HostType
    <3>4. CASE ListOrphans(o) \/ SkipReaping(o) \/ EndReaping(o)
      BY <2>5, <3>4 DEF ListOrphans, SkipReaping, EndReaping
    <3> QED
      BY <2>7, <3>1, <3>2, <3>3, <3>4 DEF HostStep
  <2> QED
    BY <2>5, <2>6, <2>7 DEF HostNext, LockStep, ReleaseLock, KillProc, StartOther, EndOther,
                            AllGone, hostVars, allVars
<1> QED
  BY <1>1, HostInvariant, PTL DEF HostSpec, LiveContainerKept
=============================================================================
