------------------------- MODULE InstallerPool_proofs -------------------------
(***************************************************************************)
(* What ParallelRunner::run_all guarantees for any number of installers,   *)
(* permits and retries, on either backend, with or without fail-fast.      *)
(*                                                                         *)
(* The inductive invariant has four parts: the types; the semaphore's      *)
(* account (every permit is free or belongs to a task in flight); the      *)
(* local invariant of each installer (module Executor_proofs), which no    *)
(* other worker's step can disturb; and the ledger of the tokens, which    *)
(* ties the pool token to who cancelled it.                                *)
(*                                                                         *)
(* The last section goes on to the command around the pool, PoolCheck:     *)
(* what run_all guarantees is what the invariant of the command (module    *)
(* Executor_proofs) needs when cmd_check takes over.                       *)
(***************************************************************************)
EXTENDS PoolCheck, Executor_proofs, FiniteSetTheorems

PoolType == ExecType /\ ControlTypeOK /\ permits \in Nat

(* Every permit is in the semaphore or with a task in flight.              *)
PermitAccount == permits + Cardinality(InFlight) = MaxParallel

(* Who may have cancelled the pool, and who may have noticed.              *)
TokenLedger ==
    /\ runToken => poolToken
    /\ poolToken => runToken \/ (FailFast /\ \E j \in Installers : RealFailure(j))
    /\ \A i \in Installers :
          /\ pc[i] = "stopping" => poolToken
          /\ result[i].status \in {"cancelled", "skipped"} => poolToken

(* Who stops before its first attempt is recorded.                         *)
Unstarted ==
    \A i \in Installers :
        /\ pc[i] \in {"queued", "admitted", "cleared"} =>
              attempts[i] = << >> /\ result[i].status = "pending"
        /\ pc[i] # "done" => result[i].status # "skipped"
        /\ pc[i] \in {"returned", "done"} /\ attempts[i] = << >>
           /\ result[i].status = "cancelled" => runToken
        /\ result[i].status = "skipped" => attempts[i] = << >>

-----------------------------------------------------------------------------
(* The labels of the executor and of the pool are the labels of ExecType.  *)
LEMMA PoolLabels ==
    /\ Labels = ExecutorPc \cup PoolPc
    /\ {"queued", "admitted", "cleared", "attempt", "returned", "done"}
           \subseteq Labels
BY DEF Labels, PoolPc, ExecutorPc

(* The result that stands for an executor error is a classified failure.   *)
LEMMA RecoveredResults ==
    ASSUME NEW out \in Outputs
    PROVE  /\ finalize_failure(Failed(NewResult, out)) \in Results
           /\ finalize_failure(Failed(NewResult, out)).status = "failed"
           /\ finalize_failure(Failed(NewResult, out)).error # "none"
<1> DEFINE f == Failed(NewResult, out)
<1>1. out \in SUBSET Markers /\ "unknown" \in ChecksumStates
  BY OutputsType DEF ChecksumStates
<1>2. f \in Results
  BY <1>1, NewResultType, FailedType
<1>3. f.status = "failed"
  BY NewResultType DEF Failed, Results
<1> HIDE DEF f
<1>4. /\ finalize_failure(f) \in Results
      /\ finalize_failure(f).status = "failed"
      /\ finalize_failure(f).error # "none"
  BY <1>2, <1>3, FinalizeFacts DEF success
<1> QED
  BY <1>4 DEF f

-----------------------------------------------------------------------------
(* A task that returns keeps the types.                                    *)
LEMMA ReturnType ==
    ASSUME PoolType, NEW i \in Installers, NEW r \in Results, Return(i, r),
           UNCHANGED <<attempt, attempts, containers>>
    PROVE  ExecType' /\ permits' \in Nat
BY PoolLabels, MoveType DEF Return, PoolType

(* Every step of the pool keeps the types.                                 *)
LEMMA PoolTypeStep == PoolType /\ [Next]_vars => PoolType'
<1> SUFFICES ASSUME PoolType, [Next]_vars PROVE PoolType'
  OBVIOUS
<1> USE PoolLabels, MaxParallelAssumption
<1>1. ASSUME NEW i \in Installers, Acquire(i) PROVE PoolType'
  <2>1. ExecType'
    BY <1>1, GotoType DEF Acquire, PoolType, ExecType
  <2>2. permits' \in Nat /\ ControlTypeOK'
    BY <1>1 DEF Acquire, PoolType, ControlTypeOK, controlVars
  <2> QED
    BY <2>1, <2>2 DEF PoolType
<1>2. ASSUME NEW i \in Installers, CheckRunToken(i) PROVE PoolType'
  <2>1. ControlTypeOK'
    BY <1>2 DEF CheckRunToken, PoolType, ControlTypeOK, controlVars
  <2>2. CASE runToken
    BY <1>2, <2>1, <2>2, ReturnType, StoppedResults DEF CheckRunToken, PoolType
  <2>3. CASE ~ runToken
    BY <1>2, <2>1, <2>3, GotoType DEF CheckRunToken, PoolType, ExecType
  <2> QED
    BY <2>2, <2>3
<1>3. ASSUME NEW i \in Installers, CheckPoolToken(i) PROVE PoolType'
  <2>1. ControlTypeOK'
    BY <1>3 DEF CheckPoolToken, PoolType, ControlTypeOK, controlVars
  <2>2. CASE poolToken
    BY <1>3, <2>1, <2>2, ReturnType, StoppedResults DEF CheckPoolToken, PoolType
  <2>3. CASE ~ poolToken
    BY <1>3, <2>1, <2>3, GotoType DEF CheckPoolToken, PoolType, ExecType
  <2> QED
    BY <2>2, <2>3
<1>4. ASSUME NEW i \in Installers, Run(i) PROVE PoolType'
  BY <1>4, ExecutorType DEF Run, PoolType, ControlTypeOK, controlVars
<1>5. ASSUME NEW i \in Installers, RecoverError(i) PROVE PoolType'
  <2>1. PICK out \in Outputs : Set(i, finalize_failure(Failed(NewResult, out)))
    BY <1>5 DEF RecoverError
  <2>2. result' \in [Installers -> Results]
    BY <2>1, RecoveredResults DEF PoolType, ExecType, Set
  <2>3. << >> \in Seq(AttemptRecords)
    OBVIOUS
  <2>4. ExecType'
    BY <1>5, <2>2, <2>3 DEF RecoverError, PoolType, ExecType, Goto
  <2> QED
    BY <1>5, <2>4 DEF RecoverError, PoolType, ControlTypeOK, controlVars
<1>6. ASSUME NEW i \in Installers, Finish(i) PROVE PoolType'
  <2>1. result[i] \in Results
    BY DEF PoolType, ExecType
  <2>2. ExecType' /\ permits' \in Nat
    BY <1>6, <2>1, ReturnType DEF Finish
  <2>3. poolToken' \in BOOLEAN
    BY <1>6 DEF Finish
  <2> QED
    BY <1>6, <2>2, <2>3 DEF Finish, PoolType, ControlTypeOK
<1>7. CASE Control
  BY <1>7, ControlType DEF Control, PoolType, ExecType, execVars
<1>8. CASE UNCHANGED vars
  BY <1>8 DEF vars, execVars, controlVars, PoolType, ExecType, ControlTypeOK
<1> QED
  BY <1>1, <1>2, <1>3, <1>4, <1>5, <1>6, <1>7, <1>8
     DEF Next, Worker, Terminated
-----------------------------------------------------------------------------
(* The tasks in flight are finitely many: counting them makes sense.       *)
LEMMA InFlightFinite == IsFiniteSet(InFlight) /\ Cardinality(InFlight) \in Nat
BY InstallersAssumption, FS_Subset, FS_CardinalityType DEF InFlight

(* A task that returns gives back exactly the permit it held.              *)
LEMMA ReturnAccount ==
    ASSUME PoolType, PermitAccount, NEW i \in Installers, NEW r, Return(i, r),
           pc[i] \notin {"queued", "done"}
    PROVE  PermitAccount'
<1>1. InFlight' = InFlight \ {i} /\ i \in InFlight
  BY DEF InFlight, Return, Goto, PoolType, ExecType
<1>2. Cardinality(InFlight') = Cardinality(InFlight) - 1
  BY <1>1, InFlightFinite, FS_RemoveElement
<1>3. permits' = permits + 1
  BY DEF Return
<1> QED
  BY <1>2, <1>3, InFlightFinite, MaxParallelAssumption
     DEF PermitAccount, PoolType

(* A step that leaves a task in flight leaves the account alone.           *)
LEMMA SameAccount ==
    ASSUME PoolType, PermitAccount, permits' = permits,
           \A j \in Installers : pc'[j] \in {"queued", "done"}
                                    <=> pc[j] \in {"queued", "done"}
    PROVE  PermitAccount'
<1>1. InFlight' = InFlight
  BY DEF InFlight
<1> QED
  BY <1>1 DEF PermitAccount

(* Every step of the pool keeps the semaphore's account.                   *)
LEMMA PermitStep == PoolType /\ PermitAccount /\ [Next]_vars => PermitAccount'
<1> SUFFICES ASSUME PoolType, PermitAccount, [Next]_vars PROVE PermitAccount'
  OBVIOUS
<1> USE DEF Goto
<1>1. ASSUME NEW i \in Installers, Acquire(i) PROVE PermitAccount'
  <2>1. InFlight' = InFlight \cup {i} /\ i \notin InFlight
    BY <1>1 DEF Acquire, InFlight, PoolType, ExecType
  <2>2. Cardinality(InFlight') = Cardinality(InFlight) + 1
    BY <2>1, InFlightFinite, FS_AddElement
  <2>3. permits' = permits - 1
    BY <1>1 DEF Acquire
  <2> QED
    BY <2>2, <2>3, InFlightFinite, MaxParallelAssumption
       DEF PermitAccount, PoolType
<1>2. ASSUME NEW i \in Installers, CheckRunToken(i) PROVE PermitAccount'
  <2>1. CASE runToken
    BY <1>2, <2>1, ReturnAccount DEF CheckRunToken
  <2>2. CASE ~ runToken
    BY <1>2, <2>2, SameAccount DEF CheckRunToken, PoolType, ExecType
  <2> QED
    BY <2>1, <2>2
<1>3. ASSUME NEW i \in Installers, CheckPoolToken(i) PROVE PermitAccount'
  <2>1. CASE poolToken
    BY <1>3, <2>1, ReturnAccount DEF CheckPoolToken
  <2>2. CASE ~ poolToken
    BY <1>3, <2>2, SameAccount DEF CheckPoolToken, PoolType, ExecType
  <2> QED
    BY <2>1, <2>2
<1>4. ASSUME NEW i \in Installers, Run(i) PROVE PermitAccount'
  <2>1. ExecType /\ ExecutorStep(i, poolToken) /\ permits' = permits
    BY <1>4 DEF Run, PoolType
  <2>2. pc[i] \notin {"queued", "done"} /\ pc'[i] \notin {"queued", "done"}
    BY <2>1, ExecutorLabels DEF ExecutorPc
  <2>3. \A j \in Installers : j # i => pc'[j] = pc[j]
    BY <2>1, ExecutorFrame
  <2> QED
    BY <2>1, <2>2, <2>3, SameAccount
<1>5. ASSUME NEW i \in Installers, RecoverError(i) PROVE PermitAccount'
  BY <1>5, SameAccount DEF RecoverError, PoolType, ExecType
<1>6. ASSUME NEW i \in Installers, Finish(i) PROVE PermitAccount'
  BY <1>6, ReturnAccount DEF Finish
<1>7. CASE Control
  BY <1>7, SameAccount DEF Control, execVars
<1>8. CASE UNCHANGED vars
  BY <1>8, SameAccount DEF vars, execVars
<1> QED
  BY <1>1, <1>2, <1>3, <1>4, <1>5, <1>6, <1>7, <1>8
     DEF Next, Worker, Terminated

-----------------------------------------------------------------------------
(* A task that returns a verdict keeps its local invariant.                *)
LEMMA ReturnLocal ==
    ASSUME PoolType, NEW i \in Installers, LocalInv(i), NEW r, Return(i, r),
           UNCHANGED <<attempt, attempts>>, pc[i] # "backoff",
           r.status # "pending",
           r.status \in {"failed", "timed_out", "cancelled"} => r.error # "none",
           r.status = "passed" => r.error = "none"
    PROVE  LocalInv(i)'
<1>1. /\ pc'[i] = "done" /\ result'[i] = r
      /\ attempt'[i] = attempt[i] /\ attempts'[i] = attempts[i]
  BY DEF Return, Goto, Set, PoolType, ExecType
<1> QED
  BY <1>1, DoneLocal

(* Every step of the pool keeps every installer's local invariant.         *)
LEMMA LocalStep == PoolType /\ AllLocal /\ [Next]_vars => AllLocal'
<1> SUFFICES ASSUME PoolType, AllLocal, [Next]_vars PROVE AllLocal'
  OBVIOUS
<1>0. ASSUME NEW i \in Installers, LocalInv(i)',
             \A j \in Installers : j # i =>
                 /\ pc'[j] = pc[j] /\ attempt'[j] = attempt[j]
                 /\ result'[j] = result[j] /\ attempts'[j] = attempts[j]
      PROVE  AllLocal'
  BY <1>0, LocalFrame DEF AllLocal
<1>1. ASSUME NEW i \in Installers, Acquire(i) PROVE AllLocal'
  <2>1. /\ pc[i] = "queued" /\ pc'[i] = "admitted"
        /\ UNCHANGED <<attempt, result, attempts>>
        /\ LocalInv(i) /\ ExecType
    BY <1>1 DEF Acquire, Goto, PoolType, ExecType, AllLocal
  <2>2. RetryBudget(i)' /\ History(i)'
    BY <2>1, InsideAttempt
  <2>3. Verdict(i)'
    BY <2>1 DEF Verdict, UnderWay
  <2>4. LocalInv(i)'
    BY <2>2, <2>3 DEF LocalInv
  <2> QED
    BY <1>0, <1>1, <2>1, <2>4 DEF Acquire, Goto, ExecType
<1>2. ASSUME NEW i \in Installers, CheckRunToken(i) PROVE AllLocal'
  <2>1. pc[i] = "admitted" /\ UNCHANGED <<attempt, attempts>> /\ LocalInv(i)
    BY <1>2 DEF CheckRunToken, AllLocal
  <2>2. CASE runToken
    <3>1. LocalInv(i)'
      BY <1>2, <2>1, <2>2, ReturnLocal, StoppedResults DEF CheckRunToken
    <3> QED
      BY <1>0, <1>2, <2>1, <2>2, <3>1
         DEF CheckRunToken, Return, Goto, Set, PoolType, ExecType
  <2>3. CASE ~ runToken
    <3>1. pc'[i] = "cleared" /\ UNCHANGED result /\ ExecType
      BY <1>2, <2>3 DEF CheckRunToken, Goto, PoolType, ExecType
    <3>2. RetryBudget(i)' /\ History(i)'
      BY <2>1, <3>1, InsideAttempt
    <3>3. LocalInv(i)'
      BY <3>1, <3>2 DEF LocalInv, Verdict, UnderWay
    <3> QED
      BY <1>0, <1>2, <2>1, <2>3, <3>1, <3>3 DEF CheckRunToken, Goto, ExecType
  <2> QED
    BY <2>2, <2>3
<1>3. ASSUME NEW i \in Installers, CheckPoolToken(i) PROVE AllLocal'
  <2>1. pc[i] = "cleared" /\ UNCHANGED <<attempt, attempts>> /\ LocalInv(i)
    BY <1>3 DEF CheckPoolToken, AllLocal
  <2>2. CASE poolToken
    <3>1. LocalInv(i)'
      BY <1>3, <2>1, <2>2, ReturnLocal, StoppedResults DEF CheckPoolToken
    <3> QED
      BY <1>0, <1>3, <2>1, <2>2, <3>1
         DEF CheckPoolToken, Return, Goto, Set, PoolType, ExecType
  <2>3. CASE ~ poolToken
    <3>1. pc'[i] = "attempt" /\ UNCHANGED result /\ ExecType
      BY <1>3, <2>3 DEF CheckPoolToken, Goto, PoolType, ExecType
    <3>2. RetryBudget(i)' /\ History(i)'
      BY <2>1, <3>1, InsideAttempt
    <3>3. LocalInv(i)'
      BY <3>1, <3>2 DEF LocalInv, Verdict, UnderWay
    <3> QED
      BY <1>0, <1>3, <2>1, <2>3, <3>1, <3>3 DEF CheckPoolToken, Goto, ExecType
  <2> QED
    BY <2>2, <2>3
<1>4. ASSUME NEW i \in Installers, Run(i) PROVE AllLocal'
  <2>1. ExecType /\ ExecutorStep(i, poolToken) /\ LocalInv(i)
    BY <1>4 DEF Run, PoolType, AllLocal
  <2>2. LocalInv(i)'
    BY <2>1, ExecutorKeeps
  <2> QED
    BY <1>0, <2>1, <2>2, ExecutorFrame
<1>5. ASSUME NEW i \in Installers, RecoverError(i) PROVE AllLocal'
  <2>1. PICK out \in Outputs : Set(i, finalize_failure(Failed(NewResult, out)))
    BY <1>5 DEF RecoverError
  <2>2. /\ pc'[i] = "returned" /\ attempt'[i] = attempt[i]
        /\ attempts'[i] = << >>
        /\ result'[i] = finalize_failure(Failed(NewResult, out))
        /\ attempt[i] \in Nat
    BY <1>5, <2>1 DEF RecoverError, Goto, Set, PoolType, ExecType
  <2>3. RetryBudget(i)' /\ History(i)'
    BY <2>2 DEF AllLocal, LocalInv, RetryBudget, History, max_attempts
  <2>4. Verdict(i)'
    BY <2>2, RecoveredResults DEF Verdict, UnderWay
  <2>5. LocalInv(i)'
    BY <2>3, <2>4 DEF LocalInv
  <2> QED
    BY <1>0, <1>5, <2>1, <2>5
       DEF RecoverError, Goto, Set, PoolType, ExecType
<1>6. ASSUME NEW i \in Installers, Finish(i) PROVE AllLocal'
  <2>1. /\ pc[i] = "returned" /\ Return(i, result[i])
        /\ UNCHANGED <<attempt, attempts>> /\ LocalInv(i)
    BY <1>6 DEF Finish, AllLocal
  <2>2. LocalInv(i)'
    <3>1. /\ result[i].status # "pending"
          /\ result[i].status \in {"failed", "timed_out", "cancelled"}
                => result[i].error # "none"
          /\ result[i].status = "passed" => result[i].error = "none"
      BY <2>1 DEF LocalInv, Verdict
    <3> QED
      BY <2>1, <3>1, ReturnLocal
  <2> QED
    BY <1>0, <2>1, <2>2 DEF Return, Goto, Set, PoolType, ExecType
<1>7. CASE UNCHANGED execVars
  BY <1>7, LocalFrame DEF AllLocal, execVars
<1> QED
  BY <1>1, <1>2, <1>3, <1>4, <1>5, <1>6, <1>7
     DEF Next, Worker, Control, Terminated, vars
-----------------------------------------------------------------------------
(* A step of task i that moves on from a label other than "done" keeps the *)
(* failures that stopped the pool on record.                               *)
LEMMA FailuresStay ==
    ASSUME NEW i \in Installers, pc[i] # "done",
           \A j \in Installers : j # i =>
               pc'[j] = pc[j] /\ result'[j] = result[j],
           NEW j \in Installers, RealFailure(j)
    PROVE  RealFailure(j)'
BY DEF RealFailure

(* The ledger through a step of task i that leaves the tokens alone.       *)
LEMMA LedgerFrame ==
    ASSUME TokenLedger, NEW i \in Installers, pc[i] # "done",
           UNCHANGED <<runToken, poolToken>>,
           \A j \in Installers : j # i =>
               pc'[j] = pc[j] /\ result'[j] = result[j],
           pc'[i] = "stopping" => poolToken,
           result'[i].status \in {"cancelled", "skipped"} => poolToken
    PROVE  TokenLedger'
<1>1. (runToken => poolToken)'
  BY DEF TokenLedger
<1>2. (poolToken => runToken \/ (FailFast /\ \E j \in Installers : RealFailure(j)))'
  BY FailuresStay DEF TokenLedger
<1>3. ASSUME NEW j \in Installers
      PROVE  /\ (pc[j] = "stopping" => poolToken)'
             /\ (result[j].status \in {"cancelled", "skipped"} => poolToken)'
  <2>1. CASE j = i
    BY <2>1
  <2>2. CASE j # i
    BY <2>2 DEF TokenLedger
  <2> QED
    BY <2>1, <2>2
<1> QED
  BY <1>1, <1>2, <1>3 DEF TokenLedger

(* Every step of the pool keeps the ledger of the tokens.                  *)
LEMMA LedgerStep ==
    PoolType /\ AllLocal /\ TokenLedger /\ [Next]_vars => TokenLedger'
<1> SUFFICES ASSUME PoolType, AllLocal, TokenLedger, [Next]_vars
             PROVE  TokenLedger'
  OBVIOUS
<1> USE DEF Goto, Set
<1>1. ASSUME NEW i \in Installers, Acquire(i) PROVE TokenLedger'
  <2>1. result'[i].status \in {"cancelled", "skipped"} => poolToken
    BY <1>1 DEF Acquire, TokenLedger
  <2> QED
    BY <1>1, <2>1, LedgerFrame DEF Acquire, PoolType, ExecType, controlVars
<1>2. ASSUME NEW i \in Installers, CheckRunToken(i) PROVE TokenLedger'
  <2>1. CASE runToken
    BY <1>2, <2>1, LedgerFrame
       DEF CheckRunToken, Return, PoolType, ExecType, controlVars, TokenLedger
  <2>2. CASE ~ runToken
    <3>1. result'[i].status \in {"cancelled", "skipped"} => poolToken
      BY <1>2, <2>2 DEF CheckRunToken, TokenLedger
    <3> QED
      BY <1>2, <2>2, <3>1, LedgerFrame
         DEF CheckRunToken, PoolType, ExecType, controlVars
  <2> QED
    BY <2>1, <2>2
<1>3. ASSUME NEW i \in Installers, CheckPoolToken(i) PROVE TokenLedger'
  <2>1. CASE poolToken
    BY <1>3, <2>1, LedgerFrame
       DEF CheckPoolToken, Return, PoolType, ExecType, controlVars
  <2>2. CASE ~ poolToken
    <3>1. result'[i].status \in {"cancelled", "skipped"} => poolToken
      BY <1>3, <2>2 DEF CheckPoolToken, TokenLedger
    <3> QED
      BY <1>3, <2>2, <3>1, LedgerFrame
         DEF CheckPoolToken, PoolType, ExecType, controlVars
  <2> QED
    BY <2>1, <2>2
<1>4. ASSUME NEW i \in Installers, Run(i) PROVE TokenLedger'
  <2>1. /\ ExecType /\ ExecutorStep(i, poolToken)
        /\ UNCHANGED <<runToken, poolToken>>
    BY <1>4 DEF Run, PoolType, controlVars
  <2>2. pc[i] # "done"
    BY <2>1, ExecutorLabels DEF ExecutorPc
  <2>3. \A j \in Installers : j # i =>
            pc'[j] = pc[j] /\ result'[j] = result[j]
    BY <2>1, ExecutorFrame
  <2>4. /\ pc'[i] = "stopping" => poolToken
        /\ result'[i].status \in {"cancelled", "skipped"} => poolToken
    BY <2>1, CancelNeedsToken DEF TokenLedger
  <2> QED
    BY <2>1, <2>2, <2>3, <2>4, LedgerFrame
<1>5. ASSUME NEW i \in Installers, RecoverError(i) PROVE TokenLedger'
  <2>1. PICK out \in Outputs : Set(i, finalize_failure(Failed(NewResult, out)))
    BY <1>5 DEF RecoverError
  <2>2. result'[i].status = "failed"
    BY <2>1, RecoveredResults DEF PoolType, ExecType
  <2> QED
    BY <1>5, <2>1, <2>2, LedgerFrame
       DEF RecoverError, PoolType, ExecType, controlVars
<1>6. ASSUME NEW i \in Installers, Finish(i) PROVE TokenLedger'
  <2>1. /\ pc[i] = "returned" /\ pc'[i] = "done" /\ result' = result
        /\ runToken' = runToken
        /\ poolToken' = (poolToken \/ (/\ FailFast
                                       /\ ~ success(result[i])
                                       /\ result[i].status # "cancelled"))
        /\ \A j \in Installers : j # i => pc'[j] = pc[j]
    BY <1>6 DEF Finish, Return, PoolType, ExecType
  <2>2. result[i].status \in {"passed", "failed", "timed_out", "cancelled"}
    BY <2>1 DEF AllLocal, LocalInv, Verdict
  <2>3. CASE poolToken
    <3>1. poolToken' = poolToken
      BY <2>1, <2>3 DEF PoolType, ControlTypeOK
    <3> QED
      BY <2>1, <2>3, <3>1, LedgerFrame
  <2>4. CASE ~ poolToken
    <3>1. ~ runToken
          /\ \A j \in Installers :
                /\ pc'[j] # "stopping"
                /\ result'[j].status \notin {"cancelled", "skipped"}
      BY <2>1, <2>4 DEF TokenLedger
    <3>2. poolToken' => FailFast /\ RealFailure(i)'
      BY <2>1, <2>2, <2>4 DEF RealFailure, success
    <3> QED
      BY <2>1, <3>1, <3>2 DEF TokenLedger
  <2> QED
    BY <2>3, <2>4
<1>7. CASE Control
  <2>1. /\ UNCHANGED <<pc, result>>
        /\ UNCHANGED <<runToken, poolToken>> \/ (runToken' /\ poolToken')
    BY <1>7 DEF Control, execVars, ControlNext, SignalArrives, SignalCancels,
       DeadlineExpires, DeadlineFlags, DeadlineCancels, CancelRun
  <2>2. \A j \in Installers : RealFailure(j)' <=> RealFailure(j)
    BY <2>1 DEF RealFailure
  <2> QED
    BY <2>1, <2>2 DEF TokenLedger
<1>8. CASE UNCHANGED vars
  BY <1>8 DEF vars, controlVars, execVars, TokenLedger, RealFailure
<1> QED
  BY <1>1, <1>2, <1>3, <1>4, <1>5, <1>6, <1>7, <1>8
     DEF Next, Worker, Terminated

-----------------------------------------------------------------------------
(* Who stops unstarted, through a step of task i.                          *)
LEMMA UnstartedFrame ==
    ASSUME Unstarted, NEW i \in Installers, runToken => runToken',
           \A j \in Installers : j # i =>
               /\ pc'[j] = pc[j] /\ result'[j] = result[j]
               /\ attempts'[j] = attempts[j],
           pc'[i] \in {"queued", "admitted", "cleared"} =>
               attempts'[i] = << >> /\ result'[i].status = "pending",
           pc'[i] # "done" => result'[i].status # "skipped",
           pc'[i] \in {"returned", "done"} /\ attempts'[i] = << >>
               /\ result'[i].status = "cancelled" => runToken',
           result'[i].status = "skipped" => attempts'[i] = << >>
    PROVE  Unstarted'
BY DEF Unstarted

(* No step calls an installer without a recorded attempt Cancelled but     *)
(* under a cancelled run token, and none that has one Skipped.             *)
LEMMA UnstartedStep ==
    PoolType /\ AllLocal /\ Unstarted /\ [Next]_vars => Unstarted'
<1> SUFFICES ASSUME PoolType, AllLocal, Unstarted, [Next]_vars
             PROVE  Unstarted'
  OBVIOUS
<1>1. ASSUME NEW i \in Installers, Acquire(i) PROVE Unstarted'
  BY <1>1, UnstartedFrame DEF Acquire, Goto, PoolType, ExecType, controlVars, Unstarted
<1>2. ASSUME NEW i \in Installers, CheckRunToken(i) PROVE Unstarted'
  <2>1. CASE runToken
    <3>1. finalize_failure(mark_cancelled(NewResult, {})).status = "cancelled"
      BY StoppedResults
    <3> QED
      BY <1>2, <2>1, <3>1, UnstartedFrame
         DEF CheckRunToken, Return, Goto, Set, PoolType, ExecType, controlVars
  <2>2. CASE ~ runToken
    BY <1>2, <2>2, UnstartedFrame
       DEF CheckRunToken, Goto, PoolType, ExecType, controlVars, Unstarted
  <2> QED
    BY <2>1, <2>2
<1>3. ASSUME NEW i \in Installers, CheckPoolToken(i) PROVE Unstarted'
  <2>1. CASE poolToken
    <3>1. [NewResult EXCEPT !.status = "skipped"].status = "skipped"
      BY DEF NewResult
    <3>2. attempts[i] = << >>
      BY <1>3 DEF CheckPoolToken, Unstarted
    <3> QED
      BY <1>3, <2>1, <3>1, <3>2, UnstartedFrame
         DEF CheckPoolToken, Return, Goto, Set, PoolType, ExecType, controlVars
  <2>2. CASE ~ poolToken
    BY <1>3, <2>2, UnstartedFrame
       DEF CheckPoolToken, Goto, PoolType, ExecType, controlVars, Unstarted
  <2> QED
    BY <2>1, <2>2
<1>4. ASSUME NEW i \in Installers, Run(i) PROVE Unstarted'
  <2>1. /\ ExecType /\ ExecutorStep(i, poolToken) /\ LocalInv(i)
        /\ UNCHANGED runToken
    BY <1>4 DEF Run, PoolType, controlVars, AllLocal
  <2>2. pc[i] \in ExecutorPc /\ pc'[i] \in ExecutorPc
    BY <2>1, ExecutorLabels
  <2>3. \A j \in Installers : j # i =>
            /\ pc'[j] = pc[j] /\ result'[j] = result[j]
            /\ attempts'[j] = attempts[j]
    BY <2>1, ExecutorFrame
  <2>4. result'[i].status # "skipped"
    BY <2>1, <2>2, NeverSkips DEF Unstarted, ExecutorPc
  <2>5. pc'[i] = "returned" => attempts'[i] # << >>
    BY <2>1, ReturnedIsRecorded
  <2> QED
    BY <2>1, <2>2, <2>3, <2>4, <2>5, UnstartedFrame DEF ExecutorPc
<1>5. ASSUME NEW i \in Installers, RecoverError(i) PROVE Unstarted'
  <2>1. PICK out \in Outputs : Set(i, finalize_failure(Failed(NewResult, out)))
    BY <1>5 DEF RecoverError
  <2>2. result'[i].status = "failed"
    BY <2>1, RecoveredResults DEF PoolType, ExecType, Set
  <2> QED
    BY <1>5, <2>1, <2>2, UnstartedFrame
       DEF RecoverError, Goto, Set, PoolType, ExecType, controlVars
<1>6. ASSUME NEW i \in Installers, Finish(i) PROVE Unstarted'
  <2>1. /\ pc[i] = "returned" /\ pc'[i] = "done" /\ result' = result
        /\ UNCHANGED <<runToken, attempts>>
        /\ \A j \in Installers : j # i => pc'[j] = pc[j]
    BY <1>6 DEF Finish, Return, Goto, Set, PoolType, ExecType
  <2> QED
    BY <2>1, UnstartedFrame DEF Unstarted
<1>7. CASE Control
  <2>1. UNCHANGED <<pc, result, attempts>> /\ (runToken => runToken')
    BY <1>7 DEF Control, execVars, ControlNext, SignalArrives, SignalCancels,
       DeadlineExpires, DeadlineFlags, DeadlineCancels, CancelRun
  <2> QED
    BY <2>1 DEF Unstarted
<1>8. CASE UNCHANGED vars
  BY <1>8 DEF vars, controlVars, execVars, Unstarted
<1> QED
  BY <1>1, <1>2, <1>3, <1>4, <1>5, <1>6, <1>7, <1>8
     DEF Next, Worker, Terminated

-----------------------------------------------------------------------------
PoolInv == PoolType /\ PermitAccount /\ AllLocal /\ TokenLedger /\ Unstarted

(* Before the first task is polled, everything is in order.                *)
LEMMA PoolInit == Init => PoolInv
<1> SUFFICES ASSUME Init PROVE PoolInv
  OBVIOUS
<1> USE MaxParallelAssumption DEF Init
<1>1. PoolType
  <2>1. ExecType
    BY NewResultType, PoolLabels DEF ExecType
  <2>2. ControlTypeOK
    BY DEF ControlInit, ControlTypeOK
  <2> QED
    BY <2>1, <2>2 DEF PoolType
<1>2. PermitAccount
  <2>1. InFlight = {}
    BY DEF InFlight
  <2> QED
    BY <2>1, FS_EmptySet DEF PermitAccount
<1>3. AllLocal
  BY RetryCountAssumption
     DEF AllLocal, LocalInv, RetryBudget, Verdict, History, UnderWay,
         max_attempts
<1>4. TokenLedger
  BY DEF TokenLedger, ControlInit, NewResult
<1>5. Unstarted
  BY DEF Unstarted, NewResult
<1> QED
  BY <1>1, <1>2, <1>3, <1>4, <1>5 DEF PoolInv

(* The five parts together are inductive: whatever the interleaving of the *)
(* tasks, the signal handler and the deadline task.                        *)
THEOREM PoolInvariant == Spec => []PoolInv
<1>1. PoolInv /\ [Next]_vars => PoolInv'
  BY PoolTypeStep, PermitStep, LocalStep, LedgerStep, UnstartedStep DEF PoolInv
<1> QED
  BY PoolInit, <1>1, PTL DEF Spec

(* Type correctness of run_all; that permits never exceed MaxParallel      *)
(* rests on the account of the semaphore.                                  *)
THEOREM PoolTypeCorrect == Spec => []TypeOK
<1>1. PoolInv => TypeOK
  BY PoolLabels, InFlightFinite, MaxParallelAssumption
     DEF PoolInv, PoolType, PermitAccount, ExecType, TypeOK
<1> QED
  BY PoolInvariant, <1>1, PTL

(* At most max_parallel tasks are between acquiring their permit and       *)
(* returning, for any number of installers and on every path.              *)
THEOREM PoolIsBounded == Spec => []BoundedConcurrency
<1>1. PoolInv => BoundedConcurrency
  BY InFlightFinite, MaxParallelAssumption
     DEF PoolInv, PoolType, PermitAccount, BoundedConcurrency
<1> QED
  BY PoolInvariant, <1>1, PTL

(* Only transient failures are retried, for every retry count and every    *)
(* moment of cancellation: the recorded text of an attempt that was        *)
(* followed by another one shows a network error or a held package lock    *)
(* and none of the definitive markers.                                     *)
THEOREM RetriesAreTransient == Spec => []OnlyTransientRetried
<1>1. PoolInv => OnlyTransientRetried
  BY DEF PoolInv, AllLocal, LocalInv, History, Transient, TransientGroups,
         OnlyTransientRetried
<1> QED
  BY PoolInvariant, <1>1, PTL

(* The retry loop never exceeds max_attempts and records each attempt once.*)
THEOREM RetriesAreBounded == Spec => []AttemptBudget
<1>1. PoolInv => AttemptBudget
  BY DEF PoolInv, AllLocal, LocalInv, RetryBudget, AttemptBudget
<1> QED
  BY PoolInvariant, <1>1, PTL

(* Every verdict run_all collects is final, and says why unless it passed  *)
(* or was skipped.                                                         *)
THEOREM VerdictsAreClassified == Spec => []FailuresClassified
<1>1. PoolInv => FailuresClassified
  BY DEF PoolInv, AllLocal, LocalInv, Verdict, FailuresClassified
<1> QED
  BY PoolInvariant, <1>1, PTL

(* parallel.rs:6-8: an installer that never started is Cancelled only by   *)
(* the run token, one in flight also by fail-fast; only one that never     *)
(* started is Skipped, by fail-fast after a real failure or by a run token *)
(* cancelled between the two looks.                                        *)
THEOREM StopsAreCaused == Spec => []StopHasACause
<1>1. PoolInv => StopHasACause
  BY DEF PoolInv, TokenLedger, Unstarted, StopHasACause, FailFastFired
<1> QED
  BY PoolInvariant, <1>1, PTL
-----------------------------------------------------------------------------
(* No step of the pool itself touches a container or a contained attempt.  *)
LEMMA ContainersStep ==
    ASSUME DaemonFaults = {}, PoolType, ContainersOwned, [Next]_vars
    PROVE  ContainersOwned'
<1>1. ASSUME NEW i \in Installers, Run(i) PROVE ContainersOwned'
  BY <1>1, ContainersKept DEF Run, PoolType
<1>2. ASSUME NEW i \in Installers,
             \/ Acquire(i) \/ CheckRunToken(i) \/ CheckPoolToken(i)
             \/ RecoverError(i) \/ Finish(i)
      PROVE  ContainersOwned'
  <2>1. /\ UNCHANGED <<attempt, containers>>
        /\ pc[i] \notin Contained
        /\ \A j \in Installers : j # i => pc'[j] = pc[j]
    BY <1>2 DEF Acquire, CheckRunToken, CheckPoolToken, RecoverError, Finish,
       Return, Goto, Contained, PoolType, ExecType
  <2>2. \A c \in containers : c[1] \in Installers
    BY DEF PoolType, ExecType
  <2> QED
    BY <2>1, <2>2 DEF ContainersOwned
<1>3. CASE UNCHANGED execVars
  BY <1>3 DEF execVars, ContainersOwned
<1> QED
  BY <1>1, <1>2, <1>3 DEF Next, Worker, Control, Terminated, vars

(* With a daemon that obeys its stop and remove calls, run_all leaves no   *)
(* container behind, however the attempts end.                             *)
THEOREM ContainersAreRemoved ==
    ASSUME DaemonFaults = {}
    PROVE  Spec => []NoContainerLeft
<1> DEFINE I == PoolInv /\ ContainersOwned
<1>1. Init => I
  BY PoolInit DEF Init, ContainersOwned
<1>2. I /\ [Next]_vars => I'
  BY PoolTypeStep, PermitStep, LocalStep, LedgerStep, UnstartedStep, ContainersStep
     DEF PoolInv
<1>3. I => NoContainerLeft
  BY DEF ContainersOwned, Contained, NoContainerLeft
<1> QED
  BY <1>1, <1>2, <1>3, PTL DEF Spec

-----------------------------------------------------------------------------
(* A task that returns is a judgement of RunContract.                      *)
LEMMA ReturnJudges ==
    ASSUME PoolType, NEW i \in Installers, NEW r, Return(i, r),
           pc[i] \in {"admitted", "cleared", "returned"},
           r.status \in Contract!Verdicts,
           r.status \in {"cancelled", "skipped"} => poolToken,
           poolToken' = (poolToken \/ (FailFast /\ r.status \in {"failed", "timed_out"}))
    PROVE  Contract!ContractNext
<1>1. /\ \A j \in Installers : j # i => pc'[j] = pc[j] /\ result'[j] = result[j]
      /\ pc'[i] = "done" /\ result'[i] = r
  BY DEF Return, Goto, Set, PoolType, ExecType
<1>2. phaseOfAll' = [phaseOfAll EXCEPT ![i] = r.status] /\ phaseOfAll[i] = "idle"
  <2>1. PhaseOf(i)' = r.status
    BY <1>1 DEF PhaseOf
  <2>2. PhaseOf(i) = "idle"
    BY DEF PhaseOf, UnderWay
  <2> QED
    BY <1>1, <2>1, <2>2, PhaseFrame DEF phaseOfAll
<1>3. Contract!Judge(i, r.status)
  BY <1>2 DEF Contract!Judge, phaseOfAll
<1> QED
  BY <1>3 DEF Contract!ContractNext

(* A task that stays idle is a stuttering step of RunContract.             *)
LEMMA IdleStutters ==
    ASSUME PoolType, NEW i \in Installers, poolToken' = poolToken,
           pc[i] \notin UnderWay \cup {"done"},
           pc'[i] \notin UnderWay \cup {"done"},
           \A j \in Installers : j # i =>
               pc'[j] = pc[j] /\ result'[j] = result[j]
    PROVE  UNCHANGED Contract!contractVars
<1>1. PhaseOf(i)' = "idle" /\ PhaseOf(i) = "idle"
  BY DEF PhaseOf
<1>2. phaseOfAll' = phaseOfAll
  BY <1>1, PhaseFrame DEF phaseOfAll
<1> QED
  BY <1>2 DEF Contract!contractVars, phaseOfAll

(* RunContract counts with the operator of FiniteSets, too.                *)
LEMMA SameCardinality == \A S : Contract!Cardinality(S) = Cardinality(S)
BY Zenon DEF Cardinality, Contract!Cardinality

(* A step of an attempt starts it, ends it or stutters; there is room for  *)
(* a new one, because the starting task is in flight and not yet running.  *)
LEMMA RunImplements ==
    ASSUME PoolInv, NEW i \in Installers, Run(i)
    PROVE  Contract!ContractNext \/ UNCHANGED Contract!contractVars
<1>0. /\ ExecType /\ PoolType /\ ExecutorStep(i, poolToken)
      /\ poolToken' = poolToken
  BY DEF Run, PoolInv, PoolType, controlVars
<1>1. \A j \in Installers : j # i => pc'[j] = pc[j] /\ result'[j] = result[j]
  BY <1>0, ExecutorFrame
<1>2. pc[i] \notin {"queued", "done"} /\ pc'[i] # "done"
  BY <1>0, ExecutorLabels DEF ExecutorPc
<1>3. phaseOfAll' = [phaseOfAll EXCEPT ![i] = PhaseOf(i)']
      /\ phaseOfAll[i] = PhaseOf(i)
  BY <1>1, PhaseFrame DEF phaseOfAll
<1>4. CASE pc[i] \in UnderWay /\ pc'[i] \in UnderWay
  <2>1. PhaseOf(i) = "running" /\ PhaseOf(i)' = "running"
    BY <1>2, <1>4 DEF PhaseOf
  <2>2. phaseOfAll' = phaseOfAll
    BY <1>3, <2>1 DEF phaseOfAll
  <2> QED
    BY <1>0, <2>2 DEF Contract!contractVars, phaseOfAll
<1>5. CASE pc[i] \in UnderWay /\ pc'[i] \notin UnderWay
  <2>1. PhaseOf(i) = "running" /\ PhaseOf(i)' = "idle"
    BY <1>2, <1>5 DEF PhaseOf
  <2>2. Contract!EndAttempt(i)
    BY <1>0, <1>3, <2>1 DEF Contract!EndAttempt, phaseOfAll
  <2> QED
    BY <2>2 DEF Contract!ContractNext
<1>6. CASE pc[i] \notin UnderWay /\ pc'[i] \in UnderWay
  <2>1. PhaseOf(i) = "idle" /\ PhaseOf(i)' = "running"
    BY <1>2, <1>6 DEF PhaseOf
  <2>2. ~ poolToken
    BY <1>0, <1>6, AttemptNeedsToken
  <2>3. Cardinality(Contract!Running) < MaxParallel
    <3> DEFINE busy == InFlight \ {i}
    <3>1. i \in InFlight
      BY <1>2 DEF InFlight
    <3>2. IsFiniteSet(busy) /\ Cardinality(busy) = Cardinality(InFlight) - 1
      BY <3>1, InFlightFinite, FS_RemoveElement
    <3>3. Contract!Running \subseteq busy
      <4>1. ASSUME NEW j \in Installers, PhaseOf(j) = "running"
            PROVE  j \in busy
        <5>1. j # i
          BY <2>1, <4>1
        <5>2. pc[j] # "done"
          <6>1. result[j].status # "running"
            BY <1>0 DEF ExecType, Results, Statuses
          <6> QED
            BY <4>1, <6>1 DEF PhaseOf
        <5>3. pc[j] \in UnderWay
          BY <4>1, <5>2 DEF PhaseOf
        <5> QED
          BY <5>1, <5>3 DEF InFlight, UnderWay
      <4> QED
        BY <4>1 DEF Contract!Running
    <3>4. Cardinality(Contract!Running) <= Cardinality(busy)
      BY <3>2, <3>3, FS_Subset
    <3>5. Cardinality(Contract!Running) \in Nat
      BY <3>2, <3>3, FS_Subset, FS_CardinalityType
    <3> QED
      BY <3>2, <3>4, <3>5, InFlightFinite, MaxParallelAssumption
         DEF PoolInv, PoolType, PermitAccount
  <2>4. Contract!StartAttempt(i)
    BY <1>0, <1>3, <2>1, <2>2, <2>3, SameCardinality
       DEF Contract!StartAttempt, phaseOfAll
  <2> QED
    BY <2>4 DEF Contract!ContractNext
<1>7. CASE pc[i] \notin UnderWay /\ pc'[i] \notin UnderWay
  BY <1>0, <1>1, <1>2, <1>7, IdleStutters
<1> QED
  BY <1>4, <1>5, <1>6, <1>7

(* Every step of the pool is a step or a stutter of RunContract.           *)
LEMMA StepImplements ==
    ASSUME PoolInv, [Next]_vars
    PROVE  Contract!ContractNext \/ UNCHANGED Contract!contractVars
<1> USE DEF Goto, Set
<1>0. PoolType /\ TokenLedger /\ AllLocal
  BY DEF PoolInv
<1>1. ASSUME NEW i \in Installers, Acquire(i)
      PROVE  UNCHANGED Contract!contractVars
  BY <1>0, <1>1, IdleStutters
     DEF Acquire, PoolType, ExecType, controlVars, UnderWay
<1>2. ASSUME NEW i \in Installers, CheckRunToken(i)
      PROVE  Contract!ContractNext \/ UNCHANGED Contract!contractVars
  <2>1. CASE runToken
    <3> DEFINE r == finalize_failure(mark_cancelled(NewResult, {}))
    <3>1. r.status = "cancelled"
      BY StoppedResults
    <3> HIDE DEF r
    <3>2. Return(i, r) /\ pc[i] = "admitted" /\ poolToken' = poolToken
      BY <1>2, <2>1 DEF CheckRunToken, controlVars, r
    <3>3. poolToken = TRUE
      BY <1>0, <2>1 DEF TokenLedger, PoolType, ControlTypeOK
    <3> QED
      BY <1>0, <3>1, <3>2, <3>3, ReturnJudges DEF Contract!Verdicts
  <2>2. CASE ~ runToken
    BY <1>0, <1>2, <2>2, IdleStutters
       DEF CheckRunToken, PoolType, ExecType, controlVars, UnderWay
  <2> QED
    BY <2>1, <2>2
<1>3. ASSUME NEW i \in Installers, CheckPoolToken(i)
      PROVE  Contract!ContractNext \/ UNCHANGED Contract!contractVars
  <2>1. CASE poolToken
    <3> DEFINE r == [NewResult EXCEPT !.status = "skipped"]
    <3>1. r.status = "skipped"
      BY StoppedResults
    <3> HIDE DEF r
    <3>2. Return(i, r) /\ pc[i] = "cleared" /\ poolToken' = poolToken
      BY <1>3, <2>1 DEF CheckPoolToken, controlVars, r
    <3>3. poolToken = TRUE
      BY <1>0, <2>1 DEF PoolType, ControlTypeOK
    <3> QED
      BY <1>0, <3>1, <3>2, <3>3, ReturnJudges DEF Contract!Verdicts
  <2>2. CASE ~ poolToken
    BY <1>0, <1>3, <2>2, IdleStutters
       DEF CheckPoolToken, PoolType, ExecType, controlVars, UnderWay
  <2> QED
    BY <2>1, <2>2
<1>4. ASSUME NEW i \in Installers, RecoverError(i)
      PROVE  UNCHANGED Contract!contractVars
  BY <1>0, <1>4, IdleStutters
     DEF RecoverError, PoolType, ExecType, controlVars, UnderWay
<1>5. ASSUME NEW i \in Installers, Finish(i)
      PROVE  Contract!ContractNext
  <2>1. /\ pc[i] = "returned" /\ Return(i, result[i])
        /\ poolToken' = (poolToken \/ (/\ FailFast
                                       /\ ~ success(result[i])
                                       /\ result[i].status # "cancelled"))
    BY <1>5 DEF Finish
  <2>2. result[i].status \in {"passed", "failed", "timed_out", "cancelled"}
    BY <1>0, <2>1 DEF AllLocal, LocalInv, Verdict
  <2>3. result[i].status \in {"cancelled", "skipped"} => poolToken
    BY <1>0 DEF TokenLedger
  <2>4. (~ success(result[i]) /\ result[i].status # "cancelled")
            <=> result[i].status \in {"failed", "timed_out"}
    BY <2>2 DEF success
  <2> QED
    BY <1>0, <2>1, <2>2, <2>3, <2>4, ReturnJudges DEF Contract!Verdicts
<1>6. CASE Control
  <2>1. /\ UNCHANGED <<pc, result>>
        /\ poolToken' = poolToken \/ poolToken' = TRUE
    BY <1>6 DEF Control, execVars, ControlNext, SignalArrives, SignalCancels,
       DeadlineExpires, DeadlineFlags, DeadlineCancels, CancelRun
  <2>2. phaseOfAll' = phaseOfAll
    BY <2>1 DEF phaseOfAll, PhaseOf
  <2>3. CASE poolToken' = poolToken
    BY <2>2, <2>3 DEF Contract!contractVars, phaseOfAll
  <2>4. CASE poolToken' = TRUE
    BY <2>2, <2>4 DEF Contract!ContractNext, Contract!Stop, phaseOfAll
  <2> QED
    BY <2>1, <2>3, <2>4
<1>7. CASE UNCHANGED vars
  BY <1>7 DEF vars, execVars, controlVars, Contract!contractVars, PhaseOf
<1> QED
  BY <1>1, <1>2, <1>3, <1>4, <1>5, <1>6, <1>7, RunImplements
     DEF Next, Worker, Terminated

(* ParallelRunner::run_all implements RunContract: attempts start only     *)
(* while the run is not stopped and at most MaxParallel at once, every     *)
(* installer is judged once and between attempts, and the run is stopped   *)
(* from outside or by a real failure under fail-fast.                      *)
THEOREM PoolImplementsContract == Spec => PoolKeepsContract
<1>1. Init => Contract!ContractInit
  BY DEF Init, ControlInit, Contract!ContractInit, PhaseOf, UnderWay
<1>2. PoolInv /\ [Next]_vars => [Contract!ContractNext]_(Contract!contractVars)
  BY StepImplements
<1> QED
  BY PoolInvariant, <1>1, <1>2, PTL
     DEF Spec, PoolKeepsContract, Contract!ContractSpec

-----------------------------------------------------------------------------
(* cmd_check takes the results over once every task has returned, and only *)
(* then.                                                                   *)
HandOver ==
    /\ main = "work" => collected = {}
    /\ main # "work" => AllDone /\ collected = Installers

PoolCheckInv == PoolInv /\ CheckInv /\ HandOver

(* A worker's step is a step of the pool that cmd_check waits for.         *)
LEMMA PoolWorkKeeps ==
    ASSUME PoolCheckInv, PoolWork
    PROVE  PoolCheckInv'
<1>1. PICK i \in Installers : Worker(i)
  BY DEF PoolWork
<1>2. Next
  BY <1>1 DEF Next
<1>3. PoolInv'
  BY <1>2, PoolTypeStep, PermitStep, LocalStep, LedgerStep, UnstartedStep
     DEF PoolCheckInv, PoolInv
<1>4. UNCHANGED <<seen, handler, deadlineHit>>
  BY <1>1 DEF Worker, Acquire, CheckRunToken, CheckPoolToken, Run,
     RecoverError, Finish, controlVars
<1>5. /\ main = "work" /\ main' = "work" /\ collected' = {}
      /\ UNCHANGED <<readVars, outVars>>
  BY DEF PoolWork, PoolCheckInv, HandOver, checkVars
<1>6. CheckInv'
  BY <1>4, <1>5, WorkKeepsCheck DEF PoolCheckInv, Judged
<1> QED
  BY <1>3, <1>5, <1>6 DEF PoolCheckInv, HandOver

(* When every handle has been awaited, each result is a verdict, and none  *)
(* is Cancelled without the run token or a real failure.                   *)
LEMMA CollectPoolKeeps ==
    ASSUME PoolCheckInv, CollectPool
    PROVE  PoolCheckInv'
<1> USE DEF PoolCheckInv
<1>1. /\ AllDone /\ collected' = Installers
      /\ main = "work" /\ main' = "read_deadline"
      /\ UNCHANGED <<runToken, poolToken, seen, handler, deadlineHit, timer>>
      /\ UNCHANGED <<pc, attempt, result, attempts, containers, permits>>
      /\ UNCHANGED <<readVars, outVars>>
  BY DEF CollectPool, vars, controlVars, execVars
<1>2. PoolInv'
  <2>1. UNCHANGED vars
    BY DEF CollectPool
  <2> QED
    BY <2>1, PoolTypeStep, PermitStep, LocalStep, LedgerStep, UnstartedStep DEF PoolInv
<1>3. \A i \in Installers : result[i].status \in
          {"passed", "failed", "timed_out", "cancelled", "skipped"}
  <2> TAKE i \in Installers
  <2>1. result[i] \in Results /\ result[i].status # "pending"
    BY <1>1 DEF PoolInv, PoolType, ExecType, AllLocal, LocalInv, Verdict, AllDone
  <2> QED
    BY <2>1 DEF Results, Statuses
<1>4. Judged'
  BY <1>1, <1>3 DEF Judged
<1>5. (runToken \/ CancelsExplained)'
  <2>1. runToken \/ (\E j \in Installers : ReallyFailed(j))
        \/ (\A i \in Installers : result[i].status # "cancelled")
    BY DEF PoolInv, TokenLedger, RealFailure, ReallyFailed
  <2> QED
    BY <1>1, <2>1 DEF CancelsExplained, ReallyFailed
<1>6. CheckInv'
  BY <1>1, <1>4, <1>5, CollectKeepsCheck
<1> QED
  BY <1>1, <1>2, <1>6 DEF HandOver, AllDone

(* The rest of the command does not touch the pool any more.               *)
LEMMA PoolCheckStep == PoolCheckInv /\ [PoolCheckNext]_checkPoolVars => PoolCheckInv'
<1> SUFFICES ASSUME PoolCheckInv, [PoolCheckNext]_checkPoolVars
             PROVE  PoolCheckInv'
  OBVIOUS
<1>0. ControlTypeOK
  BY DEF PoolCheckInv, PoolInv, PoolType
<1>1. ASSUME UNCHANGED vars PROVE PoolInv'
  BY <1>1, PoolTypeStep, PermitStep, LocalStep, LedgerStep, UnstartedStep
     DEF PoolCheckInv, PoolInv
<1>2. CASE PoolControl
  <2>1. /\ ControlNext /\ main # "exited" /\ UNCHANGED checkVars
        /\ UNCHANGED <<pc, result>> /\ Next
    BY <1>2 DEF PoolControl, Control, execVars, Next
  <2>2. PoolInv'
    BY <2>1, PoolTypeStep, PermitStep, LocalStep, LedgerStep, UnstartedStep
       DEF PoolCheckInv, PoolInv
  <2>3. CheckInv'
    BY <1>0, <2>1, ControlKeepsCheck DEF PoolCheckInv
  <2> QED
    BY <2>1, <2>2, <2>3 DEF PoolCheckInv, HandOver, AllDone, checkVars
<1>3. CASE PoolEpilogue
  <2>1. /\ Epilogue /\ UNCHANGED vars
        /\ UNCHANGED <<controlVars, pc, result>>
    BY <1>3 DEF PoolEpilogue, vars, execVars
  <2>2. CheckInv'
    BY <1>0, <2>1, EpilogueKeepsCheck DEF PoolCheckInv
  <2>3. UNCHANGED collected /\ main # "work" /\ main' # "work"
    BY <2>1 DEF Epilogue, ReadDeadline, ReadSignal, ReadToken, Remediation,
       Summarise, Persist, Notification, ReturnCode
  <2> QED
    BY <1>1, <2>1, <2>2, <2>3 DEF PoolCheckInv, HandOver, AllDone
<1>4. CASE UNCHANGED checkPoolVars
  <2>1. UNCHANGED <<vars, controlVars, checkVars, pc, result>>
    BY <1>4 DEF checkPoolVars, vars, execVars
  <2>2. CheckInv'
    BY <2>1, StutterKeepsCheck DEF PoolCheckInv
  <2> QED
    BY <1>1, <2>1, <2>2 DEF PoolCheckInv, HandOver, AllDone, checkVars
<1> QED
  BY <1>2, <1>3, <1>4, PoolWorkKeeps, CollectPoolKeeps
     DEF PoolCheckNext, PoolExited

(* The invariant of `check' over the pool, from the first permit to the    *)
(* exit of the process, with signals and the deadline at any moment.       *)
THEOREM PoolCheckInvariant == PoolCheckSpec => []PoolCheckInv
<1>1. PoolCheckInit => PoolCheckInv
  <2> SUFFICES ASSUME PoolCheckInit PROVE PoolCheckInv
    OBVIOUS
  <2>1. PoolInv
    BY PoolInit DEF PoolCheckInit
  <2>2. CheckInv
    BY CheckInitInv DEF PoolCheckInit, Init
  <2> QED
    BY <2>1, <2>2 DEF PoolCheckInit, CheckInit, PoolCheckInv, HandOver
<1> QED
  BY <1>1, PoolCheckStep, PTL DEF PoolCheckSpec

(* The four verdicts on the command follow from the invariant.             *)
LEMMA PoolCheckVerdicts ==
    PoolCheckInv => /\ ExitZeroMeansNoFailure
                    /\ RealFailureReported
                    /\ SummaryAgreesUnlessSignalled
                    /\ CutShortIsRecorded
BY CheckVerdicts DEF PoolCheckInv, PoolInv, PoolType

(* Exit code 0 of `check' means that no installer failed or timed out, and *)
(* that one was cancelled only because the deadline passed.                *)
THEOREM PoolExitZero == PoolCheckSpec => []ExitZeroMeansNoFailure
BY PoolCheckInvariant, PoolCheckVerdicts, PTL

(* A real failure is in the exit code and in the persisted run, whatever   *)
(* signal or deadline arrives while the results are evaluated.             *)
THEOREM PoolFailureReported == PoolCheckSpec => []RealFailureReported
BY PoolCheckInvariant, PoolCheckVerdicts, PTL

(* Summary and process agree on the exit code, up to a signal in between.  *)
THEOREM PoolSummaryAgrees == PoolCheckSpec => []SummaryAgreesUnlessSignalled
BY PoolCheckInvariant, PoolCheckVerdicts, PTL

(* A run cut short is persisted as interrupted and not remediated.         *)
THEOREM PoolCutShortRecorded == PoolCheckSpec => []CutShortIsRecorded
BY PoolCheckInvariant, PoolCheckVerdicts, PTL

(* cmd_check adds no behaviour to the pool it starts: every theorem about  *)
(* run_all above holds for the pool inside `check', the contract included. *)
THEOREM PoolCheckRunsPool == PoolCheckSpec => Spec
<1>1. PoolCheckInit => Init
  BY DEF PoolCheckInit
<1>2. [PoolCheckNext]_checkPoolVars => [Next]_vars
  <2>1. PoolWork \/ PoolControl => Next
    BY DEF PoolWork, PoolControl, Next
  <2>2. CollectPool \/ PoolEpilogue \/ PoolExited \/ UNCHANGED checkPoolVars
            => UNCHANGED vars
    BY DEF CollectPool, PoolEpilogue, PoolExited, checkPoolVars
  <2> QED
    BY <2>1, <2>2 DEF PoolCheckNext
<1> QED
  BY <1>1, <1>2, PTL DEF PoolCheckSpec, Spec

(* Type correctness of the command and of the pool inside it.              *)
THEOREM PoolCheckTypeCorrect == PoolCheckSpec => []PoolCheckTypeOK
<1>1. PoolCheckInv => CheckTypeOK
  BY DEF PoolCheckInv, CheckInv
<1> QED
  BY <1>1, PoolCheckInvariant, PoolCheckRunsPool, PoolTypeCorrect, PTL
     DEF PoolCheckTypeOK
=============================================================================
