------------------------ MODULE SequentialCheck_proofs ------------------------
(***************************************************************************)
(* What `check' guarantees when cmd_check runs the installers itself, one  *)
(* after the other, for any number of them and any moment of a signal, the *)
(* deadline or an executor error.                                          *)
(*                                                                         *)
(* The inductive invariant adds to the local invariant of each installer   *)
(* and to that of the end of the command (both in module Executor_proofs)  *)
(* where the installers stand: queued ones are in the iterator, done ones  *)
(* are collected, at most one is neither; and why a run stops.             *)
(***************************************************************************)
EXTENDS SequentialCheck, Executor_proofs, FiniteSetTheorems

Between(i) == pc[i] \notin {"queued", "done"}

SeqType ==
    /\ ExecType
    /\ ControlTypeOK
    /\ \A i \in Installers : pc[i] \notin {"admitted", "cleared"}
    /\ queue \in Seq(Installers)
    /\ draining \in BOOLEAN

(* The iterator holds exactly the queued installers, each once.            *)
QueueInv ==
    /\ \A m, n \in 1..Len(queue) : queue[m] = queue[n] => m = n
    /\ \A n \in 1..Len(queue) : pc[queue[n]] = "queued"
    /\ \A i \in Installers : pc[i] = "queued" =>
           \E n \in 1..Len(queue) : queue[n] = i

(* Every other installer is collected, or is the one that runs now.        *)
PlaceInv ==
    /\ \A i \in Installers : i \in collected <=> pc[i] = "done"
    /\ \A i, j \in Installers : Between(i) /\ Between(j) => i = j
    /\ draining => \A i \in Installers : ~ Between(i)
    /\ main \notin {"work", "exited"} => collected = Installers

(* Why an installer is not judged on its own merits.                       *)
CauseInv ==
    /\ draining => runToken \/ (FailFast /\ \E j \in collected : ReallyFailed(j))
    /\ \A i \in Installers :
          /\ pc[i] = "stopping" => runToken
          /\ result[i].status = "cancelled" => runToken
          /\ result[i].status = "skipped" =>
                 /\ pc[i] = "done"
                 /\ FailFast /\ \E j \in collected : ReallyFailed(j)

SeqInv ==
    /\ SeqType
    /\ AllLocal
    /\ QueueInv
    /\ PlaceInv
    /\ CauseInv
    /\ CheckInv

-----------------------------------------------------------------------------
(* Before the loop every installer is in the iterator.                     *)
LEMMA SeqInitInv == SeqInit => SeqInv
<1> SUFFICES ASSUME SeqInit PROVE SeqInv
  OBVIOUS
<1> USE DEF SeqInit
<1>1. SeqType
  <2>1. ExecType
    BY NewResultType DEF ExecType, Labels
  <2>2. ControlTypeOK
    BY DEF ControlInit, ControlTypeOK
  <2> QED
    BY <2>1, <2>2, OrderAssumption DEF SeqType
<1>2. AllLocal
  BY RetryCountAssumption
     DEF AllLocal, LocalInv, RetryBudget, Verdict, History, UnderWay,
         max_attempts
<1>3. QueueInv
  BY OrderAssumption DEF QueueInv
<1>4. PlaceInv /\ CauseInv
  BY DEF PlaceInv, CauseInv, Between, CheckInit, NewResult
<1>5. CheckInv
  BY CheckInitInv
<1> QED
  BY <1>1, <1>2, <1>3, <1>4, <1>5 DEF SeqInv

(* The head of the iterator is a queued installer; the tail holds the      *)
(* others.                                                                 *)
LEMMA HeadFacts ==
    ASSUME SeqType, QueueInv, queue # << >>
    PROVE  /\ Head(queue) \in Installers /\ pc[Head(queue)] = "queued"
           /\ Tail(queue) \in Seq(Installers)
           /\ \A m, n \in 1..Len(Tail(queue)) : Tail(queue)[m] = Tail(queue)[n] => m = n
           /\ \A n \in 1..Len(Tail(queue)) :
                  pc[Tail(queue)[n]] = "queued" /\ Tail(queue)[n] # Head(queue)
           /\ \A i \in Installers : pc[i] = "queued" /\ i # Head(queue) =>
                  \E n \in 1..Len(Tail(queue)) : Tail(queue)[n] = i
<1> DEFINE t == Tail(queue)
<1>1. queue \in Seq(Installers) /\ Len(queue) \in Nat /\ Len(queue) >= 1
  BY DEF SeqType
<1>2. /\ t \in Seq(Installers) /\ Len(t) = Len(queue) - 1
      /\ \A n \in 1..Len(t) : t[n] = queue[n + 1] /\ n + 1 \in 1..Len(queue)
  BY <1>1
<1>3. Head(queue) = queue[1] /\ 1 \in 1..Len(queue)
  BY <1>1
<1> HIDE DEF t
<1>4. Head(queue) \in Installers /\ pc[Head(queue)] = "queued"
  BY <1>1, <1>3 DEF QueueInv
<1>5. ASSUME NEW m \in 1..Len(t), NEW n \in 1..Len(t), t[m] = t[n]
      PROVE  m = n
  <2>1. queue[m + 1] = queue[n + 1] /\ m + 1 \in 1..Len(queue)
        /\ n + 1 \in 1..Len(queue)
    BY <1>2, <1>5
  <2>2. m + 1 = n + 1
    BY <2>1 DEF QueueInv
  <2> QED
    BY <2>2
<1>6. \A n \in 1..Len(t) : pc[t[n]] = "queued" /\ t[n] # Head(queue)
  BY <1>1, <1>2, <1>3 DEF QueueInv
<1>7. ASSUME NEW i \in Installers, pc[i] = "queued", i # Head(queue)
      PROVE  \E n \in 1..Len(t) : t[n] = i
  <2>1. PICK n \in 1..Len(queue) : queue[n] = i
    BY <1>7 DEF QueueInv
  <2>2. n - 1 \in 1..Len(t)
    BY <1>1, <1>2, <1>3, <1>7, <2>1
  <2>3. t[n - 1] = queue[(n - 1) + 1]
    BY <1>2, <2>2
  <2> QED
    BY <1>1, <2>1, <2>2, <2>3
<1> QED
  BY <1>2, <1>4, <1>5, <1>6, <1>7 DEF t

(* Handing out the head of the iterator keeps the account of the queue.    *)
LEMMA PopKeepsQueue ==
    ASSUME SeqType, QueueInv, queue # << >>, queue' = Tail(queue),
           NEW label, label # "queued", pc' = [pc EXCEPT ![Head(queue)] = label]
    PROVE  QueueInv'
<1>1. PICK i \in Installers :
        /\ i = Head(queue) /\ pc[i] = "queued"
        /\ queue' \in Seq(Installers)
        /\ \A m, n \in 1..Len(queue') : queue'[m] = queue'[n] => m = n
        /\ \A n \in 1..Len(queue') : pc[queue'[n]] = "queued" /\ queue'[n] # i
        /\ \A j \in Installers : pc[j] = "queued" /\ j # i =>
               \E n \in 1..Len(queue') : queue'[n] = j
  <2> DEFINE t == Tail(queue)
  <2>1. queue' = t
    OBVIOUS
  <2>2. /\ Head(queue) \in Installers /\ pc[Head(queue)] = "queued"
        /\ t \in Seq(Installers)
        /\ \A m, n \in 1..Len(t) : t[m] = t[n] => m = n
        /\ \A n \in 1..Len(t) : pc[t[n]] = "queued" /\ t[n] # Head(queue)
        /\ \A j \in Installers : pc[j] = "queued" /\ j # Head(queue) =>
               \E n \in 1..Len(t) : t[n] = j
    BY HeadFacts
  <2> HIDE DEF t
  <2> QED
    BY <2>1, <2>2, Zenon
<1>2. pc'[i] = label /\ \A j \in Installers : j # i => pc'[j] = pc[j]
  BY <1>1 DEF SeqType, ExecType
<1>3. \A n \in 1..Len(queue') : queue'[n] \in Installers
  BY <1>1
<1>4. \A n \in 1..Len(queue') : pc'[queue'[n]] = "queued"
  BY <1>1, <1>2, <1>3, Zenon
<1>5. \A j \in Installers : pc'[j] = "queued" =>
          \E n \in 1..Len(queue') : queue'[n] = j
  BY <1>1, <1>2, Zenon
<1> QED
  BY <1>1, <1>4, <1>5, Zenon DEF QueueInv

-----------------------------------------------------------------------------
(* The loop takes the next installer.                                      *)
LEMMA StartNextKeeps ==
    ASSUME SeqInv, StartNext
    PROVE  SeqInv'
<1>0. SeqType /\ QueueInv /\ PlaceInv /\ CauseInv /\ AllLocal /\ CheckInv
  BY DEF SeqInv
<1>1. /\ main = "work" /\ main' = "work" /\ ~ draining /\ queue # << >>
      /\ \A j \in Installers : ~ Between(j)
      /\ queue' = Tail(queue)
      /\ pc' = [pc EXCEPT ![Head(queue)] = "attempt"]
      /\ UNCHANGED <<attempt, result, attempts, containers, draining>>
      /\ UNCHANGED <<runToken, poolToken, seen, handler, deadlineHit, timer>>
      /\ UNCHANGED <<collected, readVars, outVars>>
  BY DEF StartNext, Goto, controlVars, checkVars, Active, Between
<1>2. PICK i \in Installers :
      /\ i = Head(queue) /\ pc[i] = "queued"
      /\ Tail(queue) \in Seq(Installers)
  BY <1>0, <1>1, HeadFacts
<1>3. /\ pc \in [Installers -> Labels]
      /\ pc'[i] = "attempt" /\ \A j \in Installers : j # i => pc'[j] = pc[j]
  BY <1>0, <1>1, <1>2 DEF SeqType, ExecType
<1>4. SeqType'
  <2>1. ExecType'
    BY <1>0, <1>1, <1>2, LabelsType DEF SeqType, ExecType
  <2> QED
    BY <1>0, <1>1, <1>2, <1>3, <2>1 DEF SeqType, ControlTypeOK
<1>5. QueueInv'
  BY <1>0, <1>1, PopKeepsQueue
<1>6. PlaceInv'
  BY <1>0, <1>1, <1>2, <1>3 DEF PlaceInv, Between
<1>7. CauseInv'
  BY <1>0, <1>1, <1>2, <1>3 DEF CauseInv, ReallyFailed
<1>8. AllLocal'
  <2>1. LocalInv(i) /\ ExecType
    BY <1>0, <1>2 DEF AllLocal, SeqType
  <2>2. RetryBudget(i)' /\ History(i)'
    BY <1>1, <1>2, <1>3, <2>1, InsideAttempt
  <2>3. LocalInv(i)'
    BY <1>3, <2>2 DEF LocalInv, Verdict, UnderWay
  <2>4. \A j \in Installers : j # i => LocalInv(j)'
    BY <1>0, <1>1, <1>3, LocalFrame DEF AllLocal
  <2> QED
    BY <2>3, <2>4 DEF AllLocal
<1>9. CheckInv'
  <2>1. Judged' /\ collected' \subseteq Installers
    BY <1>0, <1>1 DEF CheckInv, Judged, CheckTypeOK
  <2> QED
    BY <1>0, <1>1, <2>1, WorkKeepsCheck
<1> QED
  BY <1>4, <1>5, <1>6, <1>7, <1>8, <1>9 DEF SeqInv

(* run_test_with_retry works on the one installer that is due.             *)
LEMMA SeqRunKeeps ==
    ASSUME SeqInv, NEW i \in Installers, SeqRun(i)
    PROVE  SeqInv'
<1>0. /\ SeqType /\ QueueInv /\ PlaceInv /\ CauseInv /\ AllLocal /\ CheckInv
      /\ ExecType /\ LocalInv(i)
  BY DEF SeqInv, SeqType, AllLocal
<1>1. /\ main = "work" /\ main' = "work"
      /\ ExecutorStep(i, runToken)
      /\ UNCHANGED <<queue, draining, collected, readVars, outVars>>
      /\ UNCHANGED <<runToken, poolToken, seen, handler, deadlineHit, timer>>
  BY DEF SeqRun, controlVars, checkVars
<1>2. pc[i] \in ExecutorPc /\ pc'[i] \in ExecutorPc
  BY <1>0, <1>1, ExecutorLabels
<1>3. \A j \in Installers : j # i =>
          /\ pc'[j] = pc[j] /\ attempt'[j] = attempt[j]
          /\ result'[j] = result[j] /\ attempts'[j] = attempts[j]
  BY <1>0, <1>1, ExecutorFrame
<1>4. /\ Between(i) /\ Between(i)' /\ i \notin collected
      /\ pc'[i] \notin {"queued", "done", "admitted", "cleared"}
  BY <1>0, <1>2 DEF Between, PlaceInv, ExecutorPc
<1>5. ExecType'
  BY <1>0, <1>1, ExecutorType
<1>6. SeqType'
  BY <1>0, <1>1, <1>3, <1>4, <1>5 DEF SeqType, ControlTypeOK
<1>7. QueueInv'
  <2>1. \A n \in 1..Len(queue) : queue[n] \in Installers /\ queue[n] # i
    BY <1>0, <1>4 DEF SeqType, QueueInv, Between
  <2> QED
    BY <1>0, <1>1, <1>3, <1>4, <2>1 DEF QueueInv
<1>8. PlaceInv'
  BY <1>0, <1>1, <1>3, <1>4 DEF PlaceInv, Between
<1>9. CauseInv'
  <2>1. /\ pc'[i] = "stopping" => runToken
        /\ result'[i].status \in {"cancelled", "skipped"} => runToken
    BY <1>0, <1>1, <1>4, CancelNeedsToken DEF CauseInv, Between
  <2>2. result'[i].status # "skipped"
    BY <1>0, <1>1, <1>4, NeverSkips DEF CauseInv, Between
  <2>3. \A j \in collected : result'[j] = result[j] /\ j \in Installers
    BY <1>0, <1>3, <1>4 DEF CheckInv, CheckTypeOK
  <2> QED
    BY <1>0, <1>1, <1>3, <2>1, <2>2, <2>3 DEF CauseInv, ReallyFailed
<1>10. AllLocal'
  <2>1. LocalInv(i)'
    BY <1>0, <1>1, ExecutorKeeps
  <2> QED
    BY <1>0, <1>3, <2>1, LocalFrame DEF AllLocal
<1>11. CheckInv'
  <2>1. Judged' /\ collected' \subseteq Installers
    BY <1>0, <1>1, <1>3, <1>4 DEF CheckInv, Judged, CheckTypeOK
  <2> QED
    BY <1>0, <1>1, <2>1, WorkKeepsCheck
<1> QED
  BY <1>6, <1>7, <1>8, <1>9, <1>10, <1>11 DEF SeqInv

(* A verdict is pushed: everything but the loop's own flag follows from    *)
(* the verdict being one, and having its cause.                            *)
LEMMA VerdictKeeps ==
    ASSUME SeqInv, NEW i \in Installers, pc[i] \in {"queued", "returned"},
           NEW r \in Results, pc' = [pc EXCEPT ![i] = "done"],
           result' = [result EXCEPT ![i] = r],
           r.status # "pending",
           r.status \in {"failed", "timed_out", "cancelled"} => r.error # "none",
           r.status = "passed" => r.error = "none",
           r.status = "cancelled" => runToken,
           r.status = "skipped" => FailFast /\ \E j \in collected : ReallyFailed(j),
           collected' = collected \cup {i}, main = "work", main' = "work",
           queue' \in Seq(Installers), draining' \in BOOLEAN,
           \A j \in Installers \ {i} : ~ Between(j),
           draining' => \/ runToken
                        \/ FailFast /\ \E j \in collected' : ReallyFailed(j)',
           UNCHANGED <<runToken, poolToken, seen, handler, deadlineHit, timer>>,
           UNCHANGED <<attempt, attempts, containers, readVars, outVars>>
    PROVE  SeqType' /\ AllLocal' /\ PlaceInv' /\ CauseInv' /\ CheckInv'
<1>0. /\ SeqType /\ PlaceInv /\ CauseInv /\ AllLocal /\ CheckInv /\ ExecType
      /\ collected \subseteq Installers
  BY DEF SeqInv, SeqType, CheckInv, CheckTypeOK
<1>1. /\ pc'[i] = "done" /\ result'[i] = r
      /\ \A j \in Installers : j # i => pc'[j] = pc[j] /\ result'[j] = result[j]
  BY <1>0 DEF ExecType
<1>2. SeqType'
  <2>1. "done" \in Labels
    BY DEF Labels
  <2>2. ExecType'
    BY <1>0, <2>1 DEF ExecType
  <2> QED
    BY <1>0, <1>1, <2>2 DEF SeqType, ControlTypeOK
<1>3. AllLocal'
  <2>1. LocalInv(i)'
    BY <1>0, <1>1, DoneLocal DEF AllLocal
  <2> QED
    BY <1>0, <1>1, <2>1, LocalFrame DEF AllLocal
<1>4. PlaceInv'
  BY <1>0, <1>1 DEF PlaceInv, Between
<1>5. i \notin collected
  BY <1>0 DEF PlaceInv
<1>6. CauseInv'
  <2>1. \A j \in collected : ReallyFailed(j) => ReallyFailed(j)' /\ j \in collected'
    BY <1>0, <1>1, <1>5 DEF ReallyFailed
  <2>2. \A j \in Installers : j # i =>
          /\ pc'[j] = "stopping" => runToken
          /\ result'[j].status = "cancelled" => runToken
          /\ result'[j].status = "skipped" =>
                 pc'[j] = "done" /\ FailFast /\ \E k \in collected' : ReallyFailed(k)'
    BY <1>0, <1>1, <2>1 DEF CauseInv
  <2>3. /\ pc'[i] = "stopping" => runToken
        /\ result'[i].status = "cancelled" => runToken
        /\ result'[i].status = "skipped" =>
               pc'[i] = "done" /\ FailFast /\ \E k \in collected' : ReallyFailed(k)'
    BY <1>1, <2>1
  <2> QED
    BY <2>2, <2>3 DEF CauseInv
<1>7. CheckInv'
  <2>1. r.status \in {"passed", "failed", "timed_out", "cancelled", "skipped"}
    BY DEF Results, Statuses
  <2>2. Judged' /\ collected' \subseteq Installers
    BY <1>0, <1>1, <1>5, <2>1 DEF CheckInv, Judged
  <2> QED
    BY <1>0, <2>2, WorkKeepsCheck
<1> QED
  BY <1>2, <1>3, <1>4, <1>6, <1>7

(* The result of the installer that ran is pushed.                         *)
LEMMA PushResultKeeps ==
    ASSUME SeqInv, NEW i \in Installers, PushResult(i)
    PROVE  SeqInv'
<1>0. /\ SeqType /\ QueueInv /\ PlaceInv /\ CauseInv /\ AllLocal /\ ExecType
      /\ result[i] \in Results /\ LocalInv(i)
  BY DEF SeqInv, SeqType, ExecType, AllLocal
<1>1. /\ main = "work" /\ main' = "work" /\ pc[i] = "returned"
      /\ pc' = [pc EXCEPT ![i] = "done"]
      /\ collected' = collected \cup {i}
      /\ draining' = (runToken \/ (FailFast /\ ~ success(result[i])))
      /\ UNCHANGED <<attempt, result, attempts, containers, queue, readVars, outVars>>
      /\ UNCHANGED <<runToken, poolToken, seen, handler, deadlineHit, timer>>
  BY DEF PushResult, Goto, controlVars
<1>2. result' = [result EXCEPT ![i] = result[i]]
  BY <1>0, <1>1 DEF ExecType
<1>3. /\ result[i].status \in {"passed", "failed", "timed_out", "cancelled"}
      /\ result[i].status \in {"failed", "timed_out", "cancelled"} => result[i].error # "none"
      /\ result[i].status = "passed" => result[i].error = "none"
      /\ result[i].status = "cancelled" => runToken
  BY <1>0, <1>1 DEF LocalInv, Verdict, CauseInv
<1>4. draining' \in BOOLEAN /\ queue' \in Seq(Installers)
  BY <1>0, <1>1 DEF SeqType
<1>5. \A j \in Installers \ {i} : ~ Between(j)
  BY <1>0, <1>1 DEF PlaceInv, Between
<1>6. draining' => \/ runToken
                   \/ FailFast /\ \E j \in collected' : ReallyFailed(j)'
  BY <1>1, <1>3 DEF success, ReallyFailed
<1>7. SeqType' /\ AllLocal' /\ PlaceInv' /\ CauseInv' /\ CheckInv'
  BY <1>0, <1>1, <1>2, <1>3, <1>4, <1>5, <1>6, VerdictKeeps
<1>8. QueueInv'
  <2>1. \A n \in 1..Len(queue) : queue[n] \in Installers /\ queue[n] # i
    BY <1>0, <1>1 DEF SeqType, QueueInv
  <2>2. pc'[i] = "done" /\ \A j \in Installers : j # i => pc'[j] = pc[j]
    BY <1>0, <1>1 DEF ExecType
  <2> QED
    BY <1>0, <1>1, <2>1, <2>2 DEF QueueInv
<1> QED
  BY <1>7, <1>8 DEF SeqInv

(* The second loop: Cancelled or Skipped, depending on the run token.      *)
LEMMA DrainNextKeeps ==
    ASSUME SeqInv, DrainNext
    PROVE  SeqInv'
<1>0. /\ SeqType /\ QueueInv /\ PlaceInv /\ CauseInv
      /\ draining /\ queue # << >>
  BY DEF SeqInv, DrainNext
<1>1. PICK i \in Installers :
          i = Head(queue) /\ pc[i] = "queued" /\ Tail(queue) \in Seq(Installers)
  BY <1>0, HeadFacts
<1> DEFINE r == IF runToken THEN finalize_failure(mark_cancelled(NewResult, {}))
                            ELSE [NewResult EXCEPT !.status = "skipped"]
<1>2. /\ r \in Results /\ r.status \in {"cancelled", "skipped"}
      /\ r.status = "cancelled" => r.error # "none" /\ runToken
      /\ r.status = "skipped" => ~ runToken
  BY StoppedResults
<1>3. /\ main = "work" /\ main' = "work"
      /\ pc' = [pc EXCEPT ![i] = "done"]
      /\ result' = [result EXCEPT ![i] = r]
      /\ collected' = collected \cup {i}
      /\ queue' = Tail(queue)
      /\ UNCHANGED <<attempt, attempts, containers, draining, readVars, outVars>>
      /\ UNCHANGED <<runToken, poolToken, seen, handler, deadlineHit, timer>>
  BY <1>1 DEF DrainNext, Goto, Set, controlVars
<1> HIDE DEF r
<1>4. runToken \/ (FailFast /\ \E j \in collected : ReallyFailed(j))
  BY <1>0 DEF CauseInv
<1>5. draining' => \/ runToken
                   \/ FailFast /\ \E j \in collected' : ReallyFailed(j)'
  <2>1. \A j \in collected : j # i /\ j \in Installers
    BY <1>0, <1>1 DEF PlaceInv, SeqInv, CheckInv, CheckTypeOK
  <2>2. \A j \in collected : ReallyFailed(j) => ReallyFailed(j)' /\ j \in collected'
    BY <1>0, <1>3, <2>1 DEF ReallyFailed, SeqType, ExecType
  <2> QED
    BY <1>4, <2>2
<1>6. \A j \in Installers \ {i} : ~ Between(j)
  BY <1>0 DEF PlaceInv
<1>7. draining' \in BOOLEAN /\ queue' \in Seq(Installers)
  BY <1>0, <1>1, <1>3 DEF SeqType
<1>8. /\ r.status # "pending"
      /\ r.status \in {"failed", "timed_out", "cancelled"} => r.error # "none"
      /\ r.status = "passed" => r.error = "none"
      /\ r.status = "cancelled" => runToken
      /\ r.status = "skipped" => FailFast /\ \E j \in collected : ReallyFailed(j)
  BY <1>2, <1>4
<1>9. SeqType' /\ AllLocal' /\ PlaceInv' /\ CauseInv' /\ CheckInv'
  BY <1>1, <1>2, <1>3, <1>5, <1>6, <1>7, <1>8, VerdictKeeps
<1>10. QueueInv'
  BY <1>0, <1>1, <1>3, PopKeepsQueue
<1> QED
  BY <1>9, <1>10 DEF SeqInv

(* An executor error ends the command; its installer stays uncollected.    *)
LEMMA AbortRunKeeps ==
    ASSUME SeqInv, NEW i \in Installers, AbortRun(i)
    PROVE  SeqInv'
<1>1. /\ main = "work" /\ main' = "exited" /\ exitCode' = 1 /\ pc[i] = "error"
      /\ UNCHANGED <<pc, attempt, result, attempts, containers, queue, draining>>
      /\ UNCHANGED <<runToken, poolToken, seen, handler, deadlineHit, timer>>
      /\ UNCHANGED <<collected, readVars, remediated, summaryCode, saved, notified>>
  BY DEF AbortRun, controlVars, execVars
<1>2. SeqType' /\ QueueInv'
  BY <1>1 DEF SeqInv, SeqType, QueueInv, ExecType, ControlTypeOK
<1>3. AllLocal'
  BY <1>1, LocalFrame DEF SeqInv, AllLocal
<1>4. PlaceInv' /\ CauseInv'
  BY <1>1 DEF SeqInv, PlaceInv, CauseInv, Between, ReallyFailed
<1>5. CheckInv'
  <2>1. collected # Installers
    BY <1>1 DEF SeqInv, PlaceInv
  <2>2. Aborted'
    BY <1>1, <2>1 DEF SeqInv, CheckInv, Aborted
  <2>3. CheckTypeOK'
    BY <1>1 DEF SeqInv, CheckInv, CheckTypeOK, MainPc, ExitStatus, readVars
  <2> QED
    BY <1>1, <2>2, <2>3
       DEF SeqInv, CheckInv, HandlerInv, Judged, ReadsInv, SavedInv, readVars
<1> QED
  BY <1>2, <1>3, <1>4, <1>5 DEF SeqInv

(* The loops are over: everything was collected.                           *)
LEMMA CollectSequentialKeeps ==
    ASSUME SeqInv, CollectSequential
    PROVE  SeqInv'
<1>1. /\ main = "work" /\ main' = "read_deadline" /\ queue = << >>
      /\ \A i \in Installers : ~ Between(i)
      /\ UNCHANGED <<pc, attempt, result, attempts, containers, queue, draining>>
      /\ UNCHANGED <<runToken, poolToken, seen, handler, deadlineHit, timer>>
      /\ UNCHANGED <<collected, readVars, outVars>>
  BY DEF CollectSequential, Active, Between, controlVars, execVars
<1>2. SeqType' /\ QueueInv'
  BY <1>1 DEF SeqInv, SeqType, QueueInv, ExecType, ControlTypeOK
<1>3. AllLocal'
  BY <1>1, LocalFrame DEF SeqInv, AllLocal
<1>4. collected = Installers
  <2>1. \A i \in Installers : pc[i] # "queued"
    BY <1>1 DEF SeqInv, QueueInv
  <2> QED
    BY <1>1, <2>1 DEF SeqInv, PlaceInv, Between, CheckInv, CheckTypeOK
<1>5. PlaceInv' /\ CauseInv'
  BY <1>1, <1>4 DEF SeqInv, PlaceInv, CauseInv, Between, ReallyFailed
<1>6. CheckInv'
  <2>1. (runToken \/ CancelsExplained)'
    BY <1>1, <1>4 DEF SeqInv, CauseInv, CancelsExplained
  <2>2. Judged' /\ collected' \subseteq Installers
    BY <1>1, <1>4 DEF SeqInv, CheckInv, Judged
  <2> QED
    BY <1>1, <2>1, <2>2, CollectKeepsCheck DEF SeqInv
<1> QED
  BY <1>2, <1>3, <1>5, <1>6 DEF SeqInv

(* A signal or the deadline, the end of the command, and the exit.         *)
LEMMA SeqOutsideKeeps ==
    ASSUME SeqInv, SeqControl \/ SeqEpilogue \/ UNCHANGED seqVars
    PROVE  SeqInv'
<1>0. ControlTypeOK /\ CheckInv
  BY DEF SeqInv, SeqType
<1>1. /\ UNCHANGED <<pc, attempt, result, attempts, containers, queue, draining>>
      /\ UNCHANGED collected /\ (runToken => runToken')
  <2>1. CASE SeqControl
    BY <2>1 DEF SeqControl, execVars, checkVars, ControlNext, SignalArrives,
       SignalCancels, DeadlineExpires, DeadlineFlags, DeadlineCancels, CancelRun
  <2>2. CASE SeqEpilogue
    BY <2>2 DEF SeqEpilogue, execVars, controlVars, Epilogue, ReadDeadline,
       ReadSignal, ReadToken, Remediation, Summarise, Persist, Notification,
       ReturnCode
  <2>3. CASE UNCHANGED seqVars
    BY <2>3 DEF seqVars, execVars, controlVars, checkVars
  <2> QED
    BY <2>1, <2>2, <2>3
<1>2. main' = main \/ (main \notin {"work", "exited"} /\ main' # "work")
  BY DEF SeqControl, SeqEpilogue, seqVars, checkVars, Epilogue, ReadDeadline,
     ReadSignal, ReadToken, Remediation, Summarise, Persist, Notification,
     ReturnCode
<1>3. ControlTypeOK' /\ CheckInv'
  <2>1. CASE SeqControl
    BY <1>0, <2>1, ControlType, ControlKeepsCheck DEF SeqControl, execVars
  <2>2. CASE SeqEpilogue
    BY <1>0, <2>2, EpilogueKeepsCheck
       DEF SeqEpilogue, execVars, controlVars, ControlTypeOK
  <2>3. CASE UNCHANGED seqVars
    BY <1>0, <2>3, StutterKeepsCheck
       DEF seqVars, execVars, controlVars, ControlTypeOK
  <2> QED
    BY <2>1, <2>2, <2>3
<1>4. SeqType' /\ QueueInv'
  BY <1>1, <1>3 DEF SeqInv, SeqType, QueueInv, ExecType
<1>5. AllLocal'
  BY <1>1, LocalFrame DEF SeqInv, AllLocal
<1>6. PlaceInv' /\ CauseInv'
  BY <1>1, <1>2 DEF SeqInv, PlaceInv, CauseInv, Between, ReallyFailed
<1> QED
  BY <1>3, <1>4, <1>5, <1>6 DEF SeqInv

-----------------------------------------------------------------------------
(* The invariant of the sequential `check', from the first installer to    *)
(* the exit of the process.                                                *)
THEOREM SeqInvariant == SeqSpec => []SeqInv
<1>1. SeqInv /\ [SeqNext]_seqVars => SeqInv'
  BY StartNextKeeps, SeqRunKeeps, PushResultKeeps, AbortRunKeeps,
     DrainNextKeeps, CollectSequentialKeeps, SeqOutsideKeeps
     DEF SeqNext, SeqWork, SeqExited
<1> QED
  BY <1>1, SeqInitInv, PTL DEF SeqSpec

(* Type correctness of the sequential command; that no installer exceeds   *)
(* its attempts rests on its local invariant.                              *)
THEOREM SeqTypeCorrect == SeqSpec => []SeqTypeOK
<1>1. SeqInv => SeqTypeOK
  <2> SUFFICES ASSUME SeqInv PROVE SeqTypeOK
    OBVIOUS
  <2>1. pc \in [Installers -> ExecutorPc \cup {"queued", "done"}]
    BY DEF SeqInv, SeqType, ExecType, Labels
  <2>2. \A i \in Installers : attempt[i] <= max_attempts(i)
    <3> TAKE i \in Installers
    <3>1. max_attempts(i) \in Nat
      BY RetryCountAssumption DEF max_attempts
    <3> QED
      BY <3>1 DEF SeqInv, AllLocal, LocalInv, RetryBudget
  <2> QED
    BY <2>1, <2>2 DEF SeqInv, SeqType, ExecType, CheckInv, SeqTypeOK
<1> QED
  BY <1>1, SeqInvariant, PTL

(* Skipped only after fail-fast on a real failure, Cancelled only after    *)
(* the run was cancelled, for every order of the installers.               *)
THEOREM SequentialStopsAreCaused == SeqSpec => []SequentialStopHasACause
<1>1. SeqInv => SequentialStopHasACause
  BY DEF SeqInv, CauseInv, CheckInv, CheckTypeOK, ReallyFailed,
     SequentialStopHasACause
<1> QED
  BY <1>1, SeqInvariant, PTL

(* The four verdicts on the command hold for the sequential loop as well.  *)
LEMMA SeqCheckVerdicts ==
    SeqInv => /\ ExitZeroMeansNoFailure
              /\ RealFailureReported
              /\ SummaryAgreesUnlessSignalled
              /\ CutShortIsRecorded
BY CheckVerdicts DEF SeqInv, SeqType

(* Exit code 0 of the sequential `check' hides no failure.                 *)
THEOREM SequentialExitZero == SeqSpec => []ExitZeroMeansNoFailure
BY SeqInvariant, SeqCheckVerdicts, PTL

(* A real failure is in the exit code and in the persisted run, also when  *)
(* an executor error aborts the loop after it.                             *)
THEOREM SequentialFailureReported == SeqSpec => []RealFailureReported
BY SeqInvariant, SeqCheckVerdicts, PTL

(* Summary and process agree on the exit code, up to a signal in between,  *)
(* whenever the loop was not aborted.                                      *)
THEOREM SequentialSummaryAgrees == SeqSpec => []SummaryAgreesUnlessSignalled
BY SeqInvariant, SeqCheckVerdicts, PTL

(* A sequential run cut short is persisted as interrupted and not          *)
(* remediated.                                                             *)
THEOREM SequentialCutShortRecorded == SeqSpec => []CutShortIsRecorded
BY SeqInvariant, SeqCheckVerdicts, PTL

-----------------------------------------------------------------------------
(* A verdict given to an idle installer is a judgement of RunContract.     *)
LEMMA SeqJudges ==
    ASSUME SeqType, NEW i \in Installers, NEW r,
           pc[i] \in {"queued", "returned"}, Goto(i, "done"), Set(i, r),
           r.status \in Contract!Verdicts,
           r.status \in {"cancelled", "skipped"} => runToken \/ draining,
           (runToken' \/ draining') <=>
               ((runToken \/ draining) \/ (FailFast /\ r.status \in {"failed", "timed_out"}))
    PROVE  Contract!ContractNext
<1>1. /\ \A j \in Installers : j # i => pc'[j] = pc[j] /\ result'[j] = result[j]
      /\ pc'[i] = "done" /\ result'[i] = r
  BY DEF SeqType, ExecType, Goto, Set
<1>2. PhaseOf(i)' = r.status /\ PhaseOf(i) = "idle"
  BY <1>1 DEF PhaseOf, UnderWay
<1>3. phaseOfAll' = [phaseOfAll EXCEPT ![i] = r.status] /\ phaseOfAll[i] = "idle"
  BY <1>1, <1>2, PhaseFrame DEF phaseOfAll
<1>4. Contract!Judge(i, r.status)
  BY <1>3 DEF Contract!Judge, phaseOfAll
<1> QED
  BY <1>4 DEF Contract!ContractNext

(* No phase and no reason to stop changed.                                 *)
LEMMA SeqStutters ==
    ASSUME \A i \in Installers : PhaseOf(i)' = PhaseOf(i),
           (runToken \/ draining)' = (runToken \/ draining)
    PROVE  UNCHANGED Contract!contractVars
BY DEF Contract!contractVars

(* A step of the one running installer starts or ends an attempt, or is    *)
(* internal to it.                                                         *)
LEMMA SeqRunImplements ==
    ASSUME SeqInv, NEW i \in Installers, SeqRun(i)
    PROVE  Contract!ContractNext \/ UNCHANGED Contract!contractVars
<1>0. /\ ExecType /\ PlaceInv /\ ExecutorStep(i, runToken)
      /\ UNCHANGED <<runToken, draining>>
  BY DEF SeqRun, SeqInv, SeqType, controlVars
<1>1. \A j \in Installers : j # i => pc'[j] = pc[j] /\ result'[j] = result[j]
  BY <1>0, ExecutorFrame
<1>2. pc[i] \notin {"queued", "done"} /\ pc'[i] \notin {"queued", "done"}
  BY <1>0, ExecutorLabels DEF ExecutorPc
<1>3. /\ phaseOfAll' = [phaseOfAll EXCEPT ![i] = PhaseOf(i)']
      /\ phaseOfAll[i] = PhaseOf(i)
  BY <1>1, PhaseFrame DEF phaseOfAll
<1>4. \A j \in Installers : j # i => PhaseOf(j)' = PhaseOf(j)
  BY <1>1 DEF PhaseOf
<1>5. CASE pc[i] \in UnderWay <=> pc'[i] \in UnderWay
  <2>1. PhaseOf(i)' = PhaseOf(i)
    BY <1>2, <1>5 DEF PhaseOf
  <2> QED
    BY <1>0, <1>4, <2>1, SeqStutters
<1>6. CASE pc[i] \in UnderWay /\ pc'[i] \notin UnderWay
  <2>1. PhaseOf(i) = "running" /\ PhaseOf(i)' = "idle"
    BY <1>2, <1>6 DEF PhaseOf
  <2>2. Contract!EndAttempt(i)
    BY <1>0, <1>3, <2>1 DEF Contract!EndAttempt, phaseOfAll
  <2> QED
    BY <2>2 DEF Contract!ContractNext
<1>7. CASE pc[i] \notin UnderWay /\ pc'[i] \in UnderWay
  <2>1. PhaseOf(i) = "idle" /\ PhaseOf(i)' = "running"
    BY <1>2, <1>7 DEF PhaseOf
  <2>2. ~ runToken /\ ~ draining
    BY <1>0, <1>2, <1>7, AttemptNeedsToken DEF PlaceInv, Between
  <2>3. Contract!Running = {}
    <3>1. ASSUME NEW j \in Installers, PhaseOf(j) = "running" PROVE FALSE
      <4>1. result[j].status # "running"
        BY <1>0 DEF ExecType, Results, Statuses
      <4>2. pc[j] \in UnderWay /\ j # i
        BY <2>1, <3>1, <4>1 DEF PhaseOf
      <4> QED
        BY <1>0, <1>2, <4>2 DEF PlaceInv, Between, UnderWay
    <3> QED
      BY <3>1 DEF Contract!Running
  <2>4. Contract!Cardinality(Contract!Running) < 1
    <3>1. \A S : Contract!Cardinality(S) = Cardinality(S)
      BY Zenon DEF Cardinality, Contract!Cardinality
    <3> QED
      BY <2>3, <3>1, FS_EmptySet
  <2>5. Contract!StartAttempt(i)
    BY <1>0, <1>3, <2>1, <2>2, <2>4 DEF Contract!StartAttempt, phaseOfAll
  <2> QED
    BY <2>5 DEF Contract!ContractNext
<1> QED
  BY <1>5, <1>6, <1>7

(* Every step of the sequential command is a step or a stutter of          *)
(* RunContract.                                                            *)
LEMMA SeqStepImplements ==
    ASSUME SeqInv, [SeqNext]_seqVars
    PROVE  Contract!ContractNext \/ UNCHANGED Contract!contractVars
<1>0. SeqType /\ QueueInv /\ PlaceInv /\ CauseInv /\ AllLocal /\ ExecType
  BY DEF SeqInv, SeqType
<1>1. CASE StartNext
  <2>1. PICK i \in Installers :
            pc[i] = "queued" /\ pc' = [pc EXCEPT ![i] = "attempt"]
    BY <1>0, <1>1, HeadFacts DEF StartNext, Goto
  <2>2. UNCHANGED <<result, runToken, draining>>
    BY <1>1 DEF StartNext, controlVars
  <2>3. \A j \in Installers : PhaseOf(j)' = PhaseOf(j)
    BY <1>0, <2>1, <2>2 DEF PhaseOf, UnderWay, ExecType
  <2> QED
    BY <2>2, <2>3, SeqStutters
<1>2. ASSUME NEW i \in Installers, PushResult(i)
      PROVE  Contract!ContractNext
  <2>1. /\ pc[i] = "returned" /\ Goto(i, "done") /\ Set(i, result[i])
        /\ draining' = (runToken \/ (FailFast /\ ~ success(result[i])))
        /\ runToken' = runToken
    BY <1>0, <1>2 DEF PushResult, Set, controlVars, ExecType
  <2>2. /\ result[i].status \in {"passed", "failed", "timed_out", "cancelled"}
        /\ result[i].status = "cancelled" => runToken
    BY <1>0, <2>1 DEF AllLocal, LocalInv, Verdict, CauseInv
  <2>3. ~ draining
    BY <1>0, <2>1 DEF PlaceInv, Between
  <2>4. (runToken' \/ draining') <=>
            ((runToken \/ draining)
               \/ (FailFast /\ result[i].status \in {"failed", "timed_out"}))
    BY <2>1, <2>2, <2>3 DEF success
  <2>5. /\ result[i].status \in Contract!Verdicts
        /\ result[i].status \in {"cancelled", "skipped"} => runToken \/ draining
        /\ pc[i] \in {"queued", "returned"}
    BY <2>1, <2>2 DEF Contract!Verdicts
  <2> QED
    BY <1>0, <2>1, <2>4, <2>5, SeqJudges
<1>3. CASE DrainNext
  <2> DEFINE r == IF runToken THEN finalize_failure(mark_cancelled(NewResult, {}))
                              ELSE [NewResult EXCEPT !.status = "skipped"]
  <2>1. PICK i \in Installers :
            pc[i] = "queued" /\ Goto(i, "done") /\ Set(i, r)
    BY <1>0, <1>3, HeadFacts DEF DrainNext
  <2>2. r.status \in {"cancelled", "skipped"}
    BY StoppedResults
  <2> HIDE DEF r
  <2>3. draining /\ UNCHANGED <<runToken, draining>>
    BY <1>3 DEF DrainNext, controlVars
  <2>4. (runToken' \/ draining') <=>
            ((runToken \/ draining)
               \/ (FailFast /\ r.status \in {"failed", "timed_out"}))
    BY <2>2, <2>3
  <2>5. /\ r.status \in Contract!Verdicts
        /\ r.status \in {"cancelled", "skipped"} => runToken \/ draining
        /\ pc[i] \in {"queued", "returned"}
    BY <2>1, <2>2, <2>3 DEF Contract!Verdicts
  <2> QED
    BY <1>0, <2>1, <2>4, <2>5, SeqJudges
<1>4. CASE SeqControl
  <2>1. /\ UNCHANGED <<pc, result, draining>>
        /\ runToken' = runToken \/ runToken' = TRUE
    BY <1>4 DEF SeqControl, execVars, ControlNext, SignalArrives,
       SignalCancels, DeadlineExpires, DeadlineFlags, DeadlineCancels, CancelRun
  <2>2. \A j \in Installers : PhaseOf(j)' = PhaseOf(j)
    BY <2>1 DEF PhaseOf
  <2>3. CASE runToken' = runToken
    BY <2>1, <2>2, <2>3, SeqStutters
  <2>4. CASE runToken' = TRUE
    BY <2>1, <2>2, <2>4 DEF Contract!ContractNext, Contract!Stop
  <2> QED
    BY <2>1, <2>3, <2>4
<1>5. CASE \/ \E i \in Installers : AbortRun(i)
           \/ CollectSequential \/ SeqEpilogue \/ UNCHANGED seqVars
  <2>1. UNCHANGED <<pc, result, runToken, draining>>
    BY <1>5 DEF AbortRun, CollectSequential, SeqEpilogue, seqVars, execVars,
       controlVars
  <2>2. \A j \in Installers : PhaseOf(j)' = PhaseOf(j)
    BY <2>1 DEF PhaseOf
  <2> QED
    BY <2>1, <2>2, SeqStutters
<1> QED
  BY <1>1, <1>2, <1>3, <1>4, <1>5, SeqRunImplements
     DEF SeqNext, SeqWork, SeqExited

(* main.rs:1799, "same result shape as the pool": the sequential loop      *)
(* implements RunContract with one installer at a time.                    *)
THEOREM SequentialImplementsContract == SeqSpec => SequentialKeepsContract
<1>1. SeqInit => Contract!ContractInit
  BY DEF SeqInit, ControlInit, Contract!ContractInit, PhaseOf, UnderWay
<1>2. SeqInv /\ [SeqNext]_seqVars => [Contract!ContractNext]_(Contract!contractVars)
  BY SeqStepImplements
<1> QED
  BY SeqInvariant, <1>1, <1>2, PTL
     DEF SeqSpec, SequentialKeepsContract, Contract!ContractSpec
=============================================================================
