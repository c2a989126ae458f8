--------------------------- MODULE Executor_proofs ---------------------------
(***************************************************************************)
(* What run_test_with_retry guarantees for one installer, whoever runs it  *)
(* and whenever its token is cancelled: facts about the classifier, type   *)
(* correctness of every step, and a local invariant of each installer.     *)
(*                                                                         *)
(* Then what the end of cmd_check guarantees, wherever the results come    *)
(* from: the invariant of the reads and decisions after the last result,   *)
(* with a signal or the deadline arriving between any two of them.  The    *)
(* proofs about PoolCheck (module InstallerPool_proofs) and about          *)
(* SequentialCheck rest on both.                                           *)
(***************************************************************************)
EXTENDS CheckRun, WellFoundedInduction, TLAPS

(* First match: the lowest index of a nonempty set of rule numbers.        *)
LEMMA LeastIsFirst ==
    ASSUME NEW S \in SUBSET Nat, S # {}
    PROVE  Least(S) \in S /\ \A j \in S : Least(S) <= j
<1> DEFINE R == {ss \in Nat \X Nat : ss[1] < ss[2]}
<1>1. IsWellFoundedOn(R, Nat)
  BY NatLessThanWellFounded DEF OpToRel
<1>2. PICK x \in S : \A y \in S : ~ (<<y, x>> \in R)
  <2> HIDE DEF R
  <2> QED
    BY <1>1, WFMin
<1>3. ASSUME NEW y \in S PROVE x <= y
  <2>1. x \in Nat /\ y \in Nat /\ <<y, x>> \in Nat \X Nat
    OBVIOUS
  <2>2. y < x => <<y, x>> \in R
    BY <2>1
  <2> QED
    BY <1>2, <2>1, <2>2
<1> QED
  BY <1>2, <1>3 DEF Least

Classes == [category : Categories, retryable : BOOLEAN]

(* The rule table's rows are classes; only the network and the package     *)
(* lock rules are retryable.                                               *)
LEMMA RulesAreClasses ==
    \A k \in DOMAIN Rules : /\ k \in Nat
                            /\ Rules[k].category \in Categories
                            /\ Rules[k].retryable \in BOOLEAN
                            /\ Rules[k].retryable => k \in {6, 7}
<1>1. DOMAIN Rules = 1..16
  BY DEF Rules
<1>2. \A k \in 1..16 : Rules[k].category \in Categories
  BY DEF Rules, Rule, Categories
<1>3. \A k \in 1..16 : Rules[k].retryable \in BOOLEAN
  <2>1. \A k \in 1..16 : Rules[k].retryable = TRUE \/ Rules[k].retryable = FALSE
    BY DEF Rules, Rule
  <2> QED
    BY <2>1, Zenon
<1>4. \A k \in 1..16 : Rules[k].retryable => k \in {6, 7}
  BY DEF Rules, Rule
<1>5. \A k \in 1..16 : k \in Nat
  OBVIOUS
<1> QED
  BY <1>1, <1>2, <1>3, <1>4, <1>5, Zenon

(* classify_error returns a class, and a retryable one only for a text     *)
(* with a transient group and without any definitive one.                  *)
LEMMA ClassifyFacts ==
    ASSUME NEW text, NEW code \in ExitCodes
    PROVE  /\ classify_error(text, code) \in Classes
           /\ classify_error(text, code).retryable =>
                  text \cap Definitive = {} /\ text \cap TransientGroups # {}
<1> DEFINE H == Hits(Rules, text, code)
<1>1. CASE H = {}
  BY <1>1 DEF classify_error, FirstMatch, Unknown, Classes, Categories
<1>2. CASE H # {}
  <2>1. H \in SUBSET Nat /\ H \subseteq DOMAIN Rules
    BY RulesAreClasses DEF Hits
  <2>2. Least(H) \in H /\ \A j \in H : Least(H) <= j
    BY <1>2, <2>1, LeastIsFirst
  <2>3. classify_error(text, code) =
            [category |-> Rules[Least(H)].category,
             retryable |-> Rules[Least(H)].retryable]
    BY <1>2 DEF classify_error, FirstMatch
  <2>4. classify_error(text, code) \in Classes
    BY <2>1, <2>2, <2>3, RulesAreClasses DEF Classes
  <2>5. ASSUME Rules[Least(H)].retryable, NEW g \in text \cap Definitive
        PROVE  FALSE
    <3>1. Least(H) \in {6, 7}
      BY <2>1, <2>2, <2>5, RulesAreClasses
    <3>2. \A k \in 1..5 : k \notin H
      BY <2>1, <2>2, <3>1
    <3>3. \E k \in 1..5 : k \in DOMAIN Rules /\ Rules[k].group = g
      BY <2>5 DEF Definitive, Rules, Rule
    <3> QED
      BY <2>5, <3>2, <3>3 DEF Hits, Fires
  <2>6. ASSUME Rules[Least(H)].retryable
        PROVE  text \cap TransientGroups # {}
    <3>1. Least(H) \in {6, 7} /\ Least(H) \in DOMAIN Rules
      BY <2>1, <2>2, <2>6, RulesAreClasses
    <3>2. /\ \A k \in {6, 7} : Rules[k].group \in TransientGroups
          /\ Rules[6].code = AnyCode /\ Rules[7].code = AnyCode
      BY DEF Rules, Rule, TransientGroups
    <3>3. Fires(Rules[Least(H)], text, code)
      BY <2>2 DEF Hits
    <3> QED
      BY <3>1, <3>2, <3>3 DEF Fires, AnyCode, ExitCodes
  <2> QED
    BY <2>3, <2>4, <2>5, <2>6
<1> QED
  BY <1>1, <1>2
-----------------------------------------------------------------------------
(* finalize_failure only touches error and retryable; afterwards whatever  *)
(* did not pass has an error, retryable only with a transient group and    *)
(* without a definitive one.                                               *)
LEMMA FinalizeFacts ==
    ASSUME NEW r \in Results
    PROVE  /\ finalize_failure(r) \in Results
           /\ finalize_failure(r).status = r.status
           /\ finalize_failure(r).text = r.text
           /\ finalize_failure(r).checksum = r.checksum
           /\ ~ success(r) => finalize_failure(r).error # "none"
           /\ success(r) => finalize_failure(r) = r
           /\ (r.error = "none" /\ finalize_failure(r).retryable) =>
                  \/ r.retryable
                  \/ r.text \cap Definitive = {} /\ r.text \cap TransientGroups # {}
<1> DEFINE c == classify_error(r.text, 1)
<1>1. c \in Classes /\ (c.retryable => /\ r.text \cap Definitive = {}
                                         /\ r.text \cap TransientGroups # {})
  BY ClassifyFacts DEF ExitCodes
<1>2. CASE success(r) \/ r.error # "none"
  <2>1. finalize_failure(r) = r
    BY <1>2 DEF finalize_failure
  <2> QED
    BY <1>2, <2>1
<1>3. CASE ~ success(r) /\ r.error = "none"
  <2> HIDE DEF c
  <2>1. finalize_failure(r) = [r EXCEPT !.error = c.category,
                                        !.retryable = c.retryable]
    BY <1>3 DEF finalize_failure, c
  <2>2. c.category \in Categories /\ c.retryable \in BOOLEAN
    BY <1>1 DEF Classes
  <2>3. c.category # "none"
    BY <2>2 DEF Categories
  <2>4. finalize_failure(r) \in Results
    BY <2>1, <2>2 DEF Results
  <2> QED
    BY <1>1, <1>3, <2>1, <2>2, <2>3, <2>4 DEF Results
<1> QED
  BY <1>2, <1>3

(* mark_cancelled sets status and text and keeps error and retryable.      *)
LEMMA MarkCancelledType ==
    ASSUME NEW r \in Results, NEW reason \in SUBSET Markers
    PROVE  /\ mark_cancelled(r, reason) \in Results
           /\ mark_cancelled(r, reason).status = "cancelled"
           /\ mark_cancelled(r, reason).text = {"cancelled_marker"} \cup reason
           /\ mark_cancelled(r, reason).error = r.error
           /\ mark_cancelled(r, reason).retryable = r.retryable
BY DEF mark_cancelled, Results, Statuses, Markers, Groups

(* The result of a failed attempt is a result.                             *)
LEMMA FailedType ==
    ASSUME NEW r \in Results, NEW text \in SUBSET Markers,
           NEW sum \in ChecksumStates
    PROVE  /\ Failed(r, text) \in Results
           /\ [Failed(r, text) EXCEPT !.checksum = sum] \in Results
BY DEF Failed, Results, Statuses

(* TestResult::new is a result.                                            *)
LEMMA NewResultType == NewResult \in Results
BY DEF NewResult, Results, Statuses, ChecksumStates, Categories
-----------------------------------------------------------------------------
(* Every label a worker can be at, those of its caller included.           *)
Labels == ExecutorPc \cup {"queued", "admitted", "cleared", "done"}

ExecType ==
    /\ pc \in [Installers -> Labels]
    /\ attempt \in [Installers -> Nat]
    /\ result \in [Installers -> Results]
    /\ attempts \in [Installers -> Seq(AttemptRecords)]
    /\ containers \subseteq Installers \X Nat

(* What an external command prints is a text.                              *)
LEMMA OutputsType == \A out \in Outputs : out \in SUBSET Markers
BY DEF Outputs, Markers, Groups

(* The checksum states an attempt can reach are checksum states.           *)
LEMMA SumStates ==
    ASSUME NEW i
    PROVE  /\ VerifiedState(i) \in ChecksumStates
           /\ UnknownState(i) \in ChecksumStates
           /\ "mismatch" \in ChecksumStates
BY DEF VerifiedState, UnknownState, ChecksumStates

(* A step that moves one worker and sets its result keeps the types.       *)
LEMMA MoveType ==
    ASSUME ExecType, NEW i \in Installers, NEW label \in Labels,
           NEW r \in Results, Goto(i, label), Set(i, r),
           UNCHANGED <<attempt, attempts, containers>>
    PROVE  ExecType'
BY DEF ExecType, Goto, Set

(* A step that moves one worker and leaves its result keeps the types.     *)
LEMMA GotoType ==
    ASSUME ExecType, NEW i \in Installers, NEW label \in Labels,
           Goto(i, label), UNCHANGED <<attempt, result, attempts>>,
           containers' \subseteq Installers \X Nat
    PROVE  ExecType'
BY DEF ExecType, Goto

(* The executor's labels are labels.                                       *)
LEMMA LabelsType ==
    /\ {"attempt", "prepare", "exec", "stopping", "checks", "checking",
        "cleanup", "decide", "backoff", "returned", "error"} \subseteq Labels
    /\ AfterExec \in Labels
BY DEF Labels, ExecutorPc, AfterExec

(* Creating the container, or downloading locally, keeps the types.        *)
LEMMA PrepareType ==
    ASSUME ExecType, NEW i \in Installers, PrepareStep(i)
    PROVE  ExecType'
<1> USE LabelsType
<1>0. result[i] \in Results /\ <<i, attempt[i]>> \in Installers \X Nat
  BY DEF ExecType
<1>1. CASE PrepareErrors(i)
  BY <1>1, GotoType DEF PrepareErrors, ExecType
<1>2. CASE ContainerStarts(i)
  BY <1>0, <1>2, GotoType DEF ContainerStarts, ExecType
<1>3. CASE ContainerStartFails(i)
  BY <1>0, <1>3, GotoType DEF ContainerStartFails, ExecType
<1>4. CASE LocalDownloadFails(i)
  BY <1>0, <1>4, OutputsType, SumStates, FailedType, MoveType
     DEF LocalDownloadFails
<1>5. CASE LocalMismatch(i)
  <2>1. {"checksum"} \in SUBSET Markers
    BY DEF Markers, Groups
  <2> QED
    BY <1>0, <1>5, <2>1, SumStates, FailedType, MoveType DEF LocalMismatch
<1>6. CASE LocalSpawns(i)
  <2>1. [result[i] EXCEPT !.checksum = VerifiedState(i)] \in Results
    BY <1>0, SumStates DEF Results
  <2> QED
    BY <1>6, <2>1, MoveType DEF LocalSpawns
<1> QED
  BY <1>1, <1>2, <1>3, <1>4, <1>5, <1>6 DEF PrepareStep

(* Running, cancelling and timing out the installer keep the types.        *)
LEMMA ExecStepType ==
    ASSUME ExecType, NEW i \in Installers, NEW tok, ExecStep(i, tok)
    PROVE  ExecType'
<1> USE LabelsType
<1>0. result[i] \in Results
  BY DEF ExecType
<1>1. CASE InstallerSucceeds(i)
  <2>1. PICK out \in Outputs :
            Set(i, [result[i] EXCEPT !.status = "passed",
                                     !.checksum = VerifiedState(i),
                                     !.text = out])
    BY <1>1 DEF InstallerSucceeds
  <2>2. [result[i] EXCEPT !.status = "passed", !.checksum = VerifiedState(i),
                          !.text = out] \in Results
    BY <1>0, OutputsType, SumStates DEF Results, Statuses
  <2> QED
    BY <1>1, <2>1, <2>2, MoveType DEF InstallerSucceeds
<1>2. CASE InstallerFails(i)
  BY <1>0, <1>2, OutputsType, SumStates, FailedType, MoveType
     DEF InstallerFails
<1>3. CASE ScriptDownloadFails(i)
  BY <1>0, <1>3, OutputsType, SumStates, FailedType, MoveType
     DEF ScriptDownloadFails
<1>4. CASE ScriptMismatch(i)
  <2>1. {"checksum"} \in SUBSET Markers
    BY DEF Markers, Groups
  <2> QED
    BY <1>0, <1>4, <2>1, SumStates, FailedType, MoveType DEF ScriptMismatch
<1>5. CASE ExecErrors(i, tok)
  <2>1. PICK out \in Outputs :
            Set(i, IF tok /\ Backend = "docker"
                   THEN mark_cancelled(result[i], out)
                   ELSE Failed(result[i], out))
    BY <1>5 DEF ExecErrors
  <2>2. /\ mark_cancelled(result[i], out) \in Results
        /\ Failed(result[i], out) \in Results
    BY <1>0, OutputsType, SumStates, FailedType, MarkCancelledType
  <2> QED
    BY <1>5, <2>1, <2>2, MoveType DEF ExecErrors
<1>6. CASE CancelObserved(i, tok)
  <2>1. mark_cancelled(result[i], {"interrupted"}) \in Results
    BY <1>0, MarkCancelledType DEF Markers
  <2>2. CASE Backend = "docker"
    BY <1>6, <2>2, GotoType DEF CancelObserved, ExecType
  <2>3. CASE Backend # "docker"
    BY <1>6, <2>1, <2>3, MoveType DEF CancelObserved
  <2> QED
    BY <2>2, <2>3
<1>7. CASE ContainerStopped(i)
  <2>1. mark_cancelled(result[i], {"interrupted"}) \in Results
    BY <1>0, MarkCancelledType DEF Markers
  <2> QED
    BY <1>7, <2>1, MoveType DEF ContainerStopped
<1>8. CASE InstallerTimesOut(i)
  <2>1. [result[i] EXCEPT !.status = "timed_out", !.text = {"timeout"}]
            \in Results
    BY <1>0 DEF Results, Statuses, Markers, Groups
  <2> QED
    BY <1>8, <2>1, MoveType DEF InstallerTimesOut
<1> QED
  BY <1>1, <1>2, <1>3, <1>4, <1>5, <1>6, <1>7, <1>8 DEF ExecStep
(* The post-install checks keep the types.                                 *)
LEMMA CheckStepType ==
    ASSUME ExecType, NEW i \in Installers, NEW tok, CheckStep(i, tok)
    PROVE  ExecType'
<1> USE LabelsType
<1>0. result[i] \in Results
  BY DEF ExecType
<1>1. ASSUME NEW why \in SUBSET Markers, ChecksFailed(i, why),
             UNCHANGED <<attempt, attempts, containers>>
      PROVE  ExecType'
  <2>1. result[i].text \cup {"post_install_marker"} \cup why \in SUBSET Markers
    BY <1>0, <1>1 DEF Results, Markers, Groups
  <2>2. Failed(result[i], result[i].text \cup {"post_install_marker"} \cup why)
            \in Results
    BY <1>0, <2>1, SumStates, FailedType
  <2> QED
    BY <1>1, <2>2, MoveType DEF ChecksFailed
<1>2. {"interrupted"} \in SUBSET Markers
  BY DEF Markers
<1>3. CASE BeginChecks(i, tok)
  <2>1. CASE tok /\ Backend = "docker"
    BY <1>1, <1>2, <1>3, <2>1 DEF BeginChecks
  <2>2. CASE ~ (tok /\ Backend = "docker")
    BY <1>3, <2>2, GotoType DEF BeginChecks, ExecType
  <2> QED
    BY <2>1, <2>2
<1>4. CASE ChecksPass(i)
  BY <1>4, GotoType DEF ChecksPass, ExecType
<1>5. CASE ChecksFail(i)
  BY <1>1, <1>5, OutputsType DEF ChecksFail
<1>6. CASE ChecksInterrupted(i, tok)
  BY <1>1, <1>2, <1>6 DEF ChecksInterrupted
<1> QED
  BY <1>3, <1>4, <1>5, <1>6 DEF CheckStep

(* The retry loop's own steps keep the types.                              *)
LEMMA RetryStepType ==
    ASSUME ExecType, NEW i \in Installers, NEW tok, RetryStep(i, tok)
    PROVE  ExecType'
<1> USE LabelsType
<1>0. result[i] \in Results
  BY DEF ExecType
<1>1. CASE Decide(i, tok)
  <2> DEFINE r == finalize_failure(result[i])
  <2>1. r \in Results
    BY <1>0, FinalizeFacts
  <2>2. [status |-> r.status, text |-> r.text] \in AttemptRecords
    BY <2>1 DEF Results, AttemptRecords
  <2> HIDE DEF r
  <2>3. /\ pc' \in [Installers -> Labels]
        /\ result' = [result EXCEPT ![i] = r]
        /\ attempts' = [attempts EXCEPT ![i] =
                            Append(@, [status |-> r.status, text |-> r.text])]
        /\ UNCHANGED <<attempt, containers>>
    BY <1>1 DEF Decide, Set, Goto, r, ExecType
  <2>4. attempts' \in [Installers -> Seq(AttemptRecords)]
    BY <2>2, <2>3 DEF ExecType
  <2> QED
    BY <2>1, <2>3, <2>4 DEF ExecType
<1>2. CASE BackoffElapses(i)
  BY <1>2 DEF BackoffElapses, Goto, ExecType
<1>3. CASE BackoffCancelled(i, tok)
  <2>1. finalize_failure(mark_cancelled(result[i], {})) \in Results
    BY <1>0, FinalizeFacts, MarkCancelledType
  <2> QED
    BY <1>3, <2>1, MoveType DEF BackoffCancelled
<1> QED
  BY <1>1, <1>2, <1>3 DEF RetryStep

(* Every step of run_test_with_retry keeps the types.                      *)
LEMMA ExecutorType ==
    ASSUME ExecType, NEW i \in Installers, NEW tok, ExecutorStep(i, tok)
    PROVE  ExecType'
<1>1. CASE BeginAttempt(i, tok)
  <2>1. mark_cancelled(NewResult, {}) \in Results
    BY NewResultType, MarkCancelledType
  <2> QED
    BY <1>1, <2>1, NewResultType, LabelsType, MoveType DEF BeginAttempt
<1>2. CASE Cleanup(i)
  BY <1>2, LabelsType, GotoType DEF Cleanup, ExecType
<1> QED
  BY <1>1, <1>2, PrepareType, ExecStepType, CheckStepType, RetryStepType
     DEF ExecutorStep

-----------------------------------------------------------------------------
(* The loop's arithmetic: how many records there are at each label.        *)
RetryBudget(i) ==
    /\ attempt[i] \in 1..max_attempts(i)
    /\ Len(attempts[i]) \in {0, attempt[i] - 1, attempt[i]}
    /\ pc[i] = "backoff" =>
          Len(attempts[i]) = attempt[i] /\ attempt[i] < max_attempts(i)
    /\ pc[i] \notin {"backoff", "returned", "done"} =>
          Len(attempts[i]) = attempt[i] - 1

(* The result at each label.  An abandoned exec's wording only stands next *)
(* to one of the markers, which is why no abandoned attempt is retried.    *)
Verdict(i) ==
    LET r == result[i]
    IN /\ pc[i] \in UnderWay \cup {"decide"} => r.error = "none" /\ ~ r.retryable
       /\ pc[i] \in {"prepare", "exec", "stopping"} =>
             r.status = "pending" /\ r.text = {}
       /\ pc[i] \in {"checks", "checking"} =>
             r.status = "passed" /\ "interrupted" \notin r.text
       /\ pc[i] \in {"cleanup", "decide", "backoff", "returned"} =>
             r.status \in {"passed", "failed", "timed_out", "cancelled"}
       /\ (pc[i] \in {"cleanup", "decide"} /\ "interrupted" \in r.text) =>
             "cancelled_marker" \in r.text \/ "post_install_marker" \in r.text
       /\ pc[i] \in {"backoff", "returned", "done"} =>
             /\ r.status # "pending"
             /\ r.status \in {"failed", "timed_out", "cancelled"} => r.error # "none"
             /\ r.status = "passed" => r.error = "none"

Transient(record) ==
    /\ record.status = "failed"
    /\ record.text \cap TransientGroups # {}
    /\ record.text \cap {"checksum", "post_install_marker", "timeout",
                         "cancelled_marker", "interrupted"} = {}

(* Every attempt that was followed by another one failed transiently.      *)
History(i) ==
    \A n \in 1..Len(attempts[i]) :
        n < attempt[i] \/ pc[i] = "backoff" => Transient(attempts[i][n])

LocalInv(i) == RetryBudget(i) /\ Verdict(i) /\ History(i)
-----------------------------------------------------------------------------
(* A step inside an attempt leaves the loop's bookkeeping alone.           *)
LEMMA InsideAttempt ==
    ASSUME ExecType, NEW i \in Installers, LocalInv(i),
           pc[i] \notin {"backoff", "returned", "done"},
           pc'[i] \notin {"backoff", "returned", "done"},
           UNCHANGED <<attempt, attempts>>
    PROVE  RetryBudget(i)' /\ History(i)'
BY DEF ExecType, LocalInv, RetryBudget, History, max_attempts

(* Starting an attempt keeps the local invariant.                          *)
LEMMA PrepareKeeps ==
    ASSUME ExecType, NEW i \in Installers, LocalInv(i), PrepareStep(i)
    PROVE  LocalInv(i)'
<1>0. pc[i] = "prepare"
  BY DEF PrepareStep, PrepareErrors, ContainerStarts, ContainerStartFails,
     LocalDownloadFails, LocalMismatch, LocalSpawns
<1>1. RetryBudget(i)' /\ History(i)'
  BY <1>0, InsideAttempt DEF PrepareStep, PrepareErrors, ContainerStarts,
     ContainerStartFails, LocalDownloadFails, LocalMismatch, LocalSpawns, Goto,
     ExecType
<1>2. result[i] \in Results /\ Verdict(i)
  BY DEF LocalInv, ExecType
<1> USE DEF Verdict, UnderWay, ExecType, Goto, Set
<1>3. CASE PrepareErrors(i)
  BY <1>1, <1>2, <1>3 DEF PrepareErrors, LocalInv
<1>4. CASE ContainerStarts(i)
  BY <1>0, <1>1, <1>2, <1>4 DEF ContainerStarts, LocalInv
<1>5. CASE ContainerStartFails(i)
  BY <1>0, <1>1, <1>2, <1>5 DEF ContainerStartFails, LocalInv
<1>6. CASE LocalDownloadFails(i)
  BY <1>0, <1>1, <1>2, <1>6
     DEF LocalDownloadFails, LocalInv, Failed, Outputs, Results
<1>7. CASE LocalMismatch(i)
  BY <1>0, <1>1, <1>2, <1>7 DEF LocalMismatch, LocalInv, Failed, Results
<1>8. CASE LocalSpawns(i)
  BY <1>0, <1>1, <1>2, <1>8 DEF LocalSpawns, LocalInv, Results
<1> QED
  BY <1>3, <1>4, <1>5, <1>6, <1>7, <1>8 DEF PrepareStep

(* Every way an exec can end keeps the local invariant.                    *)
LEMMA ExecStepKeeps ==
    ASSUME ExecType, NEW i \in Installers, LocalInv(i), NEW tok, ExecStep(i, tok)
    PROVE  LocalInv(i)'
<1>0. /\ pc[i] \in {"exec", "stopping"}
      /\ UNCHANGED <<attempt, attempts>>
  BY DEF ExecStep, InstallerSucceeds, InstallerFails, ScriptDownloadFails,
     ScriptMismatch, ExecErrors, CancelObserved, ContainerStopped,
     InstallerTimesOut
<1>1. pc'[i] \notin {"backoff", "returned", "done"}
  BY DEF ExecStep, InstallerSucceeds, InstallerFails, ScriptDownloadFails,
     ScriptMismatch, ExecErrors, CancelObserved, ContainerStopped,
     InstallerTimesOut, AfterExec, Goto, ExecType
<1>2. RetryBudget(i)' /\ History(i)'
  BY <1>0, <1>1, InsideAttempt
<1>3. result[i] \in Results /\ Verdict(i)
  BY DEF LocalInv, ExecType
<1> USE DEF Verdict, UnderWay, ExecType, Goto, Set, AfterExec
<1>4. CASE InstallerSucceeds(i)
  BY <1>0, <1>2, <1>3, <1>4
     DEF InstallerSucceeds, LocalInv, Outputs, Results
<1>5. CASE InstallerFails(i)
  BY <1>0, <1>2, <1>3, <1>5
     DEF InstallerFails, LocalInv, Failed, Outputs, Results
<1>6. CASE ScriptDownloadFails(i)
  BY <1>0, <1>2, <1>3, <1>6
     DEF ScriptDownloadFails, LocalInv, Failed, Outputs, Results
<1>7. CASE ScriptMismatch(i)
  BY <1>0, <1>2, <1>3, <1>7 DEF ScriptMismatch, LocalInv, Failed, Results
<1>8. CASE ExecErrors(i, tok)
  BY <1>0, <1>2, <1>3, <1>8
     DEF ExecErrors, LocalInv, Failed, mark_cancelled, Outputs, Results
<1>9. CASE CancelObserved(i, tok)
  <2>1. CASE Backend = "docker"
    BY <1>0, <1>2, <1>3, <1>9, <2>1 DEF CancelObserved, LocalInv
  <2>2. CASE Backend # "docker"
    <3>1. /\ pc'[i] = "decide"
          /\ result'[i] = mark_cancelled(result[i], {"interrupted"})
      BY <1>9, <2>2 DEF CancelObserved
    <3>2. {"interrupted"} \in SUBSET Markers
      BY DEF Markers
    <3>3. /\ result'[i].status = "cancelled"
          /\ result'[i].error = result[i].error
          /\ result'[i].retryable = result[i].retryable
          /\ "cancelled_marker" \in result'[i].text
      BY <1>3, <3>1, <3>2, MarkCancelledType
    <3>4. Verdict(i)'
      BY <1>0, <1>3, <3>1, <3>3
    <3> QED
      BY <1>2, <3>4 DEF LocalInv
  <2> QED
    BY <2>1, <2>2
<1>10. CASE ContainerStopped(i)
  BY <1>0, <1>2, <1>3, <1>10
     DEF ContainerStopped, LocalInv, mark_cancelled, Results
<1>11. CASE InstallerTimesOut(i)
  BY <1>0, <1>2, <1>3, <1>11 DEF InstallerTimesOut, LocalInv, Results
<1> QED
  BY <1>4, <1>5, <1>6, <1>7, <1>8, <1>9, <1>10, <1>11 DEF ExecStep

(* Every outcome of the post-install checks keeps the local invariant.     *)
LEMMA CheckStepKeeps ==
    ASSUME ExecType, NEW i \in Installers, LocalInv(i), NEW tok, CheckStep(i, tok)
    PROVE  LocalInv(i)'
<1>0. /\ pc[i] \in {"checks", "checking"}
      /\ UNCHANGED <<attempt, attempts>>
  BY DEF CheckStep, BeginChecks, ChecksPass, ChecksFail, ChecksInterrupted
<1>1. pc'[i] \notin {"backoff", "returned", "done"}
  BY DEF CheckStep, BeginChecks, ChecksPass, ChecksFail, ChecksInterrupted,
     ChecksFailed, AfterExec, Goto, ExecType
<1>2. RetryBudget(i)' /\ History(i)'
  BY <1>0, <1>1, InsideAttempt
<1>3. result[i] \in Results /\ Verdict(i)
  BY DEF LocalInv, ExecType
<1> USE DEF Verdict, UnderWay, ExecType, Goto, Set, AfterExec
<1>4. ASSUME NEW why, ChecksFailed(i, why)
      PROVE  LocalInv(i)'
  BY <1>0, <1>2, <1>3, <1>4 DEF ChecksFailed, LocalInv, Failed, Results
<1>5. CASE BeginChecks(i, tok)
  BY <1>0, <1>2, <1>3, <1>4, <1>5 DEF BeginChecks, LocalInv
<1>6. CASE ChecksPass(i)
  BY <1>0, <1>2, <1>3, <1>6 DEF ChecksPass, LocalInv
<1>7. CASE ChecksFail(i)
  BY <1>4, <1>7 DEF ChecksFail
<1>8. CASE ChecksInterrupted(i, tok)
  BY <1>4, <1>8 DEF ChecksInterrupted
<1> QED
  BY <1>5, <1>6, <1>7, <1>8 DEF CheckStep
(* Classifying the attempt, recording it and deciding on another one: the  *)
(* only step that can lead to a retry.                                     *)
LEMMA DecideKeeps ==
    ASSUME ExecType, NEW i \in Installers, LocalInv(i), NEW tok, Decide(i, tok)
    PROVE  LocalInv(i)'
<1> DEFINE r == finalize_failure(result[i])
           again == /\ attempt[i] < max_attempts(i)
                    /\ ~ tok
                    /\ should_retry_result(r)
           record == [status |-> r.status, text |-> r.text]
<1>1. /\ pc[i] = "decide"
      /\ result'[i] = r
      /\ attempts'[i] = Append(attempts[i], record)
      /\ pc'[i] = IF again THEN "backoff" ELSE "returned"
      /\ attempt'[i] = attempt[i]
  BY DEF Decide, Set, Goto, ExecType
<1>2. /\ result[i] \in Results
      /\ attempts[i] \in Seq(AttemptRecords)
      /\ attempt[i] \in Nat
      /\ RetryBudget(i) /\ Verdict(i) /\ History(i)
  BY DEF ExecType, LocalInv
<1>3. /\ r \in Results
      /\ r.status = result[i].status /\ r.text = result[i].text
      /\ ~ success(result[i]) => r.error # "none"
      /\ success(result[i]) => r = result[i]
      /\ (result[i].error = "none" /\ r.retryable) =>
             \/ result[i].retryable
             \/ /\ result[i].text \cap Definitive = {}
                /\ result[i].text \cap TransientGroups # {}
  BY <1>2, FinalizeFacts
<1>4. /\ result[i].error = "none" /\ ~ result[i].retryable
      /\ r.status \in {"passed", "failed", "timed_out", "cancelled"}
      /\ "interrupted" \in r.text => "cancelled_marker" \in r.text
                                     \/ "post_install_marker" \in r.text
  BY <1>1, <1>2, <1>3 DEF Verdict, UnderWay
<1> HIDE DEF r
<1>5. again => Transient(record)
  <2>1. ASSUME again
        PROVE  /\ r.status = "failed" /\ r.text \cap Definitive = {}
               /\ r.text \cap TransientGroups # {}
    BY <1>3, <1>4, <2>1 DEF should_retry_result, success
  <2>2. ASSUME again
        PROVE  "interrupted" \notin r.text
    BY <1>4, <2>1, <2>2 DEF Definitive
  <2> QED
    BY <2>1, <2>2 DEF Transient, Definitive
<1>6. /\ record \in AttemptRecords
      /\ Len(attempts'[i]) = Len(attempts[i]) + 1
      /\ attempts'[i][Len(attempts[i]) + 1] = record
      /\ \A n \in 1..Len(attempts[i]) : attempts'[i][n] = attempts[i][n]
  BY <1>1, <1>2, <1>3 DEF Results, AttemptRecords
<1> HIDE DEF record, again
<1>7. Len(attempts[i]) = attempt[i] - 1
  BY <1>1, <1>2 DEF RetryBudget
<1>8. RetryBudget(i)'
  BY <1>1, <1>2, <1>6, <1>7 DEF RetryBudget, again, max_attempts
<1>9. Verdict(i)'
  BY <1>1, <1>3, <1>4 DEF Verdict, UnderWay, success, again
<1>10. History(i)'
  BY <1>1, <1>2, <1>5, <1>6, <1>7 DEF History
<1> QED
  BY <1>8, <1>9, <1>10 DEF LocalInv

(* The retry loop, its cancelled backoff included, keeps the local         *)
(* invariant.                                                              *)
LEMMA RetryStepKeeps ==
    ASSUME ExecType, NEW i \in Installers, LocalInv(i), NEW tok, RetryStep(i, tok)
    PROVE  LocalInv(i)'
<1>0. /\ result[i] \in Results /\ attempt[i] \in Nat
      /\ attempts[i] \in Seq(AttemptRecords)
      /\ RetryBudget(i) /\ Verdict(i) /\ History(i)
  BY DEF ExecType, LocalInv
<1>1. CASE BackoffElapses(i)
  <2>1. /\ pc[i] = "backoff" /\ pc'[i] = "attempt"
        /\ attempt'[i] = attempt[i] + 1
        /\ result'[i] = result[i] /\ attempts'[i] = attempts[i]
    BY <1>1 DEF BackoffElapses, Goto, ExecType
  <2>2. RetryBudget(i)'
    BY <1>0, <2>1, RetryCountAssumption DEF RetryBudget, max_attempts
  <2>3. Verdict(i)'
    BY <2>1 DEF Verdict, UnderWay
  <2>4. History(i)'
    BY <1>0, <2>1 DEF History
  <2> QED
    BY <2>2, <2>3, <2>4 DEF LocalInv
<1>2. CASE BackoffCancelled(i, tok)
  <2> DEFINE m == mark_cancelled(result[i], {})
             r == finalize_failure(m)
  <2>1. /\ pc[i] = "backoff" /\ pc'[i] = "returned"
        /\ result'[i] = r
        /\ attempt'[i] = attempt[i] /\ attempts'[i] = attempts[i]
    BY <1>2 DEF BackoffCancelled, Goto, Set, ExecType
  <2>2. m \in Results /\ m.status = "cancelled"
    BY <1>0, MarkCancelledType
  <2> HIDE DEF m
  <2>3. r.status = "cancelled" /\ r.error # "none"
    BY <2>2, FinalizeFacts DEF success
  <2> HIDE DEF r
  <2>4. RetryBudget(i)'
    BY <1>0, <2>1 DEF RetryBudget, max_attempts
  <2>5. Verdict(i)'
    BY <2>1, <2>3 DEF Verdict, UnderWay
  <2>6. History(i)'
    BY <1>0, <2>1 DEF History
  <2> QED
    BY <2>4, <2>5, <2>6 DEF LocalInv
<1> QED
  BY <1>1, <1>2, DecideKeeps DEF RetryStep

(* The local invariant of an installer holds through every step of its     *)
(* executor, whenever the token is cancelled.                              *)
LEMMA ExecutorKeeps ==
    ASSUME ExecType, NEW i \in Installers, LocalInv(i), NEW tok,
           ExecutorStep(i, tok)
    PROVE  LocalInv(i)'
<1>1. CASE BeginAttempt(i, tok)
  <2>1. RetryBudget(i)' /\ History(i)'
    BY <1>1, InsideAttempt DEF BeginAttempt, Goto, ExecType
  <2>2. Verdict(i)'
    <3>1. CASE tok
      <4>1. pc'[i] = "decide" /\ result'[i] = mark_cancelled(NewResult, {})
        BY <1>1, <3>1 DEF BeginAttempt, Goto, Set, ExecType
      <4>2. /\ result'[i].status = "cancelled"
            /\ result'[i].error = "none"
            /\ result'[i].retryable = FALSE
            /\ "interrupted" \notin result'[i].text
        BY <4>1 DEF mark_cancelled, NewResult
      <4> QED
        BY <4>1, <4>2 DEF Verdict, UnderWay
    <3>2. CASE ~ tok
      <4>1. pc'[i] = "prepare" /\ result'[i] = NewResult
        BY <1>1, <3>2 DEF BeginAttempt, Goto, Set, ExecType
      <4> QED
        BY <4>1 DEF Verdict, UnderWay, NewResult
    <3> QED
      BY <3>1, <3>2
  <2> QED
    BY <2>1, <2>2 DEF LocalInv
<1>2. CASE Cleanup(i)
  <2>1. RetryBudget(i)' /\ History(i)'
    BY <1>2, InsideAttempt DEF Cleanup, Goto, ExecType
  <2>2. Verdict(i)'
    BY <1>2 DEF Cleanup, Goto, ExecType, LocalInv, Verdict, UnderWay
  <2> QED
    BY <2>1, <2>2 DEF LocalInv
<1> QED
  BY <1>1, <1>2, PrepareKeeps, ExecStepKeeps, CheckStepKeeps, RetryStepKeeps
     DEF ExecutorStep

(* An executor only touches the state of its own installer.                *)
LEMMA ExecutorFrame ==
    ASSUME ExecType, NEW i \in Installers, NEW tok, ExecutorStep(i, tok),
           NEW j \in Installers, j # i
    PROVE  /\ pc'[j] = pc[j] /\ attempt'[j] = attempt[j]
           /\ result'[j] = result[j] /\ attempts'[j] = attempts[j]
<1> USE DEF ExecType, Goto, Set
<1>1. CASE BeginAttempt(i, tok) \/ Cleanup(i)
  BY <1>1 DEF BeginAttempt, Cleanup
<1>2. CASE PrepareStep(i)
  BY <1>2 DEF PrepareStep, PrepareErrors, ContainerStarts,
     ContainerStartFails, LocalDownloadFails, LocalMismatch, LocalSpawns
<1>3. CASE ExecStep(i, tok)
  BY <1>3 DEF ExecStep, InstallerSucceeds, InstallerFails,
     ScriptDownloadFails, ScriptMismatch, ExecErrors, CancelObserved,
     ContainerStopped, InstallerTimesOut
<1>4. CASE CheckStep(i, tok)
  BY <1>4 DEF CheckStep, BeginChecks, ChecksPass, ChecksFail,
     ChecksInterrupted, ChecksFailed
<1>5. CASE RetryStep(i, tok)
  BY <1>5 DEF RetryStep, Decide, BackoffElapses, BackoffCancelled
<1> QED
  BY <1>1, <1>2, <1>3, <1>4, <1>5 DEF ExecutorStep

(* A step starts and ends at the executor's labels.                        *)
LEMMA ExecutorLabels ==
    ASSUME ExecType, NEW i \in Installers, NEW tok, ExecutorStep(i, tok)
    PROVE  pc[i] \in ExecutorPc /\ pc'[i] \in ExecutorPc
<1> USE DEF ExecType, Goto, ExecutorPc, AfterExec
<1>1. CASE BeginAttempt(i, tok) \/ Cleanup(i)
  BY <1>1 DEF BeginAttempt, Cleanup
<1>2. CASE PrepareStep(i)
  BY <1>2 DEF PrepareStep, PrepareErrors, ContainerStarts,
     ContainerStartFails, LocalDownloadFails, LocalMismatch, LocalSpawns
<1>3. CASE ExecStep(i, tok)
  BY <1>3 DEF ExecStep, InstallerSucceeds, InstallerFails,
     ScriptDownloadFails, ScriptMismatch, ExecErrors, CancelObserved,
     ContainerStopped, InstallerTimesOut
<1>4. CASE CheckStep(i, tok)
  BY <1>4 DEF CheckStep, BeginChecks, ChecksPass, ChecksFail,
     ChecksInterrupted, ChecksFailed
<1>5. CASE RetryStep(i, tok)
  BY <1>5 DEF RetryStep, Decide, BackoffElapses, BackoffCancelled
<1> QED
  BY <1>1, <1>2, <1>3, <1>4, <1>5 DEF ExecutorStep

(* The executor only stops a container, and only calls a result cancelled, *)
(* when its token is cancelled or when it had begun to stop before.        *)
LEMMA CancelNeedsToken ==
    ASSUME ExecType, NEW i \in Installers, NEW tok, ExecutorStep(i, tok)
    PROVE  /\ pc'[i] = "stopping" => tok
           /\ result'[i].status \in {"cancelled", "skipped"} =>
                  \/ tok
                  \/ pc[i] = "stopping"
                  \/ result[i].status \in {"cancelled", "skipped"}
<1> USE DEF ExecType, Goto, Set, AfterExec
<1>0. result[i] \in Results
  OBVIOUS
<1>1. CASE BeginAttempt(i, tok)
  BY <1>1 DEF BeginAttempt, NewResult
<1>2. CASE Cleanup(i)
  BY <1>2 DEF Cleanup
<1>3. CASE PrepareStep(i)
  <2> USE DEF Failed, Results
  <2>1. CASE \/ PrepareErrors(i) \/ ContainerStarts(i)
             \/ ContainerStartFails(i)
    BY <2>1 DEF PrepareErrors, ContainerStarts, ContainerStartFails
  <2>2. CASE LocalDownloadFails(i)
    BY <1>0, <2>2 DEF LocalDownloadFails
  <2>3. CASE LocalMismatch(i)
    BY <1>0, <2>3 DEF LocalMismatch
  <2>4. CASE LocalSpawns(i)
    BY <1>0, <2>4 DEF LocalSpawns
  <2> QED
    BY <1>3, <2>1, <2>2, <2>3, <2>4 DEF PrepareStep
<1>4. CASE ExecStep(i, tok)
  <2>1. CASE InstallerSucceeds(i)
    BY <1>0, <2>1 DEF InstallerSucceeds, Results
  <2>2. CASE InstallerFails(i)
    BY <1>0, <2>2 DEF InstallerFails, Failed, Results
  <2>3. CASE ScriptDownloadFails(i)
    BY <1>0, <2>3 DEF ScriptDownloadFails, Failed, Results
  <2>4. CASE ScriptMismatch(i)
    BY <1>0, <2>4 DEF ScriptMismatch, Failed, Results
  <2>5. CASE ExecErrors(i, tok)
    <3>1. pc'[i] # "stopping"
      BY <2>5 DEF ExecErrors
    <3>2. ASSUME ~ tok
          PROVE  result'[i].status = "failed"
      <4>1. PICK out \in Outputs : result'[i] = Failed(result[i], out)
        BY <2>5, <3>2 DEF ExecErrors
      <4> QED
        BY <1>0, <4>1 DEF Failed, Results
    <3> QED
      BY <3>1, <3>2
  <2>6. CASE CancelObserved(i, tok)
    BY <2>6 DEF CancelObserved
  <2>7. CASE ContainerStopped(i)
    BY <2>7 DEF ContainerStopped
  <2>8. CASE InstallerTimesOut(i)
    BY <1>0, <2>8 DEF InstallerTimesOut, Results
  <2> QED
    BY <1>4, <2>1, <2>2, <2>3, <2>4, <2>5, <2>6, <2>7, <2>8 DEF ExecStep
<1>5. CASE CheckStep(i, tok)
  <2>1. ASSUME NEW why, ChecksFailed(i, why)
        PROVE  pc'[i] # "stopping" /\ result'[i].status = "failed"
    BY <1>0, <2>1 DEF ChecksFailed, Failed, Results
  <2>2. CASE BeginChecks(i, tok) \/ ChecksInterrupted(i, tok)
    BY <2>1, <2>2 DEF BeginChecks, ChecksInterrupted
  <2>3. CASE ChecksPass(i)
    BY <2>3 DEF ChecksPass
  <2>4. CASE ChecksFail(i)
    BY <2>1, <2>4 DEF ChecksFail
  <2> QED
    BY <1>5, <2>2, <2>3, <2>4 DEF CheckStep
<1>6. CASE RetryStep(i, tok)
  <2>1. CASE Decide(i, tok)
    <3>1. finalize_failure(result[i]).status = result[i].status
      BY <1>0, FinalizeFacts
    <3>2. result'[i] = finalize_failure(result[i])
      BY <2>1 DEF Decide
    <3> QED
      BY <2>1, <3>1, <3>2 DEF Decide
  <2>2. CASE BackoffElapses(i) \/ BackoffCancelled(i, tok)
    BY <2>2 DEF BackoffElapses, BackoffCancelled
  <2> QED
    BY <1>6, <2>1, <2>2 DEF RetryStep
<1> QED
  BY <1>1, <1>2, <1>3, <1>4, <1>5, <1>6 DEF ExecutorStep

(* Skipped is a verdict of the callers: the executor never gives it.       *)
LEMMA NeverSkips ==
    ASSUME ExecType, NEW i \in Installers, LocalInv(i), NEW tok,
           ExecutorStep(i, tok), result[i].status # "skipped"
    PROVE  result'[i].status # "skipped"
<1>1. Verdict(i)' /\ pc'[i] \in ExecutorPc
  BY ExecutorKeeps, ExecutorLabels DEF LocalInv
<1>2. CASE pc'[i] \in {"attempt", "error"}
  <2>1. UNCHANGED result
    BY <1>2 DEF ExecutorStep, BeginAttempt, PrepareStep, PrepareErrors,
       ContainerStarts, ContainerStartFails, LocalDownloadFails, LocalMismatch,
       LocalSpawns, ExecStep, InstallerSucceeds, InstallerFails,
       ScriptDownloadFails, ScriptMismatch, ExecErrors, CancelObserved,
       ContainerStopped, InstallerTimesOut, CheckStep, BeginChecks, ChecksPass,
       ChecksFail, ChecksInterrupted, ChecksFailed, Cleanup, RetryStep, Decide,
       BackoffElapses, BackoffCancelled, Goto, AfterExec, ExecType
  <2> QED
    BY <2>1
<1>3. CASE pc'[i] \notin {"attempt", "error"}
  BY <1>1, <1>3 DEF Verdict, ExecutorPc
<1> QED
  BY <1>2, <1>3

(* The executor returns a result only once an attempt is on record.        *)
LEMMA ReturnedIsRecorded ==
    ASSUME ExecType, NEW i \in Installers, LocalInv(i), NEW tok,
           ExecutorStep(i, tok), pc'[i] = "returned"
    PROVE  attempts'[i] # << >>
<1>1. Decide(i, tok) \/ BackoffCancelled(i, tok)
  BY DEF ExecutorStep, BeginAttempt, PrepareStep, PrepareErrors,
     ContainerStarts, ContainerStartFails, LocalDownloadFails, LocalMismatch,
     LocalSpawns, ExecStep, InstallerSucceeds, InstallerFails,
     ScriptDownloadFails, ScriptMismatch, ExecErrors, CancelObserved,
     ContainerStopped, InstallerTimesOut, CheckStep, BeginChecks, ChecksPass,
     ChecksFail, ChecksInterrupted, ChecksFailed, Cleanup, RetryStep, Decide,
     BackoffElapses, BackoffCancelled, Goto, AfterExec, ExecType
<1>2. CASE Decide(i, tok)
  <2>1. PICK rec : attempts'[i] = Append(attempts[i], rec)
    BY <1>2 DEF Decide, ExecType
  <2>2. attempts[i] \in Seq(AttemptRecords)
    BY DEF ExecType
  <2> QED
    BY <2>1, <2>2
<1>3. CASE BackoffCancelled(i, tok)
  <2>1. attempts'[i] = attempts[i] /\ pc[i] = "backoff"
    BY <1>3 DEF BackoffCancelled
  <2>2. Len(attempts[i]) = attempt[i] /\ attempt[i] \in 1..max_attempts(i)
    BY <2>1 DEF LocalInv, RetryBudget
  <2> QED
    BY <2>1, <2>2, RetryCountAssumption DEF max_attempts
<1> QED
  BY <1>1, <1>2, <1>3

(* An attempt is only begun under a live token.                            *)
LEMMA AttemptNeedsToken ==
    ASSUME ExecType, NEW i \in Installers, NEW tok, ExecutorStep(i, tok),
           pc[i] \notin UnderWay, pc'[i] \in UnderWay
    PROVE  ~ tok
<1> USE DEF ExecType, Goto, UnderWay
<1>1. pc[i] \in {"attempt", "decide", "backoff"}
  BY DEF ExecutorStep, BeginAttempt, PrepareStep, PrepareErrors,
     ContainerStarts, ContainerStartFails, LocalDownloadFails, LocalMismatch,
     LocalSpawns, ExecStep, InstallerSucceeds, InstallerFails,
     ScriptDownloadFails, ScriptMismatch, ExecErrors, CancelObserved,
     ContainerStopped, InstallerTimesOut, CheckStep, BeginChecks, ChecksPass,
     ChecksFail, ChecksInterrupted, Cleanup, RetryStep, Decide,
     BackoffElapses, BackoffCancelled
<1>2. BeginAttempt(i, tok) \/ RetryStep(i, tok)
  BY <1>1 DEF ExecutorStep, PrepareStep, PrepareErrors,
     ContainerStarts, ContainerStartFails, LocalDownloadFails, LocalMismatch,
     LocalSpawns, ExecStep, InstallerSucceeds, InstallerFails,
     ScriptDownloadFails, ScriptMismatch, ExecErrors, CancelObserved,
     ContainerStopped, InstallerTimesOut, CheckStep, BeginChecks, ChecksPass,
     ChecksFail, ChecksInterrupted, Cleanup
<1> QED
  BY <1>2 DEF BeginAttempt, RetryStep, Decide, BackoffElapses,
     BackoffCancelled
-----------------------------------------------------------------------------
(* Where an attempt has a container of its own.                            *)
Contained == {"exec", "stopping", "checks", "checking", "cleanup"}

(* Only the Docker backend has containers, and the one of an installer is  *)
(* the one of its current attempt.                                         *)
ContainersOwned ==
    /\ containers # {} => Backend = "docker"
    /\ \A c \in containers : c[2] = attempt[c[1]] /\ pc[c[1]] \in Contained

(* With a daemon that obeys, every path through an attempt that created a  *)
(* container goes through guard.cleanup.                                   *)
LEMMA ContainersKept ==
    ASSUME ExecType, ContainersOwned, DaemonFaults = {},
           NEW i \in Installers, NEW tok, ExecutorStep(i, tok)
    PROVE  ContainersOwned'
<1> USE DEF ExecType, Goto, Contained
<1>0. \A c \in containers : c \in Installers \X Nat /\ c[1] \in Installers
  OBVIOUS
<1>1. CASE BeginAttempt(i, tok)
  BY <1>0, <1>1 DEF BeginAttempt, ContainersOwned
<1>2. CASE PrepareStep(i)
  <2>1. CASE ContainerStarts(i)
    BY <1>0, <2>1 DEF ContainerStarts, ContainersOwned
  <2>2. CASE ContainerStartFails(i)
    BY <2>2 DEF ContainerStartFails
  <2>3. CASE \/ PrepareErrors(i) \/ LocalDownloadFails(i)
             \/ LocalMismatch(i) \/ LocalSpawns(i)
    BY <1>0, <2>3 DEF PrepareErrors, LocalDownloadFails, LocalMismatch,
       LocalSpawns, ContainersOwned
  <2> QED
    BY <1>2, <2>1, <2>2, <2>3 DEF PrepareStep
<1>3. CASE ExecStep(i, tok) \/ CheckStep(i, tok)
  <2>1. /\ UNCHANGED <<attempt, containers>>
        /\ \A j \in Installers : j # i => pc'[j] = pc[j]
        /\ Backend = "docker" => pc'[i] \in Contained
    BY <1>3 DEF ExecStep, InstallerSucceeds, InstallerFails,
       ScriptDownloadFails, ScriptMismatch, ExecErrors, CancelObserved,
       ContainerStopped, InstallerTimesOut, CheckStep, BeginChecks,
       ChecksPass, ChecksFail, ChecksInterrupted, ChecksFailed, AfterExec
  <2> QED
    BY <1>0, <2>1 DEF ContainersOwned
<1>4. CASE Cleanup(i)
  <2>1. /\ containers' = containers \ {<<i, attempt[i]>>}
        /\ UNCHANGED attempt
        /\ \A j \in Installers : j # i => pc'[j] = pc[j]
    BY <1>4 DEF Cleanup
  <2>2. \A c \in containers' : c[1] # i
    BY <1>0, <2>1 DEF ContainersOwned
  <2> QED
    BY <1>0, <2>1, <2>2 DEF ContainersOwned
<1>5. CASE RetryStep(i, tok)
  BY <1>0, <1>5 DEF RetryStep, Decide, BackoffElapses, BackoffCancelled,
     ContainersOwned
<1> QED
  BY <1>1, <1>2, <1>3, <1>4, <1>5 DEF ExecutorStep

-----------------------------------------------------------------------------
(* What the callers of run_test_with_retry share.                          *)
(* The results a task returns without running its installer are results.   *)
LEMMA StoppedResults ==
    /\ finalize_failure(mark_cancelled(NewResult, {})) \in Results
    /\ finalize_failure(mark_cancelled(NewResult, {})).status = "cancelled"
    /\ finalize_failure(mark_cancelled(NewResult, {})).error # "none"
    /\ [NewResult EXCEPT !.status = "skipped"] \in Results
    /\ [NewResult EXCEPT !.status = "skipped"].status = "skipped"
<1> DEFINE m == mark_cancelled(NewResult, {})
<1>1. m \in Results /\ m.status = "cancelled"
  BY NewResultType, MarkCancelledType
<1> HIDE DEF m
<1>2. /\ finalize_failure(m) \in Results
      /\ finalize_failure(m).status = "cancelled"
      /\ finalize_failure(m).error # "none"
  BY <1>1, FinalizeFacts DEF success
<1>3. /\ [NewResult EXCEPT !.status = "skipped"] \in Results
      /\ [NewResult EXCEPT !.status = "skipped"].status = "skipped"
  BY NewResultType DEF Results, Statuses
<1> QED
  BY <1>2, <1>3 DEF m

(* The signal handler and the deadline task keep the types.                *)
LEMMA ControlType ==
    ASSUME ControlTypeOK, ControlNext
    PROVE  ControlTypeOK'
BY DEF ControlTypeOK, ControlNext, SignalArrives, SignalCancels,
   DeadlineExpires, DeadlineFlags, DeadlineCancels, CancelRun

AllLocal == \A i \in Installers : LocalInv(i)

(* The local invariant of an installer only speaks of its own state.       *)
LEMMA LocalFrame ==
    ASSUME NEW j \in Installers, LocalInv(j),
           pc'[j] = pc[j], attempt'[j] = attempt[j],
           result'[j] = result[j], attempts'[j] = attempts[j]
    PROVE  LocalInv(j)'
BY DEF LocalInv, RetryBudget, Verdict, History, max_attempts

(* A verdict, however the caller came by it, keeps the local invariant.    *)
LEMMA DoneLocal ==
    ASSUME NEW i \in Installers, LocalInv(i), pc[i] # "backoff",
           pc'[i] = "done", attempt'[i] = attempt[i], attempts'[i] = attempts[i],
           result'[i].status # "pending",
           result'[i].status \in {"failed", "timed_out", "cancelled"}
               => result'[i].error # "none",
           result'[i].status = "passed" => result'[i].error = "none"
    PROVE  LocalInv(i)'
<1>1. RetryBudget(i)' /\ History(i)'
  BY DEF LocalInv, RetryBudget, History, max_attempts
<1>2. Verdict(i)'
  BY DEF Verdict, UnderWay
<1> QED
  BY <1>1, <1>2 DEF LocalInv

phaseOfAll == [i \in Installers |-> PhaseOf(i)]

(* A step of one task changes the phase of that task at most.              *)
LEMMA PhaseFrame ==
    ASSUME NEW i \in Installers,
           \A j \in Installers : j # i =>
               pc'[j] = pc[j] /\ result'[j] = result[j]
    PROVE  phaseOfAll' = [phaseOfAll EXCEPT ![i] = PhaseOf(i)']
BY DEF phaseOfAll, PhaseOf

-----------------------------------------------------------------------------
(* The end of cmd_check.                                                   *)

ReallyFailed(i) == result[i].status \in {"failed", "timed_out"}

(* What was collected is final: no later step touches it.                  *)
Judged ==
    \A i \in collected : result[i].status \in
        {"passed", "failed", "timed_out", "cancelled", "skipped"}

(* Without a cancelled run, only a real failure explains a cancellation.   *)
CancelsExplained ==
    \A i \in collected : result[i].status = "cancelled" =>
        \E j \in collected : ReallyFailed(j)

SomeCounts == \E i \in collected : CountsAsFailure(result[i])

CodeOf(failed) == IF failed THEN 1 ELSE 0

(* The handler task remembers one signal and never forgets it.             *)
HandlerInv == handler = "waiting" <=> seen = "none"

(* What cmd_check has read is no older than the reads.                     *)
ReadsInv ==
    /\ deadlineExceeded => deadlineHit
    /\ main \in {"read_deadline", "read_signal", "read_token"} =>
           runToken \/ CancelsExplained
    /\ main \in {"remediate", "summary", "persist", "notify", "return"} =>
           /\ anyFailed = SomeCounts
           /\ interrupted \/ CancelsExplained

(* The summary was computed from the same results, maybe before a signal.  *)
SummaryInv ==
    \/ summaryCode = ExitCodeNow
    \/ summaryCode = CodeOf(anyFailed) /\ seen # "none"

(* The persisted run is a copy of what was collected and read.             *)
SavedInv ==
    /\ saved # NoRun =>
           /\ saved.entries = collected
           /\ saved.interrupted = interrupted
           /\ interrupted \/ CancelsExplained
           /\ (\E i \in collected : ~ success(result[i])) => saved.exit_code = 1
    /\ remediated => \E j \in collected : ReallyFailed(j)

(* Where the process exits: by `?' out of the sequential loop, with an     *)
(* installer unaccounted for, or at the end.                               *)
Aborted ==
    /\ exitCode = 1
    /\ saved = NoRun
    /\ collected # Installers

AtTheEnd ==
    /\ exitCode = ExitCodeNow
    /\ anyFailed = SomeCounts
    /\ SummaryInv

CheckInv ==
    /\ CheckTypeOK
    /\ HandlerInv
    /\ Judged
    /\ ReadsInv
    /\ SavedInv
    /\ main = "work" => deadlineExceeded = FALSE /\ remediated = FALSE
    /\ main \notin {"notify", "return", "exited"} => saved = NoRun
    /\ main \in {"persist", "notify", "return"} => SummaryInv
    /\ main = "exited" => Aborted \/ AtTheEnd

-----------------------------------------------------------------------------
(* Before the first installer, nothing was read and nothing written.       *)
LEMMA CheckInitInv ==
    ASSUME CheckInit, ControlInit
    PROVE  CheckInv
<1> USE DEF CheckInit, ControlInit
<1>1. CheckTypeOK
  BY DEF CheckTypeOK, MainPc, ExitStatus, NoRun, SavedRuns
<1> QED
  BY <1>1 DEF CheckInv, HandlerInv, Judged, ReadsInv, SavedInv

(* While the installers run, cmd_check only adds to what it collected.     *)
LEMMA WorkKeepsCheck ==
    ASSUME CheckInv, main = "work", main' = "work",
           UNCHANGED <<readVars, outVars, seen, handler, deadlineHit>>,
           collected' \subseteq Installers, Judged'
    PROVE  CheckInv'
<1> USE DEF CheckInv, readVars, outVars
<1>1. CheckTypeOK'
  BY DEF CheckTypeOK
<1> QED
  BY <1>1 DEF HandlerInv, ReadsInv, SavedInv

(* The last result is in, and every cancelled one has its reason.          *)
LEMMA CollectKeepsCheck ==
    ASSUME CheckInv, main = "work", main' = "read_deadline",
           UNCHANGED <<readVars, outVars, seen, handler, deadlineHit>>,
           collected' \subseteq Installers, Judged',
           (runToken \/ CancelsExplained)'
    PROVE  CheckInv'
<1> USE DEF CheckInv, readVars, outVars
<1>1. CheckTypeOK'
  BY DEF CheckTypeOK, MainPc
<1> QED
  BY <1>1 DEF HandlerInv, ReadsInv, SavedInv

(* The signal handler and the deadline task never invalidate what          *)
(* cmd_check has read or written: they only ever add a reason to stop.     *)
LEMMA ControlKeepsCheck ==
    ASSUME CheckInv, ControlTypeOK, ControlNext, main # "exited",
           UNCHANGED <<result, checkVars>>
    PROVE  CheckInv'
<1> USE DEF checkVars, readVars, outVars
<1>1. /\ deadlineHit => deadlineHit'
      /\ runToken => runToken'
      /\ HandlerInv'
      /\ seen' = seen \/ seen' # "none"
      /\ seen # "none" => seen' = seen
  BY SignalsAssumption
     DEF CheckInv, HandlerInv, ControlTypeOK, ControlNext, SignalArrives,
         SignalCancels, DeadlineExpires, DeadlineFlags, DeadlineCancels,
         CancelRun
<1>2. CheckTypeOK' /\ Judged' /\ SavedInv' /\ CancelsExplained' = CancelsExplained
      /\ SomeCounts' = SomeCounts
  BY DEF CheckInv, CheckTypeOK, Judged, SavedInv, CancelsExplained,
         ReallyFailed, SomeCounts, CountsAsFailure
<1>3. ReadsInv'
  BY <1>1, <1>2 DEF CheckInv, ReadsInv
<1>4. main \in {"persist", "notify", "return"} => SummaryInv'
  BY <1>1 DEF CheckInv, SummaryInv, ExitCodeNow, CodeOf
<1> QED
  BY <1>1, <1>2, <1>3, <1>4 DEF CheckInv

(* The exit codes of AfscError: the signal's, or that of the results.      *)
LEMMA ExitCodeFacts ==
    ASSUME ControlTypeOK
    PROVE  /\ seen = "none" => ExitCodeNow = CodeOf(anyFailed)
           /\ seen # "none" => ExitCodeNow \in {130, 143}
           /\ ExitCodeNow \in ExitStatus
<1>1. seen \in {"none", "interrupt", "terminate"}
  BY SignalsAssumption DEF ControlTypeOK
<1>2. CASE seen = "none"
  BY <1>2, Zenon DEF ExitCodeNow, CodeOf, ExitStatus
<1>3. CASE seen = "interrupt"
  BY <1>3, Zenon DEF ExitCodeNow, ExitStatus
<1>4. CASE seen = "terminate"
  BY <1>4, Zenon DEF ExitCodeNow, ExitStatus
<1> QED
  BY <1>1, <1>2, <1>3, <1>4

(* A failure that counts is a real one, or a cancellation with a reason.   *)
LEMMA CountedMeansReal ==
    ASSUME SomeCounts, CancelsExplained
    PROVE  \E j \in collected : ReallyFailed(j)
BY DEF SomeCounts, CancelsExplained, CountsAsFailure, is_failure, ReallyFailed

(* Every step from the last result to the exit keeps the invariant.        *)
LEMMA EpilogueKeepsCheck ==
    ASSUME CheckInv, ControlTypeOK, Epilogue, UNCHANGED <<controlVars, result>>
    PROVE  CheckInv'
<1> USE DEF readVars, outVars, controlVars
<1>0. /\ HandlerInv' /\ Judged' /\ CancelsExplained' = CancelsExplained
      /\ collected' = collected
  BY DEF CheckInv, HandlerInv, Judged, CancelsExplained, ReallyFailed,
     Epilogue, ReadDeadline, ReadSignal, ReadToken, Remediation, Summarise,
     Persist, Notification, ReturnCode
<1>1. CASE ReadDeadline
  <2>1. CheckTypeOK'
    BY <1>1 DEF ReadDeadline, CheckInv, CheckTypeOK, MainPc, ControlTypeOK
  <2> QED
    BY <1>0, <1>1, <2>1 DEF ReadDeadline, CheckInv, ReadsInv, SavedInv, ReallyFailed
<1>2. CASE ReadSignal
  <2>1. CheckTypeOK'
    BY <1>2 DEF ReadSignal, CheckInv, CheckTypeOK, MainPc
  <2> QED
    BY <1>0, <1>2, <2>1 DEF ReadSignal, CheckInv, ReadsInv, SavedInv, ReallyFailed
<1>3. CASE ReadToken
  <2>1. CheckTypeOK'
    BY <1>3 DEF ReadToken, CheckInv, CheckTypeOK, MainPc, ControlTypeOK
  <2>2. anyFailed' = SomeCounts'
    BY <1>3 DEF ReadToken, SomeCounts, CountsAsFailure
  <2> QED
    BY <1>0, <1>3, <2>1, <2>2 DEF ReadToken, CheckInv, ReadsInv, SavedInv, ReallyFailed
<1>4. ASSUME UNCHANGED readVars PROVE SomeCounts' = SomeCounts
  BY <1>0, <1>4 DEF SomeCounts, CountsAsFailure
<1>5. CASE Remediation
  <2>1. CheckTypeOK'
    BY <1>5 DEF Remediation, CheckInv, CheckTypeOK, MainPc
  <2>2. ReadsInv'
    BY <1>0, <1>4, <1>5 DEF Remediation, CheckInv, ReadsInv
  <2>3. remediated' => \E j \in collected : ReallyFailed(j)
    BY <1>5, CountedMeansReal DEF Remediation, CheckInv, ReadsInv
  <2> QED
    BY <1>0, <1>5, <2>1, <2>2, <2>3
       DEF Remediation, CheckInv, SavedInv, ReallyFailed
<1>6. CASE Summarise
  <2>1. CheckTypeOK'
    BY <1>6, ExitCodeFacts DEF Summarise, CheckInv, CheckTypeOK, MainPc
  <2>2. ReadsInv'
    BY <1>0, <1>4, <1>6 DEF Summarise, CheckInv, ReadsInv
  <2>3. SummaryInv'
    BY <1>6 DEF Summarise, SummaryInv, ExitCodeNow
  <2> QED
    BY <1>0, <1>6, <2>1, <2>2, <2>3
       DEF Summarise, CheckInv, SavedInv, ReallyFailed
<1>7. CASE Persist
  <2> DEFINE new == [entries |-> collected, interrupted |-> interrupted,
                     exit_code |-> IF \E i \in collected : ~ success(result[i])
                                   THEN 1 ELSE 0]
  <2>1. new \in SavedRuns
    BY DEF CheckInv, CheckTypeOK, SavedRuns
  <2>2. saved' \in {new, saved} /\ main = "persist" /\ main' = "notify"
        /\ UNCHANGED <<readVars, remediated, summaryCode, notified, exitCode>>
    BY <1>7 DEF Persist
  <2>3. CheckTypeOK'
    BY <1>0, <2>1, <2>2 DEF CheckInv, CheckTypeOK, MainPc
  <2>4. ReadsInv'
    BY <1>0, <1>4, <2>2 DEF CheckInv, ReadsInv
  <2>5. SummaryInv'
    BY <2>2 DEF CheckInv, SummaryInv, ExitCodeNow
  <2>6. SavedInv'
    <3>1. remediated' => \E j \in collected : ReallyFailed(j)'
      BY <2>2 DEF CheckInv, SavedInv, ReallyFailed
    <3>2. saved = NoRun /\ (interrupted \/ CancelsExplained)
      BY <2>2 DEF CheckInv, ReadsInv
    <3>3. CASE saved' = new
      BY <1>0, <2>2, <3>1, <3>2, <3>3 DEF SavedInv
    <3>4. CASE saved' = saved
      BY <1>0, <3>1, <3>2, <3>4 DEF SavedInv, NoRun
    <3> QED
      BY <2>2, <3>3, <3>4
  <2> QED
    BY <1>0, <2>2, <2>3, <2>4, <2>5, <2>6 DEF CheckInv
<1>8. CASE Notification
  <2>1. CheckTypeOK'
    BY <1>8 DEF Notification, CheckInv, CheckTypeOK, MainPc
  <2>2. ReadsInv'
    BY <1>0, <1>4, <1>8 DEF Notification, CheckInv, ReadsInv
  <2>3. SummaryInv' /\ SavedInv'
    BY <1>0, <1>8 DEF Notification, CheckInv, SummaryInv, SavedInv, ExitCodeNow,
       NoRun, ReallyFailed
  <2> QED
    BY <1>0, <1>8, <2>1, <2>2, <2>3 DEF Notification, CheckInv
<1>9. CASE ReturnCode
  <2>1. CheckTypeOK'
    BY <1>9, ExitCodeFacts DEF ReturnCode, CheckInv, CheckTypeOK, MainPc
  <2>2. ReadsInv'
    BY <1>0, <1>4, <1>9 DEF ReturnCode, CheckInv, ReadsInv
  <2>3. SummaryInv' /\ SavedInv' /\ exitCode' = ExitCodeNow'
    BY <1>0, <1>9 DEF ReturnCode, CheckInv, SummaryInv, SavedInv, ExitCodeNow,
       NoRun, ReallyFailed
  <2>4. anyFailed' = SomeCounts'
    BY <1>4, <1>9 DEF ReturnCode, CheckInv, ReadsInv
  <2> QED
    BY <1>0, <1>9, <2>1, <2>2, <2>3, <2>4 DEF ReturnCode, CheckInv, AtTheEnd
<1> QED
  BY <1>1, <1>2, <1>3, <1>5, <1>6, <1>7, <1>8, <1>9 DEF Epilogue

(* After the exit nothing changes.                                         *)
LEMMA StutterKeepsCheck ==
    ASSUME CheckInv, UNCHANGED <<controlVars, result, checkVars>>
    PROVE  CheckInv'
<1> USE DEF controlVars, checkVars, readVars, outVars
<1>1. ExitCodeNow' = ExitCodeNow
  BY DEF ExitCodeNow
<1>2. /\ CancelsExplained' = CancelsExplained /\ SomeCounts' = SomeCounts
      /\ Judged' = Judged /\ SavedInv' = SavedInv
  BY DEF CancelsExplained, SomeCounts, Judged, SavedInv, ReallyFailed,
     CountsAsFailure
<1>3. CheckTypeOK' /\ HandlerInv' /\ ReadsInv'
  BY <1>2 DEF CheckInv, CheckTypeOK, HandlerInv, ReadsInv
<1>4. SummaryInv' = SummaryInv /\ Aborted' = Aborted /\ AtTheEnd' = AtTheEnd
  BY <1>1, <1>2 DEF SummaryInv, Aborted, AtTheEnd
<1> QED
  BY <1>2, <1>3, <1>4 DEF CheckInv

-----------------------------------------------------------------------------
(* What the invariant says once the process has exited: no failure behind  *)
(* exit code 0, no real failure that goes unreported, and a summary that   *)
(* only a signal can overtake.                                             *)
LEMMA CheckVerdicts ==
    ASSUME CheckInv, ControlTypeOK
    PROVE  /\ ExitZeroMeansNoFailure
           /\ RealFailureReported
           /\ SummaryAgreesUnlessSignalled
           /\ CutShortIsRecorded
<1>1. exitCode = 0 /\ Exited => seen = "none" /\ ~ SomeCounts
  BY ExitCodeFacts DEF CheckInv, Exited, Aborted, AtTheEnd, CodeOf
<1>2. ExitZeroMeansNoFailure
  BY <1>1 DEF ExitZeroMeansNoFailure, CheckInv, Judged, ReadsInv, SomeCounts,
     CountsAsFailure, is_failure
<1>3. Exited /\ (\E i \in collected : ReallyFailed(i)) => exitCode \in {1, 130, 143}
  <2>1. (\E i \in collected : ReallyFailed(i)) => SomeCounts
    BY DEF ReallyFailed, SomeCounts, CountsAsFailure, is_failure
  <2> QED
    BY <2>1, ExitCodeFacts DEF CheckInv, Exited, Aborted, AtTheEnd, CodeOf
<1>4. RealFailureReported
  BY <1>3 DEF RealFailureReported, ReallyFailed, CheckInv, SavedInv, success
<1>5. SummaryAgreesUnlessSignalled
  <2>1. Exited /\ collected = Installers => exitCode = ExitCodeNow /\ SummaryInv
    BY DEF CheckInv, Exited, Aborted, AtTheEnd
  <2>2. CodeOf(anyFailed) \in {0, 1}
    BY DEF CodeOf
  <2> QED
    BY <2>1, <2>2, ExitCodeFacts DEF SummaryAgreesUnlessSignalled, SummaryInv
<1>6. CutShortIsRecorded
  BY DEF CutShortIsRecorded, CheckInv, SavedInv, CancelsExplained, ReallyFailed
<1> QED
  BY <1>2, <1>4, <1>5, <1>6
=============================================================================
