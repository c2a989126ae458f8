-------------------------------- MODULE Reports --------------------------------
(***************************************************************************)
(* How a run is made known: the epilogue of cmd_check (persist, prune,     *)
(* dispatch_notification) composed with the `notify' command (--last-run,  *)
(* --run, --digest) over one data directory and one GitHub repository.     *)
(* The checks exclude each other by the run lock; `notify' takes no lock,  *)
(* so its steps fall between any two steps of a check.  Both processes may *)
(* be killed at any step.  The metrics snapshot, written between the two   *)
(* halves of the epilogue, is in MetricsWindow.                            *)
(***************************************************************************)
EXTENDS ResultStore, Notifier, Sequences, SequencesExt

VARIABLES pc,         \* where the check is
          run,        \* its run, or the last one
          mode,       \* notifications.mode
          queue,      \* the lines of notify/pending.jsonl
          job,        \* what the `notify' process is for
          owed,       \* auxiliary: the failing set GitHub has yet to hear of
          overlap     \* auxiliary: a check and a `notify' have overlapped

reportVars == <<pc, run, mode, queue, job, owed, overlap>>
vars == <<storeVars, notifierVars, reportVars>>

Check == "check"
Notify == "notify"
CheckPc == {"idle", "create", "write", "prune", "pruning", "notify", "queueing",
            "sending"}
Modes == {"every_run", "on_change", "daily_digest"}
(* A line of the queue: whole; all of one but its newline ("bare"); a part *)
(* of one; or one begun behind a part or a bare one ("glued").  A line     *)
(* that does not parse says nothing, and is not kept once it is ended.     *)
Texts == {"whole", "bare", "part", "glued"}
Lines == [run : 0..MaxRuns, failing : BOOLEAN, text : Texts]
Unreadable(text) == [run |-> 0, failing |-> FALSE, text |-> text]
Parses(line) == line.text \in {"whole", "bare"}
pending == {k \in DOMAIN queue : Parses(queue[k])}
(* The failing sets of a run.                                              *)
FailingSets == SUBSET (Installers \X Outcomes)
NoJob == [kind |-> "none", run |-> 0]

ASSUME SendersAssumption == {Check, Notify} \subseteq Senders

ReportsTypeOK ==
    /\ StoreTypeOK /\ NotifierTypeOK
    /\ pc \in CheckPc /\ run \in 0..MaxRuns
    /\ mode \in Modes
    /\ queue \in Seq(Lines)
    /\ job \in [kind : {"none", "run", "digest"}, run : 0..MaxRuns]
    /\ owed \in SUBSET FailingSets /\ overlap \in BOOLEAN

Init ==
    /\ StoreInit /\ NotifierInit
    /\ pc = "idle" /\ run = 0
    /\ mode \in Modes
    /\ queue = <<>> /\ job = NoJob
    /\ owed = {} /\ overlap = FALSE

-----------------------------------------------------------------------------
(* The epilogue begins: the run has its results.                           *)
StartRun(found) ==
    /\ pc = "idle" /\ run < MaxRuns
    /\ pc' = "create" /\ run' = run + 1
    /\ NewResults(run + 1, found)
    /\ overlap' = (overlap \/ job # NoJob)
    /\ UNCHANGED <<notifierVars, mode, queue, job, owed>>

PersistStep ==
    /\ \/ pc = "create" /\ CreateTmp /\ pc' = "write"
       \/ pc = "write" /\ WriteLine /\ pc' = "write"
       \/ pc = "write" /\ Rename(run) /\ pc' = "prune"
       \/ pc = "prune" /\ PlanPrune /\ pc' = "pruning"
       \/ pc = "pruning" /\ PruneOne /\ pc' = "pruning"
       \/ pc = "pruning" /\ doomed = {} /\ UNCHANGED storeVars /\ pc' = "notify"
    /\ UNCHANGED <<notifierVars, run, mode, queue, job, owed, overlap>>

(* An I/O error is logged: no results file, or no further pruning.         *)
PersistFails ==
    /\ pc \in {"create", "write", "pruning"}
    /\ DropFiles
    /\ pc' = "notify"
    /\ UNCHANGED <<notifierVars, run, mode, queue, job, owed, overlap>>

(* Notification::is_failure, from the persisted run.                       *)
build_notification(r) == failing_set(r) # {}

(* Mutant: a run is compared with the newest file, which is its own.       *)
UnchangedFromItself(r) == failing_set(latest) = failing_set(r)

(* on_change: the older neighbour exists and failed the same way.          *)
Unchanged(r) == HasPrevious(r) /\ failing_set(previous(r)) = failing_set(r)

(* The mode's decision on a run that is not forced.                        *)
Decision(r) ==
    CASE mode = "every_run" -> "send"
      [] mode = "on_change" -> IF Unchanged(r) THEN "unchanged" ELSE "send"
      [] mode = "daily_digest" -> "queued"

(* Auxiliary: a run that GitHub does not hear of leaves its failing set    *)
(* owed, unless on_change would have been silent on it as well.            *)
Owe(r) ==
    owed' = IF Found(r) /\ (mode = "daily_digest" \/ ~Unchanged(r))
            THEN {failing_set(r)} ELSE owed

(* A run that was signalled (a choice: any run may be) or that has no      *)
(* results file is not announced.                                          *)
NotAnnounced ==
    /\ pc = "notify"
    /\ pc' = "idle"
    /\ Owe(run)
    /\ UNCHANGED <<storeVars, notifierVars, run, mode, queue, job, overlap>>

StaysSilent ==
    /\ pc = "notify" /\ Found(run) /\ Decision(run) = "unchanged"
    /\ pc' = "idle"
    /\ UNCHANGED <<storeVars, notifierVars, run, mode, queue, job, owed, overlap>>

Unended(q) == q # <<>> /\ Last(q).text # "whole"
Line(text) == [run |-> run, failing |-> build_notification(run), text |-> text]

(* The queue is opened for appending and the line begun, in several        *)
(* writes; what an earlier writer left unended it is glued to.             *)
BeginLine(line) ==
    /\ pc = "notify" /\ Found(run) /\ Decision(run) = "queued"
    /\ pc' = "queueing"
    /\ queue' = IF Unended(queue)
                THEN [queue EXCEPT ![Len(queue)] = Unreadable("glued")]
                ELSE Append(queue, line)
    /\ UNCHANGED <<storeVars, notifierVars, run, mode, job, owed, overlap>>

(* The line is ended, and the run counts as queued: even if it is glued,   *)
(* or if the file has been rotated away under the open handle.             *)
EndLine ==
    /\ pc = "queueing"
    /\ pc' = "idle"
    /\ \/ queue = <<>> /\ UNCHANGED <<queue, owed>>
       \/ /\ queue # <<>> /\ Last(queue).text = "glued"
          /\ queue' = Front(queue) /\ Owe(run)
       \/ /\ queue # <<>> /\ Last(queue).text # "glued"
          /\ queue' = [queue EXCEPT ![Len(queue)] = Line("whole")]
          /\ UNCHANGED owed
    /\ UNCHANGED <<storeVars, notifierVars, run, mode, job, overlap>>

(* The directory, the file or a write is refused: what is written stays.   *)
QueueFails ==
    /\ \/ pc = "notify" /\ Found(run) /\ Decision(run) = "queued"
       \/ pc = "queueing"
    /\ pc' = "idle"
    /\ Owe(run)
    /\ UNCHANGED <<storeVars, notifierVars, run, mode, queue, job, overlap>>

Announce ==
    /\ pc = "notify" /\ Found(run) /\ Decision(run) = "send"
    /\ pc' = "sending"
    /\ Begin(Check, build_notification(run))
    /\ UNCHANGED <<storeVars, run, mode, queue, job, owed, overlap>>

CheckSent ==
    /\ pc = "sending" /\ send[Check].pc = "sent"
    /\ pc' = "idle"
    /\ IF send[Check].github = "failed" THEN Owe(run) ELSE owed' = {}
    /\ EndSend(Check)
    /\ UNCHANGED <<storeVars, run, mode, queue, job, overlap>>

KillCheck ==
    /\ pc # "idle"
    /\ pc' = "idle"
    /\ Owe(run)
    /\ DropFiles /\ EndSend(Check)
    /\ UNCHANGED <<run, mode, queue, job, overlap>>

-----------------------------------------------------------------------------
(* notify --last-run and --run: force, whatever the mode.                  *)
NotifyRun(r) ==
    /\ job = NoJob /\ Found(r)
    /\ job' = [kind |-> "run", run |-> r]
    /\ Begin(Notify, build_notification(r))
    /\ overlap' = (overlap \/ pc # "idle")
    /\ UNCHANGED <<storeVars, pc, run, mode, queue, owed>>

(* Mutant: the digest is a failure if any of its runs is one.              *)
DigestReadAny ==
    /\ job = NoJob /\ pending # {}
    /\ job' = [kind |-> "digest", run |-> queue[Max(pending)].run]
    /\ Begin(Notify, \E k \in pending : queue[k].failing)
    /\ overlap' = (overlap \/ pc # "idle")
    /\ UNCHANGED <<storeVars, pc, run, mode, queue, owed>>

(* notify --digest: read the lines that parse; none is the end of it.  The *)
(* digest is a failure as its last run is, by its file if that is there.   *)
DigestRead ==
    /\ job = NoJob /\ pending # {}
    /\ LET last == queue[Max(pending)] IN
         /\ job' = [kind |-> "digest", run |-> last.run]
         /\ Begin(Notify, IF Found(last.run) THEN build_notification(last.run)
                          ELSE last.failing)
    /\ overlap' = (overlap \/ pc # "idle")
    /\ UNCHANGED <<storeVars, pc, run, mode, queue, owed>>

(* Auxiliary: of the newest run GitHub heard, did not hear, or heard as    *)
(* much as before, when a run was sent again in vain.                      *)
OweLatest ==
    owed' = IF job.run = latest THEN owed
            ELSE {failing_set(r) : r \in {q \in result_files : q = latest}}

NotifySent ==
    /\ send[Notify].pc = "sent"
    /\ job' = NoJob
    /\ EndSend(Notify)
    /\ UNCHANGED <<storeVars, pc, run, mode, overlap>>

NotifyRunSent ==
    /\ job.kind = "run" /\ NotifySent
    /\ IF send[Notify].github # "failed" /\ job.run = latest
       THEN owed' = {} ELSE OweLatest
    /\ UNCHANGED queue

(* The queue file is renamed whatever the channels answered, with whatever *)
(* is in it by now; a rename that fails leaves it.                         *)
DigestSent ==
    /\ job.kind = "digest" /\ NotifySent
    /\ owed' = IF send[Notify].github # "failed" /\ job.run = latest THEN {}
               ELSE {failing_set(r) : r \in {q \in result_files : q = latest}}
    /\ queue' \in {<<>>, queue}

KillNotify ==
    /\ job # NoJob
    /\ job' = NoJob
    /\ OweLatest
    /\ EndSend(Notify)
    /\ UNCHANGED <<storeVars, pc, run, mode, queue, overlap>>

Next ==
    \/ \E found \in [Installers -> Outcomes] : StartRun(found)
    \/ PersistStep \/ PersistFails \/ NotAnnounced \/ StaysSilent
    \/ BeginLine(Unreadable("part")) \/ BeginLine(Line("bare"))
    \/ EndLine \/ QueueFails \/ Announce \/ CheckSent \/ KillCheck
    \/ \E r \in Runs : NotifyRun(r)
    \/ DigestRead \/ NotifyRunSent \/ DigestSent \/ KillNotify
    \/ \E s \in Senders : SenderStep(s) /\ UNCHANGED <<storeVars, reportVars>>

Spec == Init /\ [][Next]_vars

-----------------------------------------------------------------------------
Undisturbed == ~cut /\ ~overlap
Quiet == pc = "idle" /\ job = NoJob
IssuesWanted == config.token /\ config.create_issues

(* The rolling issue is open as the newest results file has failures, or   *)
(* else that file's failing set is the very one that is owed.              *)
TellsLatest ==
    result_files # {} =>
        IF owed = {} THEN open # {} <=> failing_set(latest) # {}
        ELSE failing_set(latest) \in owed

(* At most one rolling issue is open, as long as no listing was cut off    *)
(* and no `notify' overlapped a check: refused requests, lost replies and  *)
(* kills alone never lead to a second one (notify.rs:181-230).             *)
OneIssueUndisturbed == Undisturbed => OneRollingIssue

(* While nothing is under way in every_run or on_change, the rolling issue *)
(* is open exactly when the newest results file has failures.  The         *)
(* exception is exact: a run that changed the failing set and that GitHub  *)
(* did not take (a signal, a kill, a refused request, or `notify' for an   *)
(* older run since) leaves that set owed, and later runs stay silent only  *)
(* while they fail in just that way; the first run with another failing    *)
(* set is sent again.  A run that could not be announced but changed       *)
(* nothing is no exception (dispatch_notification, main.rs:3076-3178).     *)
(* Not with a retention of 1: a prune that fails half way, newest file     *)
(* first, then leaves an older neighbour to compare with than the run      *)
(* announced last.                                                         *)
IssueTracksLatest ==
    Quiet /\ Undisturbed /\ mode # "daily_digest" /\ Keep # 1 /\ IssuesWanted
    => TellsLatest

(* While nothing is under way in daily_digest and no line waits to be      *)
(* read, the rolling issue is open exactly when the newest results file    *)
(* has failures, checks and `notify' overlapping as they may.  The         *)
(* exception: the newest run itself is owed, because it was not queued,    *)
(* its line does not parse or was queued during a send and rotated away    *)
(* unread, its digest was refused and rotated away, or `notify' was sent   *)
(* for an older run since (cmd_notify, main.rs:3197-3280).                 *)
DigestTellsLatest ==
    Quiet /\ ~cut /\ mode = "daily_digest" /\ pending = {} /\ IssuesWanted
    => TellsLatest
=============================================================================
