----------------------------- MODULE Remediation -----------------------------
(***************************************************************************)
(* `check --remediate': remediate_results (main.rs) walks the failing      *)
(* results and attaches an outcome to each.  Checksum drift is settled by  *)
(* the refresh (ChecksumRefresh; only its verdicts appear here).  The rest *)
(* go, one at a time, to Claude: for advice, with retries, in advisory     *)
(* mode; else to an edit session (remediation/propose.rs) in a git         *)
(* worktree, whose changes land only through the gates.                    *)
(*                                                                         *)
(* What a session leaves in the worktree is the set of areas it touched,   *)
(* whether its transcript holds a risky command and whether the installer  *)
(* works with it.                                                          *)
(***************************************************************************)
EXTENDS ClaudeClient

CONSTANTS NumResults,    \* failing results of the run, in order
          MaxAttempts    \* remediation.max_attempts

ASSUME RemediationAssumption == NumResults \in Nat /\ MaxAttempts \in Nat

VARIABLES mode,      \* effective_mode, with Off read as advisory
          pc,        \* where the walk is
          cur,       \* the result it is at
          attempt,   \* of the retry loop or of the session loop
          before,    \* spent_before
          edits,     \* what the last session left in the worktree
          tree,      \* the session's worktree and branch
          outcome,   \* of each result
          reported,  \* sum of cost_usd over the outcomes
          landed     \* the edits on the last branch kept for review

walkVars == <<mode, pc, cur, attempt, before, edits, tree, outcome, reported, landed>>
vars == <<clientVars, walkVars>>

Modes == {"advisory", "propose", "apply"}
WalkPc == {"drift", "next", "advise", "open", "session", "scan", "policy", "verify",
           "commit", "push", "pr", "done"}
Kinds == {"none", "refreshed", "advised", "proposed", "applied", "failed"}
Areas == {"pins", "elsewhere"}
Sessions == [touched : SUBSET Areas, risky : BOOLEAN, works : BOOLEAN]
NoEdits == [touched |-> {}, risky |-> FALSE, works |-> FALSE]
NoTree == [worktree |-> FALSE, branch |-> FALSE, stuck |-> FALSE, pushed |-> FALSE]
Results == 1..NumResults

RemediationTypeOK ==
    /\ breaker.state \in {"closed", "open", "half_open"}
    /\ breaker.failures \in 0..FailureThreshold
    /\ breaker.successes \in 0..SuccessThreshold
    /\ breaker.age \in 0..BreakerTimeout
    /\ limiter \in [tokens : 0..MaxTokens, age : 0..MaxTokens]
    /\ {total, before, reported, whileOpen} \subseteq Nat
    /\ mode \in Modes /\ pc \in WalkPc /\ cur \in 0..NumResults
    /\ attempt \in 0..Greater(MaxRetries, Greater(MaxAttempts, 1))
    /\ edits \in Sessions /\ landed \in Sessions
    /\ DOMAIN tree = DOMAIN NoTree /\ \A f \in DOMAIN tree : tree[f] \in BOOLEAN
    /\ outcome \in [Results -> Kinds]

Init ==
    /\ ClientInit
    /\ mode \in Modes
    /\ pc = "drift" /\ cur = 0 /\ attempt = 0 /\ before = 0
    /\ edits = NoEdits /\ tree = NoTree /\ landed = NoEdits
    /\ outcome = [r \in Results |-> "none"]
    /\ reported = 0

-----------------------------------------------------------------------------
(* Step 1: every drifted result is settled by the refresh, whose verdict   *)
(* is ChecksumRefresh's matter; it costs nothing.                          *)
SettleDrift ==
    /\ pc = "drift"
    /\ \E drifted \in SUBSET Results :
          outcome' = [r \in Results |-> IF r \in drifted THEN "refreshed" ELSE "none"]
    /\ pc' = "next"
    /\ UNCHANGED <<clientVars, mode, cur, attempt, before, edits, tree, reported, landed>>

Unsettled == {r \in Results : outcome[r] = "none"}

(* Step 2: the next failing result without an outcome.                     *)
NextResult ==
    /\ pc = "next"
    /\ IF Unsettled = {} THEN pc' = "done" /\ cur' = 0
       ELSE /\ pc' = IF mode = "advisory" THEN "advise" ELSE "open"
            /\ cur' = Min(Unsettled)
    /\ attempt' = 0 /\ before' = total
    /\ edits' = NoEdits
    /\ UNCHANGED <<clientVars, mode, tree, outcome, reported, landed>>

Settle(kind, cost) ==
    /\ outcome' = [outcome EXCEPT ![cur] = kind]
    /\ reported' = reported + cost
    /\ pc' = "next"

(* The part of a request before its first invocation: the breaker, the     *)
(* token and the limit, in this order.                                     *)
Admitted ==
    /\ should_allow(breaker)
    /\ total < CostLimit

Admit ==
    /\ limiter' = Acquired(limiter)
    /\ breaker' = Aged(AfterAllow(breaker), AcquireWait(limiter))
    /\ UNCHANGED <<total, whileOpen>>

-----------------------------------------------------------------------------
(* Mutant: an open breaker leaves the result as it is.                     *)
AdviceRefusedSilently ==
    /\ pc = "advise" /\ attempt = 0 /\ ~should_allow(breaker)
    /\ pc' = "next"
    /\ UNCHANGED <<clientVars, mode, cur, attempt, before, edits, tree, outcome,
                   reported, landed>>

(* execute_with_resilience.  An open breaker gives the fallback advice, a  *)
(* spent limit a failure that cost nothing.                                *)
AdviceRefused ==
    /\ pc = "advise" /\ attempt = 0 /\ ~should_allow(breaker)
    /\ Settle("advised", 0)
    /\ UNCHANGED <<clientVars, mode, cur, attempt, before, edits, tree, landed>>

AdviceOverLimit ==
    /\ pc = "advise" /\ attempt = 0 /\ should_allow(breaker) /\ total >= CostLimit
    /\ Admit
    /\ Settle("failed", 0)
    /\ UNCHANGED <<mode, cur, attempt, before, edits, tree, landed>>

AdviceAdmitted ==
    /\ pc = "advise" /\ attempt = 0 /\ Admitted
    /\ Admit
    /\ attempt' = 1
    /\ UNCHANGED <<mode, pc, cur, before, edits, tree, outcome, reported, landed>>

(* The verdicts that end the retry loop.                                   *)
FinalVerdicts == {"Ok", "CapReached"}

(* The verdicts the breaker counts.                                        *)
BreakerVerdicts == {"ClaudeUnavailable", "SpawnError", "Timeout", "ApiError"}

(* Mutant: attempts are counted from one too many.                         *)
LastAttemptLate == attempt > MaxRetries

LastAttempt == attempt = MaxRetries

(* One invocation of the retry loop, the backoff before it included.       *)
AdviceInvocation(verdict, cost, d) ==
    /\ pc = "advise" /\ attempt > 0
    /\ Invoke(verdict, cost, limiter, d)
    /\ BreakerAfter(breaker,
                    CASE verdict = "Ok" -> record_success(breaker)
                      [] verdict \in BreakerVerdicts -> record_failure(breaker)
                      [] OTHER -> breaker, d)
    /\ CASE verdict = "Ok" -> Settle("advised", cost) /\ UNCHANGED attempt
         [] verdict # "Ok" /\ verdict \in FinalVerdicts ->
              Settle("failed", total' - before) /\ UNCHANGED attempt
         [] verdict \notin FinalVerdicts /\ LastAttempt ->
              Settle("advised", 0) /\ UNCHANGED attempt
         [] OTHER -> /\ attempt' = attempt + 1
                     /\ UNCHANGED <<pc, outcome, reported>>
    /\ UNCHANGED <<mode, cur, before, edits, tree, landed>>

-----------------------------------------------------------------------------
(* open_worktree: a fresh branch from HEAD, or the session fails unopened. *)
OpenWorktree ==
    /\ pc = "open"
    /\ \/ /\ tree' = [NoTree EXCEPT !.worktree = TRUE, !.branch = TRUE]
          /\ pc' = "session" /\ attempt' = 1
          /\ UNCHANGED <<outcome, reported>>
       \/ /\ tree' = NoTree /\ Settle("failed", 0) /\ UNCHANGED attempt
    /\ UNCHANGED <<clientVars, mode, cur, before, edits, landed>>

(* discard_worktree: both git calls are best effort, and git keeps a       *)
(* branch that is still checked out in a worktree.                         *)
discard_worktree ==
    \E removed, deleted \in BOOLEAN :
        tree' = [tree EXCEPT !.worktree = ~removed,
                             !.branch = ~(removed /\ deleted),
                             !.stuck = ~(removed /\ deleted)]

(* Mutant: a rejected session is reported, not cleaned up.                 *)
FailWithoutDiscard(spent) ==
    /\ Settle("failed", spent)
    /\ UNCHANGED tree

(* Mutant: a rejected session is reported to have cost nothing.            *)
FailAtNoCost(spent) ==
    /\ discard_worktree
    /\ Settle("failed", 0)

(* The fail closure of remediate_with_claude.                              *)
Fail(spent) ==
    /\ discard_worktree
    /\ Settle("failed", spent)

(* execute_edit_session, refused.                                          *)
SessionRefused ==
    /\ pc = "session" /\ ~Admitted
    /\ IF should_allow(breaker) THEN Admit ELSE UNCHANGED clientVars
    /\ Fail(total - before)
    /\ UNCHANGED <<mode, cur, attempt, before, edits, landed>>

(* execute_edit_session: one invocation, no retries.  The breaker does not *)
(* hear of a timeout or a failed spawn; any error ends the session.        *)
EditInvocation(verdict, cost, d) ==
    /\ pc = "session" /\ Admitted
    /\ Invoke(verdict, cost, Acquired(limiter), d)
    /\ BreakerAfter(AfterAllow(breaker),
                    CASE verdict = "Ok" -> record_success(AfterAllow(breaker))
                      [] verdict \in {"ClaudeUnavailable", "ApiError"} ->
                           record_failure(AfterAllow(breaker))
                      [] OTHER -> AfterAllow(breaker), d)
    /\ IF verdict = "Ok"
       THEN pc' = "scan" /\ edits' \in Sessions /\ UNCHANGED <<tree, outcome, reported>>
       ELSE Fail(total' - before) /\ UNCHANGED edits
    /\ UNCHANGED <<mode, cur, attempt, before, landed>>

Gate(from, passes, to) ==
    /\ pc = from
    /\ IF passes THEN pc' = to /\ UNCHANGED <<tree, outcome, reported>> ELSE Fail(total - before)
    /\ UNCHANGED <<clientVars, mode, cur, attempt, before, edits, landed>>

(* annotate_risks: no High or Critical command in the transcript.          *)
ScanTranscript == Gate("scan", ~edits.risky, "policy")

(* path_allowed, known_installers_block and hunks_within: checksums.yaml,  *)
(* the KNOWN_INSTALLERS block and the generated scripts, nothing elsewhere. *)
AllowedAreas == {"pins"}

(* check_policy: something changed, and nothing outside the policy; or git *)
(* could not tell, which fails the session too.                            *)
CheckPolicy ==
    \E git_ok \in BOOLEAN :
       Gate("policy", git_ok /\ edits.touched # {} /\ edits.touched \subseteq AllowedAreas,
            "verify")

(* Mutant: the last attempt's edits are committed untested.                *)
VerifyAllButLast ==
    /\ pc = "verify"
    /\ IF edits.works \/ attempt >= Greater(MaxAttempts, 1)
       THEN pc' = "commit" /\ UNCHANGED <<attempt, tree, outcome, reported>>
       ELSE pc' = "session" /\ attempt' = attempt + 1
            /\ UNCHANGED <<tree, outcome, reported>>
    /\ UNCHANGED <<clientVars, mode, cur, before, edits, landed>>

(* verify_in_worktree: the installer is run against the worktree's pins; a *)
(* run that cannot be made counts as a failed one.  Then another session.  *)
VerifyInWorktree ==
    /\ pc = "verify"
    /\ \/ /\ edits.works
          /\ pc' = "commit" /\ UNCHANGED <<attempt, tree, outcome, reported>>
       \/ IF attempt < Greater(MaxAttempts, 1)
          THEN /\ pc' = "session" /\ attempt' = attempt + 1
               /\ UNCHANGED <<tree, outcome, reported>>
          ELSE Fail(total - before) /\ UNCHANGED attempt
    /\ UNCHANGED <<clientVars, mode, cur, before, edits, landed>>

CommitWorktree ==
    /\ pc = "commit"
    /\ \/ /\ pc' = IF mode = "apply" THEN "push" ELSE "pr"
          /\ landed' = edits
          /\ UNCHANGED <<tree, outcome, reported>>
       \/ Fail(total - before) /\ UNCHANGED landed
    /\ UNCHANGED <<clientVars, mode, cur, attempt, before, edits>>

(* A push that fails is a failure that keeps the committed branch.         *)
PushBranch ==
    /\ pc = "push"
    /\ \/ /\ tree' = [tree EXCEPT !.pushed = TRUE] /\ pc' = "pr"
          /\ UNCHANGED <<outcome, reported>>
       \/ /\ tree' = [tree EXCEPT !.stuck = TRUE]
          /\ Settle("failed", total - before)
    /\ UNCHANGED <<clientVars, mode, cur, attempt, before, edits, landed>>

(* open_pr, when asked for, changes neither the branch nor the outcome.    *)
OpenPr ==
    /\ pc = "pr"
    /\ Settle(IF mode = "apply" THEN "applied" ELSE "proposed", total - before)
    /\ UNCHANGED <<clientVars, mode, cur, attempt, before, edits, tree, landed>>

-----------------------------------------------------------------------------
Done == pc = "done" /\ UNCHANGED vars

Durations == {0, 1, BreakerTimeout}

Next ==
    \/ SettleDrift \/ NextResult
    \/ AdviceRefused \/ AdviceOverLimit \/ AdviceAdmitted
    \/ \E v \in Verdicts : \E cost \in Costs(v), d \in Durations :
          AdviceInvocation(v, cost, d)
    \/ OpenWorktree \/ SessionRefused
    \/ \E v \in Verdicts : \E cost \in Costs(v), d \in Durations :
          EditInvocation(v, cost, d)
    \/ ScanTranscript \/ CheckPolicy \/ VerifyInWorktree
    \/ CommitWorktree \/ PushBranch \/ OpenPr
    \/ Done

Spec == Init /\ [][Next]_vars /\ WF_vars(Next)

-----------------------------------------------------------------------------
(* Nothing is on a session's branch that touches an area outside the       *)
(* policy, that changes nothing, that came with a risky transcript or that *)
(* the installer does not pass with, whatever the earlier attempts of the  *)
(* session left in the worktree (propose.rs:6-16).                         *)
OnlyVerifiedLands ==
    /\ pc \in {"push", "pr"} => landed = edits
    /\ landed # NoEdits => /\ landed.works /\ ~landed.risky
                           /\ landed.touched # {}
                           /\ landed.touched \subseteq AllowedAreas

(* propose.rs:3-4 "a rejected session leaves nothing behind (worktree and  *)
(* branch are discarded)": unless git itself refused to remove them or the *)
(* push of a verified commit failed.                                       *)
RejectedLeavesNothing ==
    pc = "next" /\ cur # 0 /\ mode # "advisory"
        /\ outcome[cur] = "failed" /\ ~tree.stuck
    => ~tree.worktree /\ ~tree.branch

(* The costs on the outcomes never exceed what the client accounted, and   *)
(* for edit sessions they add up to it, errors and caps included           *)
(* (propose.rs:248-251, main.rs:1000-1003).                                *)
CostsAddUp ==
    pc \in {"next", "done"} =>
        /\ reported <= total
        /\ mode # "advisory" => reported = total

(* Every failing result ends with an outcome (main.rs:787 "Attach a        *)
(* `RemediationOutcome` to every failing result").                         *)
EveryFailureSettled == <>(pc = "done" /\ Unsettled = {})
=============================================================================
