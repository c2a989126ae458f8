------------------------------- MODULE Notifier -------------------------------
(***************************************************************************)
(* The notification sender (reporting/notify.rs): for one notification,    *)
(* look up the open rolling issue, then comment on it, create it, or       *)
(* comment and close it, one HTTP request per step; then Slack, whatever   *)
(* GitHub answered.  A request is answered, refused (nothing happened, the *)
(* sender gets an error) or its reply is lost (it happened, the sender     *)
(* still gets an error).  A listing that succeeds but whose body is cut    *)
(* off reads as an empty list: text() and from_str both fall back to their *)
(* defaults (notify.rs:254, 258).                                          *)
(*                                                                         *)
(* The GitHub side is the set of open issues with the label and the title. *)
(***************************************************************************)
EXTENDS Integers, FiniteSets, FiniteSetsExt

CONSTANTS Senders,    \* processes that may be sending
          MaxIssues   \* bound: issues created in one behaviour

ASSUME IssuesAssumption == MaxIssues \in Nat

VARIABLES open,      \* numbers of the open rolling issues
          created,   \* issues created so far
          send,      \* what each sender is doing
          config,    \* [notifications.github]
          cut        \* a listing was cut off at some time

notifierVars == <<open, created, send, config, cut>>

Issues == 1..MaxIssues
NoIssue == 0
Configs == [token : {TRUE}, create_issues : BOOLEAN, add_comments : BOOLEAN]
           \cup [token : {FALSE}, create_issues : {TRUE}, add_comments : {TRUE}]
SendPc == {"idle", "find", "comment", "create", "close", "slack", "sent"}
GithubOutcomes == {"none", "unconfigured", "skipped", "commented", "created",
                   "closed", "failed"}

NotifierTypeOK ==
    /\ open \in SUBSET Issues
    /\ created \in 0..MaxIssues
    /\ send \in [Senders -> [pc : SendPc, is_failure : BOOLEAN,
                             issue : {NoIssue} \cup Issues,
                             github : GithubOutcomes]]
    /\ config \in Configs
    /\ cut \in BOOLEAN

Idle == [pc |-> "idle", is_failure |-> FALSE, issue |-> NoIssue, github |-> "none"]

NotifierInit ==
    /\ open = {} /\ created = 0 /\ cut = FALSE
    /\ send = [s \in Senders |-> Idle]
    /\ config \in Configs

Sending(s) == send[s].pc \notin {"idle", "sent"}

-----------------------------------------------------------------------------
(* send: without a token (or with a malformed repo) GitHub is passed over. *)
Begin(s, is_failure) ==
    /\ send' = [send EXCEPT ![s] =
                  [Idle EXCEPT !.is_failure = is_failure,
                               !.pc = IF config.token THEN "find" ELSE "slack",
                               !.github = IF config.token THEN "none"
                                          ELSE "unconfigured"]]
    /\ UNCHANGED <<open, created, config, cut>>

Request(s, pc) == send[s].pc = pc

(* The GitHub half ends with an outcome; Slack comes next in any case.     *)
GithubDone(s, outcome) ==
    send' = [send EXCEPT ![s].pc = "slack", ![s].github = outcome]

(* Any refused or unreadable request ends the GitHub half.                 *)
Refused(s) ==
    /\ send[s].pc \in {"find", "comment", "create", "close"}
    /\ GithubDone(s, "failed")
    /\ UNCHANGED <<open, created, config, cut>>

(* Mutant: the open issue is not looked up.                                *)
FoundIssueNever(s, existing) ==
    IF send[s].is_failure /\ config.create_issues
    THEN send' = [send EXCEPT ![s].pc = "create"]
    ELSE GithubDone(s, "skipped")

(* github: what the looked-up issue and the notification lead to.          *)
FoundIssue(s, existing) ==
    LET wanted == CASE send[s].is_failure /\ existing # NoIssue
                         -> config.add_comments
                    [] send[s].is_failure -> config.create_issues
                    [] OTHER -> existing # NoIssue
    IN  IF ~wanted THEN GithubDone(s, "skipped")
        ELSE send' = [send EXCEPT ![s].issue = existing,
                                  ![s].pc = IF existing = NoIssue THEN "create"
                                            ELSE "comment"]

(* find_open_issue: the newest open issue with the label and the title.    *)
FindIssue(s) ==
    /\ Request(s, "find")
    /\ FoundIssue(s, IF open = {} THEN NoIssue ELSE Max(open))
    /\ UNCHANGED <<open, created, config, cut>>

(* A 200 whose body cannot be read or parsed: an empty list.               *)
FindIssueCutOff(s) ==
    /\ Request(s, "find")
    /\ FoundIssue(s, NoIssue)
    /\ cut' = TRUE
    /\ UNCHANGED <<open, created, config>>

(* create_issue; a lost reply leaves the issue but reports a failure.      *)
CreateIssue(s, lost) ==
    /\ Request(s, "create")
    /\ created < MaxIssues
    /\ created' = created + 1
    /\ open' = open \cup {created + 1}
    /\ GithubDone(s, IF lost THEN "failed" ELSE "created")
    /\ UNCHANGED <<config, cut>>

(* post_comment; after a clean run the issue is closed next.               *)
PostComment(s) ==
    /\ Request(s, "comment")
    /\ IF send[s].is_failure THEN GithubDone(s, "commented")
       ELSE send' = [send EXCEPT ![s].pc = "close"]
    /\ UNCHANGED <<open, created, config, cut>>

(* close_issue.                                                            *)
CloseIssue(s, lost) ==
    /\ Request(s, "close")
    /\ open' = open \ {send[s].issue}
    /\ GithubDone(s, IF lost THEN "failed" ELSE "closed")
    /\ UNCHANGED <<created, config, cut>>

(* slack: posted, skipped, unconfigured or failed; send returns Ok anyway. *)
Slack(s) ==
    /\ Request(s, "slack")
    /\ send' = [send EXCEPT ![s].pc = "sent"]
    /\ UNCHANGED <<open, created, config, cut>>

(* The caller has taken the outcome, or its process is gone.               *)
EndSend(s) ==
    /\ send' = [send EXCEPT ![s] = Idle]
    /\ UNCHANGED <<open, created, config, cut>>

SenderStep(s) ==
    \/ FindIssue(s) \/ FindIssueCutOff(s) \/ PostComment(s) \/ Slack(s)
    \/ Refused(s)
    \/ \E lost \in BOOLEAN : CreateIssue(s, lost) \/ CloseIssue(s, lost)

(* notify.rs:3 "one rolling issue per repo".                               *)
OneRollingIssue == Cardinality(open) <= 1
=============================================================================
