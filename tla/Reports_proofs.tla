---------------------------- MODULE Reports_proofs ----------------------------
(***************************************************************************)
(* How a run is made known, for any number of runs, installers, failure    *)
(* categories, issues and any retention: what the results directory says   *)
(* is what the runs found, at most one rolling issue is open, and it tells *)
(* the state of the newest run or that run's failing set is owed, with     *)
(* either process killed anywhere and any request refused or its reply     *)
(* lost.                                                                   *)
(***************************************************************************)
EXTENDS Reports, WellFoundedInduction, FiniteSetTheorems, TLAPS

(* A results file is there as a whole or not at all.                       *)
WholeFiles == \A r \in Runs : final[r] \in {NoFile, WholeFile}

(* The files are those of runs up to the current one, whose own file is    *)
(* there from the rename on and is never pruned by itself; nor, with a     *)
(* retention of two or more, is its older neighbour.                       *)
FilesInOrder ==
    /\ \A r \in result_files : r <= run
    /\ pc # "idle" => run \in Runs
    /\ pc \in {"create", "write"} => run \notin result_files
    /\ pc \in {"prune", "pruning", "sending"} => run \in result_files
    /\ pc # "pruning" => doomed = {}
    /\ run \notin doomed
    /\ Keep # 1 /\ result_files \ {run} # {} =>
          Max(result_files \ {run}) \notin doomed

(* Who sends: a check while it announces, `notify' while it has a job, and *)
(* unless they have overlapped not both.                                   *)
Discipline ==
    /\ \A s \in Senders \ {Check, Notify} : send[s].pc = "idle"
    /\ send[Check].pc # "idle" => pc = "sending"
    /\ send[Notify].pc # "idle" => job # NoJob
    /\ ~overlap => pc = "idle" \/ job = NoJob
    /\ pc = "queueing" => mode = "daily_digest"

AtMostOne == \A a, b \in open : a = b

(* What a sender knows of the rolling issue at each request, as long as    *)
(* nobody else is sending and its listing was complete.                    *)
Stage(s) ==
    /\ send[s].pc = "create" => open = {} /\ send[s].is_failure
    /\ send[s].pc \in {"comment", "close"} => send[s].issue \in open
    /\ send[s].pc = "close" => ~ send[s].is_failure
    /\ /\ send[s].pc \in {"slack", "sent"} /\ send[s].github # "failed"
       /\ config.token /\ config.create_issues
       => (open # {} <=> send[s].is_failure)

Stages == Undisturbed => AtMostOne /\ Stage(Check) /\ Stage(Notify)

(* A notification says of its run what the run's file says.                *)
Messages ==
    /\ pc = "sending" => (send[Check].is_failure <=> failing_set(run) # {})
    /\ ~overlap /\ job # NoJob /\ job.run \in result_files =>
          (send[Notify].is_failure <=> failing_set(job.run) # {})

(* The files whose newest run the rolling issue speaks of: not yet the     *)
(* file of the run that is in its epilogue.                                *)
Announced == IF pc = "idle" THEN result_files ELSE result_files \ {run}

Followed == Undisturbed /\ mode # "daily_digest" /\ Keep # 1 /\ IssuesWanted

(* What is being sent, if anything, tells GitHub nothing new.              *)
Steady ==
    /\ pc = "sending" => Unchanged(run)
    /\ job # NoJob => job.run = latest

(* The issue tells the state of this run, or its failing set is owed.      *)
Told(r) == IF owed = {} THEN open # {} <=> failing_set(r) # {}
           ELSE failing_set(r) \in owed

Tracks == Followed /\ Steady /\ Announced # {} => Told(Max(Announced))

ReportsInv ==
    /\ ReportsTypeOK /\ WholeFiles /\ FilesInOrder /\ Discipline /\ Stages
    /\ Messages /\ Tracks

-----------------------------------------------------------------------------
(* Facts about the maximum.                                                *)

(* A nonempty set of run or issue numbers has a greatest one.              *)
LEMMA MaxIs ==
    ASSUME NEW N \in Nat, NEW S \in SUBSET (1..N), S # {}
    PROVE  Max(S) \in S /\ \A y \in S : y <= Max(S)
<1> DEFINE R == {ss \in Nat \X Nat : ss[1] < ss[2]}
           D == {N - x : x \in S}
<1>1. IsWellFoundedOn(R, Nat)
  BY NatLessThanWellFounded DEF OpToRel
<1>2. D \subseteq Nat /\ D # {}
  <2>1. \A x \in S : N - x \in Nat
    OBVIOUS
  <2> QED
    BY <2>1
<1>3. PICK d \in D : \A e \in D : ~ (<<e, d>> \in R)
  <2> HIDE DEF R, D
  <2> QED
    BY <1>1, <1>2, WFMin
<1>4. PICK x \in S : d = N - x
  OBVIOUS
<1>5. ASSUME NEW y \in S PROVE x >= y
  <2>1. x \in 1..N /\ y \in 1..N /\ N - y \in D /\ N - y \in Nat /\ d \in Nat
    BY <1>2
  <2>2. N - y < d => <<N - y, d>> \in R
    BY <2>1
  <2>3. ~ (N - y < d)
    BY <1>3, <2>1, <2>2
  <2> QED
    BY <1>4, <2>1, <2>3
<1>6. \E z \in S : \A y \in S : z >= y
  BY <1>5
<1>7. Max(S) \in S /\ \A y \in S : Max(S) >= y
  BY <1>6 DEF Max
<1>8. S \subseteq Int
  OBVIOUS
<1> QED
  BY <1>7, <1>8

(* There is only one greatest number.                                      *)
LEMMA MaxOnly ==
    ASSUME NEW N \in Nat, NEW S \in SUBSET (1..N), NEW m \in S,
           \A y \in S : y <= m
    PROVE  Max(S) = m
<1>1. Max(S) \in S /\ m <= Max(S)
  BY MaxIs
<1>2. PICK x \in S : x = Max(S)
  BY <1>1
<1>3. x \in 1..N /\ m \in 1..N /\ m <= x /\ x <= m
  BY <1>1, <1>2
<1>4. x = m
  BY <1>3
<1> QED
  BY <1>2, <1>4

(* Taking away another number than the greatest leaves that one greatest.  *)
LEMMA MaxStays ==
    ASSUME NEW N \in Nat, NEW S \in SUBSET (1..N), NEW r, S # {}, r # Max(S)
    PROVE  S \ {r} # {} /\ Max(S \ {r}) = Max(S)
<1>1. Max(S) \in S \ {r} /\ \A y \in S \ {r} : y <= Max(S)
  BY MaxIs
<1> QED
  BY <1>1, MaxOnly

-----------------------------------------------------------------------------
(* The results directory.                                                  *)

LEMMA StoreFacts ==
    /\ MaxRuns \in Nat /\ Runs = 1..MaxRuns
    /\ WholeFile \in Nat /\ WholeFile >= 3 /\ NoFile # WholeFile
    /\ NoFile \in NoFile..WholeFile /\ WholeFile \in NoFile..WholeFile
    /\ NoFile \in Int /\ NoFile < 0
BY StoreAssumption DEF Runs, WholeFile, NoFile

(* What a run's file says is a matter of that file and of that run.        *)
LEMMA SameFile ==
    ASSUME NEW r \in Runs, results'[r] = results[r], final'[r] = final[r]
    PROVE  /\ failing_set(r)' = failing_set(r)
           /\ (r \in result_files)' <=> r \in result_files
BY DEF failing_set, Loaded, read_run_file, Failing, result_files

LEMMA SameStore ==
    ASSUME UNCHANGED <<results, final>>
    PROVE  /\ result_files' = result_files
           /\ \A r \in Runs : failing_set(r)' = failing_set(r)
BY DEF failing_set, Loaded, read_run_file, Failing, result_files

(* With whole files only, every run that has one can be found.             *)
LEMMA WholeIsFound ==
    ASSUME WholeFiles, NEW r \in result_files
    PROVE  Found(r) /\ final[r] = WholeFile /\ r \in Runs
<1>1. r \in Runs /\ final[r] = WholeFile
  BY DEF WholeFiles, result_files
<1>2. Loaded(r).header
  <2>1. Loaded(r).header = (final[r] >= 1)
    BY DEF Loaded, read_run_file
  <2>2. final[r] >= 1
    BY <1>1, StoreFacts
  <2> QED
    BY <2>1, <2>2, Zenon
<1> QED
  BY <1>1, <1>2 DEF Found, HasId

(* The files before the run at hand are the ones History::previous sees.   *)
LEMMA OlderFiles ==
    ASSUME ReportsTypeOK, FilesInOrder
    PROVE  /\ result_files \in SUBSET (1..MaxRuns)
           /\ Older(run) = result_files \ {run}
           /\ run \in result_files => latest = run
           /\ result_files # {} => latest \in result_files
<1>1. result_files \in SUBSET (1..MaxRuns) /\ run \in Nat
  BY StoreFacts DEF result_files, ReportsTypeOK
<1>2. \A r \in result_files : r <= run /\ r \in Nat
  BY <1>1 DEF FilesInOrder
<1>3. Older(run) = result_files \ {run}
  <2>1. \A r \in result_files : r < run <=> r # run
    BY <1>1, <1>2
  <2> QED
    BY <2>1 DEF Older
<1>4. run \in result_files => latest = run
  BY <1>1, <1>2, MaxOnly, StoreFacts DEF latest
<1>5. result_files # {} => latest \in result_files
  BY <1>1, MaxIs, StoreFacts DEF latest
<1> QED
  BY <1>1, <1>3, <1>4, <1>5

-----------------------------------------------------------------------------
(* The sender.                                                             *)

SendRecords == [pc : SendPc, is_failure : BOOLEAN,
                issue : {NoIssue} \cup Issues, github : GithubOutcomes]

(* A step of a sender is between two requests of that sender; it leaves    *)
(* the others, the configuration and its own message alone.                *)
LEMMA SenderMoves ==
    ASSUME NEW s \in Senders, NotifierTypeOK, SenderStep(s)
    PROVE  /\ send[s].pc # "idle" /\ send'[s].pc # "idle"
           /\ send'[s] \in SendRecords
           /\ send' = [send EXCEPT ![s] = send'[s]]
           /\ send'[s].is_failure = send[s].is_failure
           /\ config' = config /\ (cut => cut')
<1> USE DEF SendRecords
<1>1. s \in DOMAIN send /\ send[s] \in SendRecords
  BY DEF NotifierTypeOK
<1>2. ASSUME NEW outcome \in GithubOutcomes, GithubDone(s, outcome)
      PROVE  /\ send'[s].pc = "slack" /\ send'[s] \in SendRecords
             /\ send' = [send EXCEPT ![s] = send'[s]]
             /\ send'[s].is_failure = send[s].is_failure
  BY <1>1, <1>2 DEF GithubDone, SendPc, NotifierTypeOK
<1>3. ASSUME NEW e \in {NoIssue} \cup Issues, FoundIssue(s, e)
      PROVE  /\ send'[s].pc # "idle" /\ send'[s] \in SendRecords
             /\ send' = [send EXCEPT ![s] = send'[s]]
             /\ send'[s].is_failure = send[s].is_failure
  <2>1. CASE GithubDone(s, "skipped")
    BY <1>2, <2>1 DEF GithubOutcomes
  <2>2. CASE send' = [send EXCEPT ![s].issue = e,
                         ![s].pc = IF e = NoIssue THEN "create" ELSE "comment"]
    BY <1>1, <2>2 DEF SendPc, NotifierTypeOK
  <2> QED
    BY <1>3, <2>1, <2>2 DEF FoundIssue
<1>4. open # {} => Max(open) \in Issues
  BY MaxIs, IssuesAssumption DEF NotifierTypeOK, Issues
<1>5. CASE FindIssue(s)
  BY <1>3, <1>4, <1>5 DEF FindIssue, Request
<1>6. CASE FindIssueCutOff(s)
  BY <1>3, <1>6 DEF FindIssueCutOff, Request
<1>7. CASE PostComment(s)
  <2>1. CASE GithubDone(s, "commented")
    BY <1>2, <1>7, <2>1 DEF PostComment, Request, GithubOutcomes
  <2>2. CASE send' = [send EXCEPT ![s].pc = "close"]
    BY <1>1, <1>7, <2>2 DEF PostComment, Request, SendPc, NotifierTypeOK
  <2> QED
    BY <1>7, <2>1, <2>2 DEF PostComment
<1>8. CASE Slack(s)
  BY <1>1, <1>8 DEF Slack, Request, SendPc, NotifierTypeOK
<1>9. CASE Refused(s)
  BY <1>2, <1>9 DEF Refused, GithubOutcomes
<1>10. ASSUME NEW l \in BOOLEAN, CreateIssue(s, l) \/ CloseIssue(s, l)
       PROVE  /\ send[s].pc # "idle" /\ send'[s].pc # "idle"
              /\ send'[s] \in SendRecords
              /\ send' = [send EXCEPT ![s] = send'[s]]
              /\ send'[s].is_failure = send[s].is_failure
              /\ config' = config /\ (cut => cut')
  <2>1. send[s].pc \in {"create", "close"} /\ config' = config /\ cut' = cut
    BY <1>10 DEF CreateIssue, CloseIssue, Request
  <2>2. \E o \in GithubOutcomes : GithubDone(s, o)
    BY <1>10 DEF CreateIssue, CloseIssue, GithubOutcomes
  <2> QED
    BY <1>2, <2>1, <2>2
<1> QED
  BY <1>5, <1>6, <1>7, <1>8, <1>9, <1>10 DEF SenderStep

(* The issues stay within the bound.                                       *)
LEMMA SenderTypes ==
    ASSUME NEW s \in Senders, NotifierTypeOK, SenderStep(s)
    PROVE  NotifierTypeOK'
<1>1. /\ send'[s] \in SendRecords /\ send' = [send EXCEPT ![s] = send'[s]]
      /\ config' = config
  BY SenderMoves
<1>2. send' \in [Senders -> SendRecords]
  BY <1>1 DEF NotifierTypeOK, SendRecords
<1>3. cut' \in BOOLEAN
  BY DEF SenderStep, FindIssue, FindIssueCutOff, PostComment, Slack, Refused,
         CreateIssue, CloseIssue, NotifierTypeOK
<1>4. open' \in SUBSET Issues /\ created' \in 0..MaxIssues
  <2>1. CASE UNCHANGED <<open, created>>
    BY <2>1 DEF NotifierTypeOK
  <2>2. CASE \E l \in BOOLEAN : CreateIssue(s, l)
    <3>1. /\ created \in 0..MaxIssues /\ open \in SUBSET (1..MaxIssues)
          /\ created < MaxIssues /\ created' = created + 1
          /\ open' = open \cup {created + 1}
      BY <2>2 DEF CreateIssue, NotifierTypeOK, Issues
    <3>2. created' \in 0..MaxIssues /\ created + 1 \in 1..MaxIssues
      BY <3>1, IssuesAssumption
    <3> QED
      BY <3>1, <3>2 DEF Issues
  <2>3. CASE \E l \in BOOLEAN : CloseIssue(s, l)
    BY <2>3 DEF CloseIssue, NotifierTypeOK
  <2> QED
    BY <2>1, <2>2, <2>3 DEF SenderStep, FindIssue, FindIssueCutOff,
                            PostComment, Slack, Refused
<1> QED
  BY <1>1, <1>2, <1>3, <1>4 DEF NotifierTypeOK, SendRecords

(* What a sender finds in a complete listing is the state of the issues.   *)
LEMMA FindTells ==
    ASSUME NEW s \in Senders, NotifierTypeOK, AtMostOne, FindIssue(s)
    PROVE  AtMostOne' /\ Stage(s)'
<1> DEFINE e == IF open = {} THEN NoIssue ELSE Max(open)
<1>1. /\ UNCHANGED <<open, config>> /\ FoundIssue(s, e)
      /\ s \in DOMAIN send /\ send[s] \in SendRecords
  BY DEF FindIssue, NotifierTypeOK, SendRecords
<1>2. (e = NoIssue <=> open = {}) /\ (open # {} => e \in open)
  <2>1. open # {} => Max(open) \in open
    BY MaxIs, IssuesAssumption DEF NotifierTypeOK, Issues
  <2>2. \A i \in open : i # NoIssue
    BY DEF NotifierTypeOK, Issues, NoIssue
  <2> QED
    BY <2>1, <2>2
<1> HIDE DEF e
<1>3. AtMostOne'
  BY <1>1 DEF AtMostOne
<1>4. ASSUME GithubDone(s, "skipped"),
             config.create_issues => (open # {} <=> send[s].is_failure)
      PROVE  Stage(s)'
  <2>1. send'[s].pc = "slack" /\ send'[s].is_failure = send[s].is_failure
    BY <1>1, <1>4 DEF GithubDone, SendRecords
  <2> QED
    BY <1>1, <1>4, <2>1 DEF Stage
<1>5. ASSUME send' = [send EXCEPT ![s].issue = e, ![s].pc = "comment"],
             open # {}
      PROVE  Stage(s)'
  <2>1. send'[s].pc = "comment" /\ send'[s].issue = e
    BY <1>1, <1>5 DEF SendRecords
  <2> QED
    BY <1>1, <1>2, <1>5, <2>1 DEF Stage
<1>6. CASE send[s].is_failure /\ open # {}
  <2>1. \/ GithubDone(s, "skipped")
        \/ send' = [send EXCEPT ![s].issue = e, ![s].pc = "comment"]
    BY <1>1, <1>2, <1>6 DEF FoundIssue
  <2> QED
    BY <1>3, <1>4, <1>5, <1>6, <2>1
<1>7. CASE send[s].is_failure /\ open = {}
  <2>1. \/ ~ config.create_issues /\ GithubDone(s, "skipped")
        \/ send' = [send EXCEPT ![s].issue = e, ![s].pc = "create"]
    BY <1>1, <1>2, <1>7 DEF FoundIssue
  <2>2. CASE send' = [send EXCEPT ![s].issue = e, ![s].pc = "create"]
    <3>1. send'[s].pc = "create" /\ send'[s].is_failure = send[s].is_failure
      BY <1>1, <2>2 DEF SendRecords
    <3> QED
      BY <1>1, <1>3, <1>7, <3>1 DEF Stage
  <2> QED
    BY <1>3, <1>4, <2>1, <2>2
<1>8. CASE ~ send[s].is_failure
  <2>1. \/ open = {} /\ GithubDone(s, "skipped")
        \/ /\ open # {}
           /\ send' = [send EXCEPT ![s].issue = e, ![s].pc = "comment"]
    BY <1>1, <1>2, <1>8 DEF FoundIssue
  <2> QED
    BY <1>3, <1>4, <1>5, <1>8, <2>1
<1> QED
  BY <1>6, <1>7, <1>8

(* With complete listings a sender that is alone keeps to one issue, and   *)
(* leaves it open exactly when its message is a failure.                   *)
LEMMA StageStep ==
    ASSUME NEW s \in Senders, NotifierTypeOK, AtMostOne, Stage(s),
           SenderStep(s), ~ cut'
    PROVE  AtMostOne' /\ Stage(s)'
<1>1. s \in DOMAIN send /\ send[s] \in SendRecords
  BY DEF NotifierTypeOK, SendRecords
<1>2. CASE FindIssue(s)
  BY <1>2, FindTells
<1>3. CASE FindIssueCutOff(s)
  BY <1>3 DEF FindIssueCutOff
<1>4. CASE PostComment(s)
  <2>1. send[s].pc = "comment" /\ send[s].issue \in open
        /\ UNCHANGED <<open, config>>
    BY <1>4 DEF PostComment, Request, Stage
  <2>2. CASE send[s].is_failure
    BY <1>1, <1>4, <2>1, <2>2
    DEF PostComment, Stage, AtMostOne, GithubDone, SendRecords
  <2>3. CASE ~ send[s].is_failure
    BY <1>1, <1>4, <2>1, <2>3
    DEF PostComment, Stage, AtMostOne, GithubDone, SendRecords
  <2> QED
    BY <2>2, <2>3
<1>5. CASE Slack(s)
  BY <1>1, <1>5 DEF Slack, Request, Stage, AtMostOne, SendRecords
<1>6. CASE Refused(s)
  BY <1>1, <1>6 DEF Refused, GithubDone, Stage, AtMostOne, SendRecords
<1>7. ASSUME NEW l \in BOOLEAN, CreateIssue(s, l) PROVE AtMostOne' /\ Stage(s)'
  <2>1. open = {} /\ send[s].is_failure /\ open' = {created + 1}
    BY <1>7 DEF CreateIssue, Request, Stage
  <2>2. send'[s].pc = "slack" /\ send'[s].is_failure
    BY <1>1, <1>7, <2>1 DEF CreateIssue, GithubDone, SendRecords
  <2> QED
    BY <2>1, <2>2 DEF Stage, AtMostOne
<1>8. ASSUME NEW l \in BOOLEAN, CloseIssue(s, l) PROVE AtMostOne' /\ Stage(s)'
  <2>1. /\ ~ send[s].is_failure /\ send[s].issue \in open
        /\ open' = open \ {send[s].issue}
    BY <1>8 DEF CloseIssue, Request, Stage
  <2>2. open' = {}
    BY <2>1 DEF AtMostOne
  <2>3. send'[s].pc = "slack" /\ ~ send'[s].is_failure
    BY <1>1, <1>8, <2>1 DEF CloseIssue, GithubDone, SendRecords
  <2> QED
    BY <2>2, <2>3 DEF Stage, AtMostOne
<1> QED
  BY <1>2, <1>3, <1>4, <1>5, <1>6, <1>7, <1>8 DEF SenderStep

(* A sender that is at rest knows nothing of the issues.                   *)
LEMMA IdleStage ==
    ASSUME NEW s, send[s].pc = "idle"
    PROVE  Stage(s)
BY DEF Stage

(* A sender that begins to send knows nothing of the issues either.        *)
LEMMA BeginSend ==
    ASSUME NEW s \in Senders, NEW f \in BOOLEAN, NotifierTypeOK, Begin(s, f)
    PROVE  /\ NotifierTypeOK' /\ Stage(s)'
           /\ send'[s].pc # "idle" /\ send'[s].is_failure = f
           /\ send' = [send EXCEPT ![s] = send'[s]]
           /\ UNCHANGED <<open, created, config, cut>>
<1>1. s \in DOMAIN send
  BY DEF NotifierTypeOK
<1>2. /\ send'[s] = [pc |-> IF config.token THEN "find" ELSE "slack",
                     is_failure |-> f, issue |-> NoIssue,
                     github |-> IF config.token THEN "none" ELSE "unconfigured"]
      /\ send' = [send EXCEPT ![s] = send'[s]]
      /\ UNCHANGED <<open, created, config, cut>>
  BY <1>1 DEF Begin, Idle
<1>3. send'[s] \in SendRecords
  BY <1>2 DEF SendRecords, SendPc, GithubOutcomes
<1>4. NotifierTypeOK'
  BY <1>2, <1>3 DEF NotifierTypeOK, SendRecords
<1>5. Stage(s)'
  BY <1>2 DEF Stage
<1> QED
  BY <1>2, <1>4, <1>5

LEMMA EndOfSend ==
    ASSUME NEW s \in Senders, NotifierTypeOK, EndSend(s)
    PROVE  /\ NotifierTypeOK' /\ Stage(s)'
           /\ send'[s].pc = "idle"
           /\ send' = [send EXCEPT ![s] = send'[s]]
           /\ UNCHANGED <<open, created, config, cut>>
<1>1. /\ s \in DOMAIN send /\ send'[s] = Idle
      /\ send' = [send EXCEPT ![s] = send'[s]]
      /\ UNCHANGED <<open, created, config, cut>>
  BY DEF NotifierTypeOK, EndSend
<1>2. Idle \in SendRecords /\ Idle.pc = "idle"
  BY DEF Idle, SendRecords, SendPc, GithubOutcomes
<1>3. NotifierTypeOK'
  BY <1>1, <1>2 DEF NotifierTypeOK, SendRecords
<1>4. Stage(s)'
  BY <1>1, <1>2 DEF Stage
<1> QED
  BY <1>1, <1>2, <1>3, <1>4

-----------------------------------------------------------------------------
(* Persisting and pruning: what each step does to the directory.           *)

StorePart ==
    /\ StoreTypeOK /\ pc \in CheckPc /\ run \in 0..MaxRuns
    /\ WholeFiles /\ FilesInOrder

(* Files that stay keep saying the same.                                   *)
FilesKept == \A r \in result_files' \cap result_files :
                 failing_set(r)' = failing_set(r)

LEMMA FilesAreRuns ==
    ASSUME StorePart
    PROVE  /\ result_files \in SUBSET Runs /\ result_files \in SUBSET (1..MaxRuns)
           /\ \A r \in result_files : r <= run /\ r \in Nat
           /\ run \in Nat
BY StoreFacts DEF result_files, StorePart, FilesInOrder

(* A new run: its results replace only what no file holds.                 *)
LEMMA StartKeeps ==
    ASSUME StorePart, NEW found \in [Installers -> Outcomes], StartRun(found)
    PROVE  StorePart' /\ FilesKept /\ result_files' = result_files
           /\ run' \notin result_files
<1>1. /\ pc = "idle" /\ run < MaxRuns /\ pc' = "create" /\ run' = run + 1
      /\ results' = [q \in Runs |-> IF q = run + 1 THEN found
                                    ELSE IF final[q] = NoFile THEN NoResults
                                    ELSE results[q]]
      /\ tmp' = NoFile /\ final' = final /\ doomed' = doomed
  BY DEF StartRun, NewResults
<1>2. run' \in 0..MaxRuns /\ run' \in Runs
  BY <1>1, StoreFacts DEF StorePart
<1>3. StoreTypeOK'
  <2>1. NoResults \in [Installers -> Outcomes]
    BY DEF NoResults, Outcomes
  <2>2. results' \in [Runs -> [Installers -> Outcomes]]
    BY <1>1, <2>1 DEF StorePart, StoreTypeOK
  <2> QED
    BY <1>1, <2>2, StoreFacts DEF StorePart, StoreTypeOK
<1>4. result_files' = result_files
  BY <1>1 DEF result_files
<1>5. \A r \in result_files : r \in Nat /\ r <= run /\ r # run'
  BY <1>1, FilesAreRuns
<1>6. FilesInOrder'
  <2>1. \A r \in result_files' : r <= run'
    BY <1>1, <1>4, <1>5, FilesAreRuns
  <2>2. doomed' = {}
    BY <1>1 DEF StorePart, FilesInOrder
  <2> QED
    BY <1>1, <1>2, <1>4, <1>5, <2>1, <2>2 DEF FilesInOrder
<1>7. FilesKept
  <2> SUFFICES ASSUME NEW r \in result_files PROVE failing_set(r)' = failing_set(r)
    BY DEF FilesKept
  <2>1. r \in Runs /\ final[r] # NoFile /\ r # run + 1
    BY <1>1, <1>5 DEF result_files
  <2> QED
    BY <1>1, <2>1, SameFile
<1>8. WholeFiles'
  BY <1>1 DEF WholeFiles, StorePart
<1> QED
  BY <1>1, <1>2, <1>3, <1>4, <1>5, <1>6, <1>7, <1>8 DEF StorePart, CheckPc

(* The directory is not touched; the check moves on.                       *)
LEMMA FilesStay ==
    ASSUME StorePart, UNCHANGED <<results, final, run>>,
           StoreTypeOK', pc' \in CheckPc, doomed' \in SUBSET doomed,
           pc' # "pruning" => doomed' = {},
           pc' # "idle" => pc # "idle",
           pc' \in {"create", "write"} => pc \in {"create", "write"},
           pc' \in {"prune", "pruning", "sending"} => run \in result_files
    PROVE  StorePart' /\ FilesKept /\ result_files' = result_files
<1>1. result_files' = result_files /\ FilesKept
  BY SameStore DEF FilesKept, result_files
<1>2. FilesInOrder'
  BY <1>1 DEF FilesInOrder, StorePart
<1> QED
  BY <1>1, <1>2 DEF StorePart, WholeFiles

(* The rename adds the run's own file, whole.                              *)
LEMMA RenameKeeps ==
    ASSUME StorePart, pc = "write", Rename(run), pc' = "prune", run' = run
    PROVE  StorePart' /\ FilesKept /\ result_files' = result_files \cup {run}
           /\ run \notin result_files
<1>1. /\ tmp = WholeFile /\ final' = [final EXCEPT ![run] = WholeFile]
      /\ tmp' = NoFile /\ results' = results /\ doomed' = doomed /\ doomed = {}
      /\ run \in Runs /\ run \notin result_files
  BY DEF Rename, StorePart, FilesInOrder
<1>2. \A r \in Runs : final'[r] = IF r = run THEN WholeFile ELSE final[r]
  BY <1>1 DEF StorePart, StoreTypeOK
<1>3. result_files' = result_files \cup {run}
  BY <1>1, <1>2, StoreFacts DEF result_files
<1>4. StoreTypeOK' /\ WholeFiles'
  BY <1>1, <1>2, StoreFacts DEF StorePart, StoreTypeOK, WholeFiles
<1>5. FilesInOrder'
  BY <1>1, <1>3, FilesAreRuns DEF FilesInOrder
<1>6. FilesKept
  <2> SUFFICES ASSUME NEW r \in result_files PROVE failing_set(r)' = failing_set(r)
    BY DEF FilesKept
  <2>1. r \in Runs /\ r # run
    BY <1>1 DEF result_files
  <2> QED
    BY <1>1, <1>2, <2>1, SameFile
<1> QED
  BY <1>1, <1>3, <1>4, <1>5, <1>6 DEF StorePart, CheckPc

(* prune never lists the run's own file, nor its older neighbour if two    *)
(* files or more are to be kept.                                           *)
LEMMA PlanKeeps ==
    ASSUME StorePart, pc = "prune", PlanPrune, pc' = "pruning", run' = run
    PROVE  StorePart' /\ FilesKept /\ result_files' = result_files
<1>1. /\ UNCHANGED <<results, tmp, final>> /\ run \in result_files /\ run \in Runs
      /\ doomed' = {r \in result_files : Keep # 0
                      /\ Cardinality({q \in result_files : q > r}) >= Keep}
  BY DEF PlanPrune, StorePart, FilesInOrder
<1>2. result_files' = result_files /\ FilesKept
  BY <1>1, SameStore DEF FilesKept, result_files
<1>3. run \notin doomed'
  <2>1. {q \in result_files : q > run} = {}
    BY FilesAreRuns
  <2>2. Cardinality({}) = 0
    BY FS_EmptySet
  <2>3. Keep \in Nat
    BY StoreAssumption
  <2> SUFFICES ASSUME Keep # 0, Cardinality({q \in result_files : q > run}) >= Keep
               PROVE  FALSE
    BY <1>1
  <2> QED
    BY <2>1, <2>2, <2>3
<1>4. ASSUME Keep # 1, result_files \ {run} # {}
      PROVE  Max(result_files \ {run}) \notin doomed'
  <2>1. PICK m : m = Max(result_files \ {run})
    OBVIOUS
  <2>2. m \in result_files /\ m # run /\ \A y \in result_files \ {run} : y <= m
    <3>1. result_files \ {run} \in SUBSET (1..MaxRuns) /\ MaxRuns \in Nat
      BY FilesAreRuns, StoreFacts
    <3>2. m \in result_files \ {run} /\ \A y \in result_files \ {run} : y <= m
      BY <1>4, <2>1, <3>1, MaxIs
    <3> QED
      BY <3>2
  <2>3. {q \in result_files : q > m} = {run}
    <3>1. m \in Nat /\ m <= run /\ run \in Nat /\ run > m
      BY <2>2, FilesAreRuns
    <3>2. \A y \in result_files \ {run} : ~ (y > m)
      BY <2>2, <3>1, FilesAreRuns
    <3> QED
      BY <1>1, <3>1, <3>2
  <2>4. Cardinality({run}) = 1
    BY FS_Singleton
  <2>5. Keep \in Nat
    BY StoreAssumption
  <2> SUFFICES ASSUME Keep # 0, Cardinality({q \in result_files : q > m}) >= Keep
               PROVE  FALSE
    BY <1>1, <2>1
  <2> QED
    BY <1>4, <2>3, <2>4, <2>5
<1>5. FilesInOrder'
  BY <1>1, <1>2, <1>3, <1>4 DEF FilesInOrder, StorePart
<1>6. StoreTypeOK' /\ WholeFiles'
  BY <1>1 DEF StorePart, StoreTypeOK, WholeFiles, result_files
<1> QED
  BY <1>2, <1>5, <1>6 DEF StorePart, CheckPc

(* Pruning takes away a file that is neither.                              *)
LEMMA PruneKeeps ==
    ASSUME StorePart, pc = "pruning", PruneOne, pc' = "pruning", run' = run
    PROVE  /\ StorePart' /\ FilesKept /\ run \in result_files'
           /\ Keep # 1 /\ result_files' \ {run} # {} =>
                 /\ result_files \ {run} # {}
                 /\ Max(result_files' \ {run}) = Max(result_files \ {run})
                 /\ Max(result_files \ {run}) \in result_files'
<1>1. PICK d : d = Max(doomed)
  OBVIOUS
<1>2. /\ d \in doomed /\ d \in Runs /\ d # run /\ run \in Runs
      /\ run \in result_files
  <2>1. doomed # {} /\ doomed \in SUBSET (1..MaxRuns)
    BY StoreFacts DEF PruneOne, StorePart, StoreTypeOK
  <2>2. d \in doomed
    BY <1>1, <2>1, MaxIs, StoreFacts
  <2> QED
    BY <2>1, <2>2, StoreFacts DEF StorePart, FilesInOrder
<1>3. /\ final' = [final EXCEPT ![d] = NoFile] /\ doomed' = doomed \ {d}
      /\ UNCHANGED <<results, tmp>>
  BY <1>1 DEF PruneOne
<1>4. \A r \in Runs : final'[r] = IF r = d THEN NoFile ELSE final[r]
  BY <1>3 DEF StorePart, StoreTypeOK
<1>5. result_files' = result_files \ {d}
  BY <1>4 DEF result_files
<1>6. StoreTypeOK' /\ WholeFiles'
  BY <1>2, <1>3, <1>4, StoreFacts DEF StorePart, StoreTypeOK, WholeFiles
<1>7. ASSUME Keep # 1, result_files' \ {run} # {}
      PROVE  /\ result_files \ {run} # {}
             /\ Max(result_files' \ {run}) = Max(result_files \ {run})
             /\ Max(result_files \ {run}) \in result_files'
             /\ Max(result_files' \ {run}) \notin doomed'
  <2>1. PICK S : S = result_files \ {run}
    OBVIOUS
  <2>2. S # {} /\ S \in SUBSET (1..MaxRuns) /\ result_files' \ {run} = S \ {d}
    BY <1>5, <1>7, <2>1, FilesAreRuns
  <2>3. Max(S) \notin doomed
    BY <1>7, <2>1, <2>2 DEF StorePart, FilesInOrder
  <2>4. Max(S \ {d}) = Max(S) /\ Max(S) \in S
    BY <1>2, <2>2, <2>3, MaxStays, MaxIs, StoreFacts
  <2>5. Max(S) # d
    BY <1>2, <2>3
  <2> QED
    BY <1>3, <1>5, <2>1, <2>2, <2>3, <2>4, <2>5
<1>8. FilesInOrder'
  BY <1>2, <1>3, <1>5, <1>7 DEF FilesInOrder, StorePart
<1>9. FilesKept
  <2> SUFFICES ASSUME NEW r \in result_files' PROVE failing_set(r)' = failing_set(r)
    BY DEF FilesKept
  <2>1. r \in Runs /\ r # d
    BY <1>5, FilesAreRuns
  <2> QED
    BY <1>3, <1>4, <2>1, SameFile
<1> QED
  BY <1>2, <1>5, <1>6, <1>7, <1>8, <1>9 DEF StorePart, CheckPc

-----------------------------------------------------------------------------
(* Every step keeps the invariant.  The checks' steps first.               *)

RestTypeOK ==
    /\ mode \in Modes
    /\ queue \in Seq(Lines)
    /\ job \in [kind : {"none", "run", "digest"}, run : 0..MaxRuns]
    /\ owed \in SUBSET FailingSets /\ overlap \in BOOLEAN

LEMMA InvParts ==
    ReportsInv <=> /\ StorePart /\ NotifierTypeOK /\ RestTypeOK /\ Discipline
                   /\ Stages /\ Messages /\ Tracks
BY DEF ReportsInv, StorePart, ReportsTypeOK, RestTypeOK

LEMMA InvPartsPrime ==
    ASSUME StorePart', NotifierTypeOK', RestTypeOK', Discipline', Stages',
           Messages', Tracks'
    PROVE  ReportsInv'
BY DEF ReportsInv, StorePart, ReportsTypeOK, RestTypeOK

(* A step of the check that sends nothing disturbs no sender.              *)
LEMMA NoSending ==
    ASSUME ReportsInv, UNCHANGED <<notifierVars, job>>,
           pc # "sending", pc' # "sending", overlap => overlap',
           ~overlap' => job = NoJob,
           pc' = "queueing" => mode' = "daily_digest"
    PROVE  NotifierTypeOK' /\ Discipline' /\ Stages' /\ Messages'
<1> USE DEF notifierVars
<1>1. NotifierTypeOK' /\ Stages'
  BY DEF ReportsInv, ReportsTypeOK, NotifierTypeOK, Stages, Stage, AtMostOne,
         Undisturbed
<1>2. Discipline'
  BY DEF ReportsInv, Discipline
<1>3. Messages'
  BY DEF Messages
<1> QED
  BY <1>1, <1>2, <1>3

(* The issue still speaks of the newest announced file.                    *)
LEMMA SameNews ==
    ASSUME ReportsInv, UNCHANGED <<notifierVars, job, mode, owed>>, FilesKept,
           ~overlap' => ~overlap /\ job = NoJob, pc # "sending",
           Announced' # {} => /\ Announced # {} /\ Max(Announced') = Max(Announced)
                              /\ Max(Announced) \in result_files'
                              /\ Max(Announced) \in result_files
    PROVE  Tracks'
<1> USE DEF notifierVars
<1> SUFFICES ASSUME Followed', Announced' # {} PROVE Told(Max(Announced))'
  BY DEF Tracks
<1>1. Followed /\ Steady
  BY DEF Followed, Undisturbed, Steady, IssuesWanted
<1>2. Told(Max(Announced))
  BY <1>1 DEF ReportsInv, Tracks
<1>3. PICK m : m = Max(Announced)
  OBVIOUS
<1>4. m = Max(Announced') /\ failing_set(m)' = failing_set(m)
  BY <1>3 DEF FilesKept
<1>5. Told(m)'
  BY <1>2, <1>3, <1>4 DEF Told
<1> QED
  BY <1>4, <1>5 DEF Told

LEMMA StartRunKeeps ==
    ASSUME ReportsInv, NEW found \in [Installers -> Outcomes], StartRun(found)
    PROVE  ReportsInv'
<1>1. StorePart /\ StorePart' /\ FilesKept /\ result_files' = result_files
      /\ run' \notin result_files
  BY InvParts, StartKeeps
<1>2. /\ pc = "idle" /\ pc' = "create" /\ overlap' = (overlap \/ job # NoJob)
      /\ UNCHANGED <<notifierVars, mode, queue, job, owed>>
  BY DEF StartRun
<1>3. NotifierTypeOK' /\ Discipline' /\ Stages' /\ Messages'
  BY <1>2, NoSending
<1>4. RestTypeOK'
  BY <1>2 DEF ReportsInv, ReportsTypeOK, RestTypeOK
<1>5. Tracks'
  <2>1. Announced' = result_files /\ Announced = result_files
    BY <1>1, <1>2 DEF Announced
  <2>2. result_files # {} => Max(result_files) \in result_files
    BY <1>1, FilesAreRuns, MaxIs, StoreFacts
  <2> QED
    BY <1>1, <1>2, <2>1, <2>2, SameNews
<1> QED
  BY <1>1, <1>3, <1>4, <1>5, InvPartsPrime

LEMMA PersistKeeps ==
    ASSUME ReportsInv, PersistStep
    PROVE  ReportsInv'
<1>1. /\ UNCHANGED <<notifierVars, run, mode, queue, job, owed, overlap>>
      /\ pc \in {"create", "write", "prune", "pruning"}
      /\ pc' \in {"write", "prune", "pruning", "notify"}
  BY DEF PersistStep
<1>2. NotifierTypeOK' /\ Discipline' /\ Stages' /\ Messages'
  BY <1>1, NoSending DEF ReportsInv, Discipline
<1>3. RestTypeOK'
  BY <1>1 DEF ReportsInv, ReportsTypeOK, RestTypeOK
<1>4. StorePart
  BY InvParts
<1>5. Announced = result_files \ {run} /\ Announced' = result_files' \ {run}
      /\ Announced \in SUBSET (1..MaxRuns)
  BY <1>1, <1>4, FilesAreRuns DEF Announced
<1>6. Announced # {} => Max(Announced) \in Announced
  BY <1>5, MaxIs, StoreFacts
<1>14. ~overlap' => ~overlap /\ job = NoJob
  BY <1>1 DEF ReportsInv, Discipline
<1>7. ASSUME StorePart', FilesKept, result_files' \ {run} = result_files \ {run}
      PROVE  ReportsInv'
  <2>1. Announced' # {} => /\ Announced # {} /\ Max(Announced') = Max(Announced)
                           /\ Max(Announced) \in result_files'
                           /\ Max(Announced) \in result_files
    BY <1>5, <1>6, <1>7
  <2>2. Tracks'
    BY <1>1, <1>7, <1>14, <2>1, SameNews
  <2> QED
    BY <1>2, <1>3, <1>7, <2>2, InvPartsPrime
<1>8. CASE pc = "create" /\ CreateTmp /\ pc' = "write"
  <2>1. UNCHANGED <<results, final, run, doomed>> /\ StoreTypeOK'
    BY <1>1, <1>4, <1>8, StoreFacts DEF CreateTmp, StorePart, StoreTypeOK
  <2>2. pc' \in CheckPc /\ doomed' = {}
    BY <1>4, <1>8, <2>1 DEF CheckPc, StorePart, FilesInOrder
  <2> QED
    BY <1>4, <1>7, <1>8, <2>1, <2>2, FilesStay
<1>9. CASE pc = "write" /\ WriteLine /\ pc' = "write"
  <2>1. UNCHANGED <<results, final, run, doomed>> /\ StoreTypeOK'
    BY <1>1, <1>4, <1>9, StoreFacts DEF WriteLine, StorePart, StoreTypeOK
  <2>2. pc' \in CheckPc /\ doomed' = {}
    BY <1>4, <1>9, <2>1 DEF CheckPc, StorePart, FilesInOrder
  <2> QED
    BY <1>4, <1>7, <1>9, <2>1, <2>2, FilesStay
<1>10. CASE pc = "write" /\ Rename(run) /\ pc' = "prune"
  BY <1>1, <1>4, <1>7, <1>10, RenameKeeps
<1>11. CASE pc = "prune" /\ PlanPrune /\ pc' = "pruning"
  BY <1>1, <1>4, <1>7, <1>11, PlanKeeps
<1>12. CASE pc = "pruning" /\ PruneOne /\ pc' = "pruning"
  <2>1. /\ StorePart' /\ FilesKept
        /\ Keep # 1 /\ result_files' \ {run} # {} =>
             /\ result_files \ {run} # {}
             /\ Max(result_files' \ {run}) = Max(result_files \ {run})
             /\ Max(result_files \ {run}) \in result_files'
    BY <1>1, <1>4, <1>12, PruneKeeps
  <2>2. CASE Keep = 1
    BY <1>2, <1>3, <2>1, <2>2, InvPartsPrime DEF Tracks, Followed
  <2>3. CASE Keep # 1
    <3>1. Announced' # {} => /\ Announced # {} /\ Max(Announced') = Max(Announced)
                             /\ Max(Announced) \in result_files'
                             /\ Max(Announced) \in result_files
      BY <1>5, <1>6, <2>1, <2>3
    <3>2. Tracks'
      BY <1>1, <1>14, <2>1, <3>1, SameNews
    <3> QED
      BY <1>2, <1>3, <2>1, <3>2, InvPartsPrime
  <2> QED
    BY <2>2, <2>3
<1>13. CASE pc = "pruning" /\ doomed = {} /\ UNCHANGED storeVars /\ pc' = "notify"
  <2>1. UNCHANGED <<results, final, run, doomed>> /\ StoreTypeOK' /\ doomed' = {}
        /\ pc' \in CheckPc
    BY <1>1, <1>4, <1>13 DEF storeVars, StorePart, StoreTypeOK, CheckPc
  <2> QED
    BY <1>4, <1>7, <1>13, <2>1, FilesStay
<1> QED
  BY <1>8, <1>9, <1>10, <1>11, <1>12, <1>13 DEF PersistStep

LEMMA PersistFailsKeeps ==
    ASSUME ReportsInv, PersistFails
    PROVE  ReportsInv'
<1>1. /\ UNCHANGED <<notifierVars, run, mode, queue, job, owed, overlap>>
      /\ pc \in {"create", "write", "pruning"} /\ pc' = "notify"
      /\ doomed' = {} /\ tmp' = NoFile /\ UNCHANGED <<results, final>>
  BY DEF PersistFails, DropFiles
<1>2. NotifierTypeOK' /\ Discipline' /\ Stages' /\ Messages'
  BY <1>1, NoSending DEF ReportsInv, Discipline
<1>3. RestTypeOK'
  BY <1>1 DEF ReportsInv, ReportsTypeOK, RestTypeOK
<1>4. StorePart /\ StoreTypeOK' /\ pc' \in CheckPc
  BY <1>1, InvParts, StoreFacts DEF StorePart, StoreTypeOK, CheckPc
<1>5. StorePart' /\ FilesKept /\ result_files' = result_files
  BY <1>1, <1>4, FilesStay
<1>6. Announced = result_files \ {run} /\ Announced' = Announced
      /\ Announced \in SUBSET (1..MaxRuns)
  BY <1>1, <1>4, <1>5, FilesAreRuns DEF Announced
<1>7. Announced # {} => Max(Announced) \in result_files
  BY <1>6, MaxIs, StoreFacts
<1>8. ~overlap' => ~overlap /\ job = NoJob
  BY <1>1 DEF ReportsInv, Discipline
<1>9. Tracks'
  BY <1>1, <1>5, <1>6, <1>7, <1>8, SameNews
<1> QED
  BY <1>2, <1>3, <1>5, <1>9, InvPartsPrime

(* The epilogue moves on without a message.                                *)
LEMMA EpilogueGoesOn ==
    ASSUME ReportsInv, pc \in {"notify", "queueing"}, pc' \in {"queueing", "idle"},
           pc' = "queueing" => mode = "daily_digest",
           UNCHANGED <<storeVars, notifierVars, run, mode, job, overlap>>
    PROVE  StorePart' /\ NotifierTypeOK' /\ Discipline' /\ Stages' /\ Messages'
<1>1. NotifierTypeOK' /\ Discipline' /\ Stages' /\ Messages'
  BY NoSending DEF ReportsInv, Discipline
<1>2. StorePart /\ StoreTypeOK' /\ pc' \in CheckPc
      /\ UNCHANGED <<results, final, run, doomed>> /\ doomed = {}
  BY InvParts DEF StorePart, StoreTypeOK, CheckPc, storeVars, FilesInOrder
<1>3. StorePart'
  BY <1>2, FilesStay
<1> QED
  BY <1>1, <1>3

(* A failing set is one of the sets that may be owed.                      *)
LEMMA FailingTyped ==
    ASSUME StoreTypeOK, NEW r \in Runs
    PROVE  failing_set(r) \in FailingSets
<1>1. Loaded(r).entries
        = {<<i, results[r][i]>> : i \in {j \in Installers : j < final[r]}}
  BY DEF Loaded, read_run_file
<1>2. \A i \in Installers : <<i, results[r][i]>> \in Installers \X Outcomes
  BY DEF StoreTypeOK
<1>3. Loaded(r).entries \subseteq Installers \X Outcomes
  BY <1>1, <1>2
<1> QED
  BY <1>3 DEF failing_set, Failing, FailingSets

LEMMA OweTyped ==
    ASSUME ReportsInv, Owe(run)
    PROVE  owed' \in SUBSET FailingSets
<1>1. owed \in SUBSET FailingSets /\ StoreTypeOK
  BY DEF ReportsInv, ReportsTypeOK
<1>2. Found(run) => failing_set(run) \in FailingSets
  BY <1>1, FailingTyped DEF Found, result_files
<1> QED
  BY <1>1, <1>2 DEF Owe

(* The older neighbour of a run that changed nothing is the run the issue  *)
(* speaks of, and it failed in the same way.                               *)
LEMMA Neighbour ==
    ASSUME ReportsInv, pc # "idle", Unchanged(run)
    PROVE  /\ run \in result_files /\ run \in Runs /\ Announced # {}
           /\ failing_set(Max(Announced)) = failing_set(run)
<1>1. run \in result_files /\ run \in Runs /\ Older(run) # {}
      /\ failing_set(previous(run)) = failing_set(run)
  BY DEF Unchanged, HasPrevious, Found, result_files
<1>2. Announced = Older(run)
  BY OlderFiles DEF ReportsInv, Announced
<1> QED
  BY <1>1, <1>2 DEF previous

(* The epilogue ends and GitHub heard nothing: the newest run changed      *)
(* nothing, or its failing set is owed from now on.                        *)
LEMMA Unheard ==
    ASSUME ReportsInv, pc # "idle", pc' = "idle", Owe(run),
           UNCHANGED <<results, final, run, mode, job, overlap>>,
           UNCHANGED <<open, config, cut>>
    PROVE  Tracks'
<1> SUFFICES ASSUME Followed', Announced' # {} PROVE Told(Max(Announced))'
  BY DEF Tracks
<1>1. Followed /\ job = NoJob /\ ~overlap
  BY DEF Followed, Undisturbed, IssuesWanted, ReportsInv, Discipline
<1>2. /\ result_files' = result_files /\ Announced' = result_files
      /\ \A r \in Runs : failing_set(r)' = failing_set(r)
  BY SameStore DEF Announced
<1>3. ASSUME NEW m \in Runs, m = Max(Announced'), Told(m), owed' = owed
      PROVE  Told(Max(Announced))'
  <2>1. failing_set(m)' = failing_set(m) /\ open' = open
    BY <1>2
  <2>2. Told(m)'
    BY <1>3, <2>1 DEF Told
  <2> QED
    BY <1>3, <2>2 DEF Told
<1>4. CASE run \notin result_files
  <2>1. ~ Found(run) /\ pc # "sending"
    BY <1>4 DEF Found, ReportsInv, FilesInOrder
  <2>2. owed' = owed /\ Steady /\ Announced = result_files
    BY <1>1, <1>4, <2>1 DEF Owe, Steady, Announced
  <2>3. PICK m : m = Max(result_files)
    OBVIOUS
  <2>4. Told(m) /\ m \in Runs
    BY <1>1, <1>2, <2>2, <2>3, InvParts, FilesAreRuns, MaxIs, StoreFacts
    DEF ReportsInv, Tracks
  <2> QED
    BY <1>2, <1>3, <2>2, <2>3, <2>4
<1>5. CASE run \in result_files
  <2>1. Found(run) /\ run \in Runs /\ latest = run
    BY <1>5, WholeIsFound, OlderFiles DEF ReportsInv
  <2>2. Max(Announced') = run
    BY <1>2, <2>1 DEF latest
  <2>3. CASE Unchanged(run)
    <3>1. owed' = owed /\ Steady
      BY <1>1, <2>3 DEF Owe, Followed, Steady
    <3>2. Announced # {} /\ failing_set(Max(Announced)) = failing_set(run)
      BY <2>3, Neighbour
    <3>3. Told(Max(Announced))
      BY <1>1, <3>1, <3>2 DEF ReportsInv, Tracks
    <3>4. Told(run)
      BY <3>2, <3>3 DEF Told
    <3> QED
      BY <1>3, <2>1, <2>2, <3>1, <3>4
  <2>4. CASE ~ Unchanged(run)
    <3>1. owed' = {failing_set(run)} /\ failing_set(run)' = failing_set(run)
      BY <1>2, <2>1, <2>4 DEF Owe
    <3>2. Told(run)' /\ run' = run
      BY <3>1 DEF Told
    <3> QED
      BY <2>2, <3>2 DEF Told
  <2> QED
    BY <2>3, <2>4
<1> QED
  BY <1>4, <1>5

LEMMA NotAnnouncedKeeps ==
    ASSUME ReportsInv, NotAnnounced
    PROVE  ReportsInv'
<1>1. /\ pc = "notify" /\ pc' = "idle" /\ Owe(run)
      /\ UNCHANGED <<storeVars, notifierVars, run, mode, queue, job, overlap>>
  BY DEF NotAnnounced
<1>2. StorePart' /\ NotifierTypeOK' /\ Discipline' /\ Stages' /\ Messages'
  BY <1>1, EpilogueGoesOn
<1>3. RestTypeOK'
  BY <1>1, OweTyped DEF ReportsInv, ReportsTypeOK, RestTypeOK
<1>4. Tracks'
  BY <1>1, Unheard DEF storeVars, notifierVars
<1> QED
  BY <1>2, <1>3, <1>4, InvPartsPrime

(* What the mode decides.                                                  *)
LEMMA Decisions ==
    ASSUME mode \in Modes, NEW r
    PROVE  /\ Decision(r) = "unchanged" => mode = "on_change" /\ Unchanged(r)
           /\ Decision(r) = "queued" => mode = "daily_digest"
<1>1. mode = "every_run" => Decision(r) = "send"
  BY Zenon DEF Decision
<1>2. mode = "daily_digest" => Decision(r) = "queued"
  BY DEF Decision
<1>3. mode = "on_change" => Decision(r) = IF Unchanged(r) THEN "unchanged" ELSE "send"
  BY DEF Decision
<1> QED
  BY <1>1, <1>2, <1>3 DEF Modes

(* A run that failed as its older neighbour did says nothing.              *)
LEMMA StaysSilentKeeps ==
    ASSUME ReportsInv, StaysSilent
    PROVE  ReportsInv'
<1>1. /\ pc = "notify" /\ pc' = "idle" /\ Found(run) /\ Decision(run) = "unchanged"
      /\ UNCHANGED <<storeVars, notifierVars, run, mode, queue, job, owed, overlap>>
  BY DEF StaysSilent
<1>2. StorePart' /\ NotifierTypeOK' /\ Discipline' /\ Stages' /\ Messages'
  BY <1>1, EpilogueGoesOn
<1>3. RestTypeOK'
  BY <1>1 DEF ReportsInv, ReportsTypeOK, RestTypeOK
<1>4. Owe(run)
  BY <1>1, Decisions DEF ReportsInv, ReportsTypeOK, Owe
<1>5. Tracks'
  BY <1>1, <1>4, Unheard DEF storeVars, notifierVars
<1> QED
  BY <1>2, <1>3, <1>5, InvPartsPrime

LEMMA BeginLineKeeps ==
    ASSUME ReportsInv, NEW line, BeginLine(line), run \in 0..MaxRuns => line \in Lines
    PROVE  ReportsInv'
<1>1. /\ pc = "notify" /\ pc' = "queueing" /\ Decision(run) = "queued"
      /\ UNCHANGED <<storeVars, notifierVars, run, mode, job, owed, overlap>>
      /\ queue' = IF Unended(queue)
                  THEN [queue EXCEPT ![Len(queue)] = Unreadable("glued")]
                  ELSE Append(queue, line)
  BY DEF BeginLine
<1>2. mode = "daily_digest"
  BY <1>1, Decisions DEF ReportsInv, ReportsTypeOK
<1>3. StorePart' /\ NotifierTypeOK' /\ Discipline' /\ Stages' /\ Messages'
  BY <1>1, <1>2, EpilogueGoesOn
<1>4. queue \in Seq(Lines) /\ line \in Lines /\ Unreadable("glued") \in Lines
  BY StoreFacts DEF ReportsInv, ReportsTypeOK, Unreadable, Lines, Texts
<1>5. queue' \in Seq(Lines)
  <2>1. PICK g \in Lines : g = Unreadable("glued")
    BY <1>4
  <2>2. Append(queue, line) \in Seq(Lines)
    BY <1>4
  <2>3. queue # <<>> => [queue EXCEPT ![Len(queue)] = g] \in Seq(Lines)
    BY <1>4
  <2> QED
    BY <1>1, <2>1, <2>2, <2>3 DEF Unended
<1>6. RestTypeOK'
  BY <1>1, <1>5 DEF ReportsInv, ReportsTypeOK, RestTypeOK
<1>7. Tracks'
  BY <1>1, <1>2 DEF Tracks, Followed
<1> QED
  BY <1>3, <1>6, <1>7, InvPartsPrime

LEMMA EndLineKeeps ==
    ASSUME ReportsInv, EndLine
    PROVE  ReportsInv'
<1>1. /\ pc = "queueing" /\ pc' = "idle"
      /\ UNCHANGED <<storeVars, notifierVars, run, mode, job, overlap>>
      /\ Owe(run) \/ owed' = owed
      /\ \/ queue' = queue
         \/ queue # <<>> /\ queue' = Front(queue)
         \/ queue # <<>> /\ queue' = [queue EXCEPT ![Len(queue)] = Line("whole")]
  BY DEF EndLine
<1>2. mode = "daily_digest"
  BY <1>1 DEF ReportsInv, Discipline
<1>3. StorePart' /\ NotifierTypeOK' /\ Discipline' /\ Stages' /\ Messages'
  BY <1>1, EpilogueGoesOn
<1>4. queue \in Seq(Lines) /\ Line("whole") \in Lines
  BY DEF ReportsInv, ReportsTypeOK, Line, Lines, Texts, build_notification
<1>5. queue' \in Seq(Lines)
  BY <1>1, <1>4 DEF Front
<1>6. owed' \in SUBSET FailingSets
  BY <1>1, OweTyped DEF ReportsInv, ReportsTypeOK
<1>7. RestTypeOK'
  BY <1>1, <1>5, <1>6 DEF ReportsInv, ReportsTypeOK, RestTypeOK
<1>8. Tracks'
  BY <1>1, <1>2 DEF Tracks, Followed
<1> QED
  BY <1>3, <1>7, <1>8, InvPartsPrime

LEMMA QueueFailsKeeps ==
    ASSUME ReportsInv, QueueFails
    PROVE  ReportsInv'
<1>1. /\ pc \in {"notify", "queueing"} /\ pc' = "idle" /\ Owe(run)
      /\ UNCHANGED <<storeVars, notifierVars, run, mode, queue, job, overlap>>
  BY DEF QueueFails
<1>2. StorePart' /\ NotifierTypeOK' /\ Discipline' /\ Stages' /\ Messages'
  BY <1>1, EpilogueGoesOn
<1>3. RestTypeOK'
  BY <1>1, OweTyped DEF ReportsInv, ReportsTypeOK, RestTypeOK
<1>4. Tracks'
  BY <1>1, Unheard DEF storeVars, notifierVars
<1> QED
  BY <1>2, <1>3, <1>4, InvPartsPrime

(* One sender is touched; the other one is as it was.                      *)
LEMMA OtherSender ==
    ASSUME NEW s \in Senders, NEW q \in Senders, NotifierTypeOK, q # s,
           send' = [send EXCEPT ![s] = send'[s]]
    PROVE  send'[q] = send[q]
BY DEF NotifierTypeOK

(* The message of a check is about the run it has just persisted.          *)
LEMMA AnnounceKeeps ==
    ASSUME ReportsInv, Announce
    PROVE  ReportsInv'
<1> DEFINE f == build_notification(run)
<1>1. /\ pc = "notify" /\ pc' = "sending" /\ Found(run) /\ Begin(Check, f)
      /\ UNCHANGED <<storeVars, run, mode, queue, job, owed, overlap>>
  BY DEF Announce
<1>2. Check \in Senders /\ Notify \in Senders /\ Check # Notify
  BY SendersAssumption DEF Check, Notify
<1>3. /\ NotifierTypeOK' /\ Stage(Check)'
      /\ send'[Check].is_failure = f
      /\ send' = [send EXCEPT ![Check] = send'[Check]]
      /\ UNCHANGED <<open, created, config, cut>>
  BY <1>1, <1>2, BeginSend DEF ReportsInv, ReportsTypeOK, build_notification
<1>4. \A q \in Senders : q # Check => send'[q] = send[q]
  BY <1>2, <1>3, OtherSender DEF ReportsInv, ReportsTypeOK
<1>5. /\ StorePart /\ StoreTypeOK' /\ pc' \in CheckPc
      /\ UNCHANGED <<results, final, run, doomed>> /\ doomed = {}
      /\ run \in result_files /\ run \in Runs
  BY <1>1, InvParts
  DEF StorePart, StoreTypeOK, CheckPc, storeVars, FilesInOrder, Found, result_files
<1>6. StorePart' /\ result_files' = result_files
      /\ \A r \in Runs : failing_set(r)' = failing_set(r)
  BY <1>1, <1>5, FilesStay, SameStore
<1>7. RestTypeOK'
  BY <1>1 DEF ReportsInv, ReportsTypeOK, RestTypeOK
<1>8. Discipline'
  BY <1>1, <1>2, <1>4 DEF ReportsInv, Discipline
<1>9. Stages'
  <2> SUFFICES ASSUME Undisturbed' PROVE AtMostOne' /\ Stage(Notify)'
    BY <1>3 DEF Stages
  <2>1. Undisturbed
    BY <1>1, <1>3 DEF Undisturbed
  <2> QED
    BY <1>2, <1>3, <1>4, <2>1 DEF ReportsInv, Stages, AtMostOne, Stage
<1>10. Messages'
  <2>1. send'[Check].is_failure <=> failing_set(run') # {}
    BY <1>1, <1>3 DEF build_notification
  <2>2. ~overlap' => job' = NoJob
    BY <1>1 DEF ReportsInv, Discipline
  <2>3. failing_set(run)' = failing_set(run)
    BY <1>5, <1>6
  <2>4. send'[Check].is_failure <=> failing_set(run)' # {}
    BY <1>1, <2>1, <2>3
  <2> QED
    BY <2>2, <2>4 DEF Messages
<1>11. Tracks'
  <2> SUFFICES ASSUME Followed', Announced' # {} PROVE Told(Max(Announced))'
    BY DEF Tracks
  <2>1. Followed /\ Steady /\ Announced' = Announced
    BY <1>1, <1>3, <1>6
    DEF Followed, Undisturbed, IssuesWanted, Steady, Announced, ReportsInv, Discipline
  <2>2. PICK m : m = Max(Announced)
    OBVIOUS
  <2>3. Told(m)
    BY <2>1, <2>2 DEF ReportsInv, Tracks
  <2>4. failing_set(m)' = failing_set(m) /\ UNCHANGED <<open, owed>>
    BY <1>1, <1>3 DEF storeVars, failing_set, Loaded, read_run_file, Failing
  <2>5. Told(m)'
    BY <2>3, <2>4 DEF Told
  <2> QED
    BY <2>1, <2>2, <2>5 DEF Told
<1> QED
  BY <1>3, <1>6, <1>7, <1>8, <1>9, <1>10, <1>11, InvPartsPrime

(* The check leaves: its sender is at rest and its files stay.             *)
LEMMA CheckLeaves ==
    ASSUME ReportsInv, pc # "idle", pc' = "idle", EndSend(Check),
           doomed' = {}, tmp' \in {tmp, NoFile},
           UNCHANGED <<results, final, run, mode, queue, job, overlap>>
    PROVE  /\ StorePart' /\ NotifierTypeOK' /\ Discipline' /\ Stages' /\ Messages'
           /\ result_files' = result_files
           /\ \A r \in Runs : failing_set(r)' = failing_set(r)
           /\ UNCHANGED <<open, config, cut>>
<1>1. Check \in Senders /\ Notify \in Senders /\ Check # Notify
  BY SendersAssumption DEF Check, Notify
<1>2. /\ NotifierTypeOK' /\ Stage(Check)' /\ send'[Check].pc = "idle"
      /\ send' = [send EXCEPT ![Check] = send'[Check]]
      /\ UNCHANGED <<open, created, config, cut>>
  BY <1>1, EndOfSend DEF ReportsInv, ReportsTypeOK
<1>3. \A q \in Senders : q # Check => send'[q] = send[q]
  BY <1>1, <1>2, OtherSender DEF ReportsInv, ReportsTypeOK
<1>4. StorePart /\ StoreTypeOK' /\ pc' \in CheckPc
  BY InvParts, StoreFacts DEF StorePart, StoreTypeOK, CheckPc
<1>5. StorePart' /\ result_files' = result_files
      /\ \A r \in Runs : failing_set(r)' = failing_set(r)
  BY <1>4, FilesStay, SameStore
<1>6. Discipline'
  BY <1>1, <1>2, <1>3 DEF ReportsInv, Discipline
<1>7. Stages'
  <2> SUFFICES ASSUME Undisturbed' PROVE AtMostOne' /\ Stage(Notify)'
    BY <1>2 DEF Stages
  <2>1. Undisturbed
    BY <1>2 DEF Undisturbed
  <2> QED
    BY <1>1, <1>2, <1>3, <2>1 DEF ReportsInv, Stages, AtMostOne, Stage
<1>8. Messages'
  <2>1. ~overlap' => job' = NoJob
    BY DEF ReportsInv, Discipline
  <2> QED
    BY <2>1 DEF Messages
<1> QED
  BY <1>2, <1>5, <1>6, <1>7, <1>8

LEMMA CheckSentKeeps ==
    ASSUME ReportsInv, CheckSent
    PROVE  ReportsInv'
<1>1. /\ pc = "sending" /\ send[Check].pc = "sent" /\ pc' = "idle"
      /\ IF send[Check].github = "failed" THEN Owe(run) ELSE owed' = {}
      /\ EndSend(Check)
      /\ UNCHANGED <<storeVars, run, mode, queue, job, overlap>>
  BY DEF CheckSent
<1>2. doomed' = {} /\ UNCHANGED <<results, final, tmp>>
      /\ run \in result_files /\ run \in Runs
  BY <1>1 DEF ReportsInv, FilesInOrder, storeVars
<1>3. /\ StorePart' /\ NotifierTypeOK' /\ Discipline' /\ Stages' /\ Messages'
      /\ result_files' = result_files
      /\ \A r \in Runs : failing_set(r)' = failing_set(r)
      /\ UNCHANGED <<open, config, cut>>
  BY <1>1, <1>2, CheckLeaves
<1>4. RestTypeOK'
  BY <1>1, OweTyped DEF ReportsInv, ReportsTypeOK, RestTypeOK
<1>5. CASE send[Check].github = "failed"
  BY <1>1, <1>2, <1>3, <1>4, <1>5, Unheard, InvPartsPrime
<1>6. CASE send[Check].github # "failed"
  <2> SUFFICES Tracks'
    BY <1>3, <1>4, InvPartsPrime
  <2> SUFFICES ASSUME Followed', Announced' # {} PROVE Told(Max(Announced))'
    BY DEF Tracks
  <2>1. Undisturbed /\ config.token /\ config.create_issues
    BY <1>1, <1>3 DEF Followed, Undisturbed, IssuesWanted
  <2>2. open # {} <=> send[Check].is_failure
    BY <1>1, <1>6, <2>1 DEF ReportsInv, Stages, Stage
  <2>3. open # {} <=> failing_set(run) # {}
    BY <1>1, <2>2 DEF ReportsInv, Messages
  <2>4. latest = run
    BY <1>2, OlderFiles DEF ReportsInv
  <2>5. Max(Announced') = run
    BY <1>1, <1>3, <2>4 DEF Announced, latest
  <2>6. failing_set(run)' = failing_set(run) /\ run' = run /\ owed' = {}
    BY <1>1, <1>2, <1>3, <1>6
  <2>7. open' # {} <=> failing_set(run)' # {}
    BY <1>3, <2>3, <2>6
  <2> QED
    BY <2>5, <2>6, <2>7 DEF Told
<1> QED
  BY <1>5, <1>6

LEMMA KillCheckKeeps ==
    ASSUME ReportsInv, KillCheck
    PROVE  ReportsInv'
<1>1. /\ pc # "idle" /\ pc' = "idle" /\ Owe(run)
      /\ doomed' = {} /\ tmp' = NoFile /\ EndSend(Check)
      /\ UNCHANGED <<results, final, run, mode, queue, job, overlap>>
  BY DEF KillCheck, DropFiles
<1>2. /\ StorePart' /\ NotifierTypeOK' /\ Discipline' /\ Stages' /\ Messages'
      /\ UNCHANGED <<open, config, cut>>
  BY <1>1, CheckLeaves
<1>3. RestTypeOK'
  BY <1>1, OweTyped DEF ReportsInv, ReportsTypeOK, RestTypeOK
<1>4. Tracks'
  BY <1>1, <1>2, Unheard
<1> QED
  BY <1>2, <1>3, <1>4, InvPartsPrime

-----------------------------------------------------------------------------
(* The steps of the `notify' command and of a sender.                      *)

(* `notify' touches neither the directory nor the check.                   *)
LEMMA StoreUntouched ==
    ASSUME ReportsInv, UNCHANGED <<storeVars, pc, run>>
    PROVE  /\ StorePart' /\ result_files' = result_files
           /\ Announced' = Announced
           /\ \A r \in Runs : failing_set(r)' = failing_set(r)
<1>1. UNCHANGED <<results, final, run, doomed, tmp>> /\ StorePart
  BY InvParts DEF storeVars
<1>2. result_files' = result_files
      /\ \A r \in Runs : failing_set(r)' = failing_set(r)
  BY <1>1, SameStore
<1>3. StorePart'
  BY <1>1, <1>2 DEF StorePart, StoreTypeOK, WholeFiles, FilesInOrder
<1>4. Announced' = Announced
  BY <1>1, <1>2 DEF Announced
<1> QED
  BY <1>2, <1>3, <1>4

(* A job begins: the message says what the file of its run says, if there  *)
(* is one.                                                                 *)
LEMMA JobBegins ==
    ASSUME ReportsInv, UNCHANGED <<storeVars, pc, run, mode, owed>>,
           NEW f \in BOOLEAN, Begin(Notify, f),
           NEW r \in 0..MaxRuns, job = NoJob, NEW k \in {"run", "digest"},
           job' = [kind |-> k, run |-> r],
           overlap' = (overlap \/ pc # "idle"),
           r \in result_files => (f <=> failing_set(r) # {}),
           RestTypeOK'
    PROVE  ReportsInv'
<1>1. Check \in Senders /\ Notify \in Senders /\ Check # Notify
  BY SendersAssumption DEF Check, Notify
<1>2. /\ NotifierTypeOK' /\ Stage(Notify)'
      /\ send'[Notify].is_failure = f
      /\ send' = [send EXCEPT ![Notify] = send'[Notify]]
      /\ UNCHANGED <<open, created, config, cut>>
  BY <1>1, BeginSend DEF ReportsInv, ReportsTypeOK
<1>3. \A q \in Senders : q # Notify => send'[q] = send[q]
  BY <1>1, <1>2, OtherSender DEF ReportsInv, ReportsTypeOK
<1>4. /\ StorePart' /\ result_files' = result_files /\ Announced' = Announced
      /\ \A q \in Runs : failing_set(q)' = failing_set(q)
  BY StoreUntouched
<1>5. job' # NoJob /\ job'.run = r
  BY DEF NoJob
<1>6. Discipline'
  <2>1. ~overlap' => pc' = "idle"
    OBVIOUS
  <2> QED
    BY <1>1, <1>3, <1>5, <2>1 DEF ReportsInv, Discipline
<1>7. Stages'
  <2> SUFFICES ASSUME Undisturbed' PROVE AtMostOne' /\ Stage(Check)'
    BY <1>2 DEF Stages
  <2>1. Undisturbed
    BY <1>2 DEF Undisturbed
  <2> QED
    BY <1>1, <1>2, <1>3, <2>1 DEF ReportsInv, Stages, AtMostOne, Stage
<1>8. Messages'
  <2>1. pc' = "sending" =>
          (send'[Check].is_failure <=> failing_set(run)' # {})
    <3>1. pc = "sending" => run \in Runs
      BY DEF ReportsInv, FilesInOrder
    <3> QED
      BY <1>1, <1>3, <1>4, <3>1 DEF ReportsInv, Messages
  <2>2. r \in result_files => failing_set(r)' = failing_set(r)
    BY <1>4 DEF result_files
  <2>3. r \in result_files' => (send'[Notify].is_failure <=> failing_set(r)' # {})
    BY <1>2, <1>4, <2>2
  <2>4. failing_set(job.run)' = failing_set(r)'
    BY <1>5 DEF failing_set, Loaded, read_run_file
  <2> QED
    BY <1>5, <2>1, <2>3, <2>4 DEF Messages
<1>9. Tracks'
  <2> SUFFICES ASSUME Followed', Announced' # {} PROVE Told(Max(Announced))'
    BY DEF Tracks
  <2>1. Followed /\ Steady
    BY <1>2 DEF Followed, Undisturbed, IssuesWanted, Steady
  <2>2. PICK m : m = Max(Announced)
    OBVIOUS
  <2>3. Told(m)
    BY <1>4, <2>1, <2>2 DEF ReportsInv, Tracks
  <2>4. failing_set(m)' = failing_set(m) /\ UNCHANGED <<open, owed>>
    BY <1>2 DEF storeVars, failing_set, Loaded, read_run_file, Failing
  <2>5. Told(m)'
    BY <2>3, <2>4 DEF Told
  <2> QED
    BY <1>4, <2>2, <2>5 DEF Told
<1> QED
  BY <1>2, <1>4, <1>6, <1>7, <1>8, <1>9, InvPartsPrime

LEMMA NotifyRunKeeps ==
    ASSUME ReportsInv, NEW r \in Runs, NotifyRun(r)
    PROVE  ReportsInv'
<1>1. /\ job = NoJob /\ job' = [kind |-> "run", run |-> r]
      /\ Begin(Notify, build_notification(r)) /\ overlap' = (overlap \/ pc # "idle")
      /\ UNCHANGED <<storeVars, pc, run, mode, queue, owed>>
  BY DEF NotifyRun
<1>2. build_notification(r) \in BOOLEAN
      /\ (build_notification(r) <=> failing_set(r) # {})
  BY DEF build_notification
<1>3. overlap' \in BOOLEAN /\ r \in 0..MaxRuns
  BY <1>1, StoreFacts
<1>4. RestTypeOK'
  BY <1>1, <1>3 DEF ReportsInv, ReportsTypeOK, RestTypeOK
<1> QED
  BY <1>1, <1>2, <1>3, <1>4, JobBegins

LEMMA DigestReadKeeps ==
    ASSUME ReportsInv, DigestRead
    PROVE  ReportsInv'
<1>1. PICK l : l = queue[Max(pending)]
  OBVIOUS
<1>2. PICK f : f = (IF Found(l.run) THEN build_notification(l.run) ELSE l.failing)
  OBVIOUS
<1>3. /\ job = NoJob /\ pending # {} /\ overlap' = (overlap \/ pc # "idle")
      /\ job' = [kind |-> "digest", run |-> l.run] /\ Begin(Notify, f)
      /\ UNCHANGED <<storeVars, pc, run, mode, queue, owed>>
  BY <1>1, <1>2 DEF DigestRead
<1>4. l \in Lines
  <2>1. queue \in Seq(Lines)
    BY DEF ReportsInv, ReportsTypeOK
  <2>2. pending \in SUBSET (1..Len(queue)) /\ Len(queue) \in Nat
    BY <2>1 DEF pending
  <2>3. PICK k \in pending : k = Max(pending)
    BY <1>3, <2>2, MaxIs
  <2>4. k \in 1..Len(queue)
    BY <2>2
  <2>5. queue[k] \in Lines
    BY <2>1, <2>4
  <2> QED
    BY <1>1, <2>3, <2>5
<1>5. l.run \in 0..MaxRuns /\ f \in BOOLEAN
  BY <1>2, <1>4 DEF build_notification, Lines
<1>6. l.run \in result_files => (f <=> failing_set(l.run) # {})
  BY <1>2, WholeIsFound DEF ReportsInv, build_notification
<1>7. overlap' \in BOOLEAN
  BY <1>3
<1>8. RestTypeOK'
  BY <1>3, <1>5, <1>7 DEF ReportsInv, ReportsTypeOK, RestTypeOK
<1>9. PICK r \in 0..MaxRuns : r = l.run
  BY <1>5
<1> QED
  BY <1>3, <1>5, <1>6, <1>8, <1>9, JobBegins

(* The failing set of the newest run, if there is one.                     *)
NewestSet == {failing_set(r) : r \in {q \in result_files : q = latest}}

LEMMA NewestTyped ==
    ASSUME ReportsInv
    PROVE  NewestSet \in SUBSET FailingSets
<1>1. \A r \in result_files : failing_set(r) \in FailingSets
  BY FailingTyped DEF ReportsInv, ReportsTypeOK, result_files
<1> QED
  BY <1>1 DEF NewestSet

(* A job ends: with an answer about the newest run, or having told nothing *)
(* new, or the newest run is owed.                                         *)
LEMMA JobEnds ==
    ASSUME ReportsInv, UNCHANGED <<storeVars, pc, run, mode, overlap>>,
           job # NoJob, job' = NoJob, EndSend(Notify),
           \/ /\ send[Notify].pc = "sent" /\ send[Notify].github # "failed"
              /\ job.run = latest /\ owed' = {}
           \/ job.run = latest /\ owed' = owed
           \/ owed' = NewestSet,
           RestTypeOK'
    PROVE  ReportsInv'
<1>1. Check \in Senders /\ Notify \in Senders /\ Check # Notify
  BY SendersAssumption DEF Check, Notify
<1>2. /\ NotifierTypeOK' /\ Stage(Notify)' /\ send'[Notify].pc = "idle"
      /\ send' = [send EXCEPT ![Notify] = send'[Notify]]
      /\ UNCHANGED <<open, created, config, cut>>
  BY <1>1, EndOfSend DEF ReportsInv, ReportsTypeOK
<1>3. \A q \in Senders : q # Notify => send'[q] = send[q]
  BY <1>1, <1>2, OtherSender DEF ReportsInv, ReportsTypeOK
<1>4. /\ StorePart' /\ result_files' = result_files /\ Announced' = Announced
      /\ \A q \in Runs : failing_set(q)' = failing_set(q)
  BY StoreUntouched
<1>5. Discipline'
  BY <1>1, <1>2, <1>3 DEF ReportsInv, Discipline
<1>6. Stages'
  <2> SUFFICES ASSUME Undisturbed' PROVE AtMostOne' /\ Stage(Check)'
    BY <1>2 DEF Stages
  <2>1. Undisturbed
    BY <1>2 DEF Undisturbed
  <2> QED
    BY <1>1, <1>2, <1>3, <2>1 DEF ReportsInv, Stages, AtMostOne, Stage
<1>7. Messages'
  <2>1. pc' = "sending" =>
          (send'[Check].is_failure <=> failing_set(run)' # {})
    <3>1. pc = "sending" => run \in Runs
      BY DEF ReportsInv, FilesInOrder
    <3> QED
      BY <1>1, <1>3, <1>4, <3>1 DEF ReportsInv, Messages
  <2> QED
    BY <2>1 DEF Messages
<1>8. Tracks'
  <2> SUFFICES ASSUME Followed', Announced' # {} PROVE Told(Max(Announced))'
    BY DEF Tracks
  <2>1. Followed /\ Undisturbed /\ config.token /\ config.create_issues
    BY <1>2 DEF Followed, Undisturbed, IssuesWanted
  <2>2. pc = "idle" /\ Announced = result_files
    BY <2>1 DEF ReportsInv, Discipline, Undisturbed, Announced
  <2>3. latest \in result_files /\ latest \in Runs
    BY <1>4, <2>2, OlderFiles DEF ReportsInv, result_files
  <2>4. PICK m : m = latest
    OBVIOUS
  <2>5. Max(Announced') = m /\ Max(Announced) = m
        /\ failing_set(m)' = failing_set(m) /\ open' = open
    BY <1>2, <1>4, <2>2, <2>3, <2>4 DEF latest
  <2>6. CASE /\ send[Notify].pc = "sent" /\ send[Notify].github # "failed"
             /\ job.run = latest /\ owed' = {}
    <3>1. open # {} <=> send[Notify].is_failure
      BY <2>1, <2>6 DEF ReportsInv, Stages, Stage
    <3>2. open # {} <=> failing_set(m) # {}
      BY <2>1, <2>3, <2>4, <2>6, <3>1 DEF ReportsInv, Messages, Undisturbed
    <3>3. Told(m)'
      BY <2>5, <2>6, <3>2 DEF Told
    <3> QED
      BY <2>5, <3>3 DEF Told
  <2>7. CASE job.run = latest /\ owed' = owed
    <3>1. Told(m)
      BY <1>4, <2>1, <2>2, <2>5, <2>7 DEF ReportsInv, Tracks, Steady
    <3>2. Told(m)'
      BY <2>5, <2>7, <3>1 DEF Told
    <3> QED
      BY <2>5, <3>2 DEF Told
  <2>8. CASE owed' = NewestSet
    <3>1. failing_set(m) \in owed'
      BY <2>3, <2>4, <2>8 DEF NewestSet
    <3>2. Told(m)'
      BY <2>5, <3>1 DEF Told
    <3> QED
      BY <2>5, <3>2 DEF Told
  <2> QED
    BY <2>6, <2>7, <2>8
<1> QED
  BY <1>2, <1>4, <1>5, <1>6, <1>7, <1>8, InvPartsPrime

LEMMA EmptyIsSeq ==
    ASSUME NEW S
    PROVE  <<>> \in Seq(S)
OBVIOUS

LEMMA NotifyRunSentKeeps ==
    ASSUME ReportsInv, NotifyRunSent
    PROVE  ReportsInv'
<1>1. /\ job # NoJob /\ send[Notify].pc = "sent" /\ job' = NoJob /\ EndSend(Notify)
      /\ \/ send[Notify].github # "failed" /\ job.run = latest /\ owed' = {}
         \/ job.run = latest /\ owed' = owed
         \/ owed' = NewestSet
      /\ UNCHANGED <<storeVars, pc, run, mode, queue, overlap>>
  BY DEF NotifyRunSent, NotifySent, OweLatest, NewestSet, NoJob
<1>2. NoJob \in [kind : {"none", "run", "digest"}, run : 0..MaxRuns]
  BY StoreFacts DEF NoJob
<1>3. RestTypeOK'
  BY <1>1, <1>2, NewestTyped DEF ReportsInv, ReportsTypeOK, RestTypeOK
<1> QED
  BY <1>1, <1>3, JobEnds

LEMMA DigestSentKeeps ==
    ASSUME ReportsInv, DigestSent
    PROVE  ReportsInv'
<1>1. /\ job # NoJob /\ send[Notify].pc = "sent" /\ job' = NoJob /\ EndSend(Notify)
      /\ \/ send[Notify].github # "failed" /\ job.run = latest /\ owed' = {}
         \/ owed' = NewestSet
      /\ UNCHANGED <<storeVars, pc, run, mode, overlap>>
      /\ queue' = <<>> \/ queue' = queue
  BY DEF DigestSent, NotifySent, NewestSet, NoJob
<1>2. NoJob \in [kind : {"none", "run", "digest"}, run : 0..MaxRuns]
  BY StoreFacts DEF NoJob
<1>3. queue' \in Seq(Lines)
  BY <1>1, EmptyIsSeq DEF ReportsInv, ReportsTypeOK
<1>4. RestTypeOK'
  BY <1>1, <1>2, <1>3, NewestTyped DEF ReportsInv, ReportsTypeOK, RestTypeOK
<1> QED
  BY <1>1, <1>4, JobEnds

LEMMA KillNotifyKeeps ==
    ASSUME ReportsInv, KillNotify
    PROVE  ReportsInv'
<1>1. /\ job # NoJob /\ job' = NoJob /\ EndSend(Notify)
      /\ \/ job.run = latest /\ owed' = owed
         \/ owed' = NewestSet
      /\ UNCHANGED <<storeVars, pc, run, mode, queue, overlap>>
  BY DEF KillNotify, OweLatest, NewestSet
<1>2. NoJob \in [kind : {"none", "run", "digest"}, run : 0..MaxRuns]
  BY StoreFacts DEF NoJob
<1>3. RestTypeOK'
  BY <1>1, <1>2, NewestTyped DEF ReportsInv, ReportsTypeOK, RestTypeOK
<1> QED
  BY <1>1, <1>3, JobEnds

(* A sender whose message is what the issue tells already leaves it so.    *)
LEMMA NothingNew ==
    ASSUME NEW s \in Senders, Stage(s), SenderStep(s),
           open # {} <=> send[s].is_failure
    PROVE  open' = open
<1>1. ASSUME NEW l \in BOOLEAN PROVE ~ CreateIssue(s, l) /\ ~ CloseIssue(s, l)
  BY DEF Stage, CreateIssue, CloseIssue, Request
<1> QED
  BY <1>1 DEF SenderStep, FindIssue, FindIssueCutOff, PostComment, Slack, Refused

(* A request is answered.  Whoever sends, the issue is in its hands alone  *)
(* unless a check and a `notify' have overlapped.                          *)
LEMMA SenderStepKeeps ==
    ASSUME ReportsInv, NEW s \in Senders, SenderStep(s),
           UNCHANGED <<storeVars, reportVars>>
    PROVE  ReportsInv'
<1>1. /\ NotifierTypeOK /\ NotifierTypeOK'
      /\ send[s].pc # "idle" /\ send'[s].pc # "idle"
      /\ send' = [send EXCEPT ![s] = send'[s]]
      /\ send'[s].is_failure = send[s].is_failure
      /\ config' = config /\ (cut => cut')
  BY SenderMoves, SenderTypes DEF ReportsInv, ReportsTypeOK
<1>2. s \in {Check, Notify} /\ Check # Notify /\ Check \in Senders
      /\ Notify \in Senders
  BY <1>1, SendersAssumption DEF ReportsInv, Discipline, Check, Notify
<1>3. \A q \in Senders : q # s => send'[q] = send[q]
  BY <1>1, OtherSender
<1>4. UNCHANGED <<pc, run, mode, queue, job, owed, overlap>>
  BY DEF reportVars
<1>5. /\ StorePart' /\ result_files' = result_files
      /\ \A q \in Runs : failing_set(q)' = failing_set(q)
  BY <1>4, StoreUntouched
<1>6. RestTypeOK'
  BY <1>4 DEF ReportsInv, ReportsTypeOK, RestTypeOK
<1>7. Discipline'
  <2>1. \A q \in Senders : send'[q].pc # "idle" => send[q].pc # "idle"
    BY <1>1, <1>3
  <2> QED
    BY <1>2, <1>4, <2>1 DEF ReportsInv, Discipline
<1>8. Stages'
  <2> SUFFICES ASSUME Undisturbed'
               PROVE  AtMostOne' /\ Stage(Check)' /\ Stage(Notify)'
    BY DEF Stages
  <2>1. Undisturbed /\ ~ cut' /\ ~overlap
    BY <1>1, <1>4 DEF Undisturbed
  <2>2. AtMostOne' /\ Stage(s)'
    BY <1>1, <1>2, <2>1, StageStep DEF ReportsInv, Stages
  <2>3. ASSUME NEW q \in {Check, Notify}, q # s PROVE Stage(q)'
    <3>1. send[q].pc = "idle"
      BY <1>1, <1>2, <2>1, <2>3 DEF ReportsInv, Discipline
    <3>2. send'[q].pc = "idle"
      BY <1>2, <1>3, <2>3, <3>1
    <3> QED
      BY <3>2 DEF Stage
  <2> QED
    BY <1>2, <2>2, <2>3
<1>9. Messages'
  <2>1. send'[Check].is_failure = send[Check].is_failure
        /\ send'[Notify].is_failure = send[Notify].is_failure
    BY <1>1, <1>2, <1>3
  <2>2. pc = "sending" => failing_set(run)' = failing_set(run)
    <3>1. (pc = "sending" => run \in Runs) /\ run' = run
      BY <1>4 DEF ReportsInv, FilesInOrder
    <3> QED
      BY <1>5, <3>1
  <2>3. job.run \in result_files => failing_set(job.run)' = failing_set(job.run)
    <3>1. job.run \in result_files => job.run \in Runs
      BY DEF result_files
    <3>2. job' = job
      BY <1>4
    <3> QED
      BY <1>5, <3>1, <3>2
  <2> QED
    BY <1>4, <1>5, <2>1, <2>2, <2>3 DEF ReportsInv, Messages
<1>10. Tracks'
  <2> SUFFICES ASSUME Followed', Steady', Announced' # {}
               PROVE  Told(Max(Announced))'
    BY DEF Tracks
  <2>1. \A r : failing_set(r)' = failing_set(r)
    BY DEF storeVars, failing_set, Loaded, read_run_file, Failing
  <2>2. Announced' = Announced /\ latest' = latest
    BY <1>4, <1>5 DEF Announced, latest
  <2>3. Undisturbed /\ ~overlap /\ Followed
    BY <1>1, <1>4 DEF Followed, Undisturbed, IssuesWanted
  <2>4. Steady
    <3>1. Unchanged(run)' <=> Unchanged(run)
      BY <1>4 DEF storeVars, Unchanged, HasPrevious, Found, HasId, previous, Older,
                  result_files, failing_set, Loaded, read_run_file, Failing
    <3> QED
      BY <1>4, <2>2, <3>1 DEF Steady
  <2>5. PICK m : m = Max(Announced)
    OBVIOUS
  <2>6. Told(m)
    BY <2>2, <2>3, <2>4, <2>5 DEF ReportsInv, Tracks
  <2>7. owed = {} => open' = open
    <3> SUFFICES ASSUME owed = {} PROVE open # {} <=> send[s].is_failure
      BY <1>2, <2>3, NothingNew DEF ReportsInv, Stages
    <3>1. open # {} <=> failing_set(m) # {}
      BY <2>6 DEF Told
    <3>2. CASE s = Check
      <4>1. pc = "sending" /\ Unchanged(run)
        BY <1>1, <2>4, <3>2 DEF ReportsInv, Discipline, Steady
      <4>2. failing_set(m) = failing_set(run)
        BY <2>5, <4>1, Neighbour
      <4> QED
        BY <3>1, <3>2, <4>1, <4>2 DEF ReportsInv, Messages
    <3>3. CASE s = Notify
      <4>1. job # NoJob /\ job.run = latest /\ pc = "idle"
        BY <1>1, <2>3, <2>4, <3>3 DEF ReportsInv, Discipline, Steady
      <4>2. m = latest /\ latest \in result_files
        BY <2>2, <2>5, <4>1, OlderFiles DEF Announced, latest, ReportsInv
      <4> QED
        BY <2>3, <3>1, <3>3, <4>1, <4>2 DEF ReportsInv, Messages
    <3> QED
      BY <1>2, <3>2, <3>3
  <2>8. Told(m)'
    BY <1>4, <2>1, <2>6, <2>7 DEF Told
  <2> QED
    BY <2>2, <2>5, <2>8 DEF Told
<1> QED
  BY <1>1, <1>5, <1>6, <1>7, <1>8, <1>9, <1>10, InvPartsPrime

LEMMA StutterKeeps ==
    ASSUME ReportsInv, UNCHANGED vars
    PROVE  ReportsInv'
<1>1. UNCHANGED <<storeVars, notifierVars, reportVars>>
  BY DEF vars
<1>2. /\ UNCHANGED <<open, created, send, config, cut>>
      /\ UNCHANGED <<pc, run, mode, queue, job, owed, overlap>>
  BY <1>1 DEF notifierVars, reportVars
<1>3. /\ StorePart' /\ result_files' = result_files /\ Announced' = Announced
      /\ \A q \in Runs : failing_set(q)' = failing_set(q)
  BY <1>1, <1>2, StoreUntouched
<1>4. NotifierTypeOK' /\ RestTypeOK' /\ Discipline'
  BY <1>2 DEF ReportsInv, ReportsTypeOK, NotifierTypeOK, RestTypeOK, Discipline
<1>5. Stages'
  BY <1>2 DEF ReportsInv, Stages, Stage, AtMostOne, Undisturbed
<1>6. \A r : (failing_set(r) = failing_set(r)')
  BY <1>1 DEF storeVars, failing_set, Loaded, read_run_file, Failing
<1>7. Messages'
  <2>1. failing_set(run)' = failing_set(run)
        /\ failing_set(job.run)' = failing_set(job.run)
    BY <1>2, <1>6
  <2> QED
    BY <1>2, <1>3, <2>1 DEF ReportsInv, Messages
<1>8. Tracks'
  <2>1. PICK m : m = Max(Announced)
    OBVIOUS
  <2>2. Told(Max(Announced))' <=> Told(Max(Announced))
    BY <1>2, <1>3, <1>6, <2>1 DEF Told
  <2>3. Steady' <=> Steady
    BY <1>1, <1>2 DEF storeVars, Steady, latest, Unchanged, HasPrevious, Found, HasId,
                      previous, Older, result_files, failing_set, Loaded,
                      read_run_file, Failing
  <2> QED
    BY <1>2, <1>3, <2>2, <2>3
    DEF ReportsInv, Tracks, Followed, Undisturbed, IssuesWanted
<1> QED
  BY <1>3, <1>4, <1>5, <1>7, <1>8, InvPartsPrime

LEMMA ReportsStart == Init => ReportsInv
<1> SUFFICES ASSUME Init PROVE ReportsInv
  OBVIOUS
<1>1. /\ results = [r \in Runs |-> NoResults] /\ tmp = NoFile
      /\ final = [r \in Runs |-> NoFile] /\ doomed = {}
      /\ open = {} /\ created = 0 /\ cut = FALSE
      /\ send = [s \in Senders |-> Idle] /\ config \in Configs
      /\ pc = "idle" /\ run = 0 /\ mode \in Modes /\ queue = <<>> /\ job = NoJob
      /\ owed = {} /\ overlap = FALSE
  BY DEF Init, StoreInit, NotifierInit
<1>2. result_files = {}
  BY <1>1 DEF result_files
<1>3. StorePart
  <2>1. NoResults \in [Installers -> Outcomes]
    BY DEF NoResults, Outcomes
  <2>2. StoreTypeOK
    BY <1>1, <2>1, StoreFacts DEF StoreTypeOK
  <2> QED
    BY <1>1, <1>2, <2>2, StoreFacts
    DEF StorePart, CheckPc, WholeFiles, FilesInOrder
<1>4. Idle \in SendRecords /\ Idle.pc = "idle"
  BY DEF Idle, SendRecords, SendPc, GithubOutcomes
<1>5. NotifierTypeOK
  <2>1. send \in [Senders -> SendRecords]
    BY <1>1, <1>4
  <2>2. created \in 0..MaxIssues
    BY <1>1, IssuesAssumption
  <2> QED
    BY <1>1, <2>1, <2>2 DEF NotifierTypeOK, SendRecords
<1>6. \A s \in Senders : send[s].pc = "idle"
  BY <1>1, <1>4
<1>7. RestTypeOK
  <2>1. job \in [kind : {"none", "run", "digest"}, run : 0..MaxRuns]
    BY <1>1, StoreFacts DEF NoJob
  <2>2. queue \in Seq(Lines)
    BY <1>1, EmptyIsSeq
  <2> QED
    BY <1>1, <2>1, <2>2 DEF RestTypeOK
<1>8. Discipline /\ Messages /\ Tracks
  BY <1>1, <1>2, <1>6, SendersAssumption
  DEF Discipline, Messages, Tracks, Announced
<1>9. Stages
  BY <1>1, <1>6, SendersAssumption, IdleStage DEF Stages, AtMostOne
<1> QED
  BY <1>3, <1>5, <1>7, <1>8, <1>9, InvParts

LEMMA ReportsNext == ReportsInv /\ [Next]_vars => ReportsInv'
<1> SUFFICES ASSUME ReportsInv, [Next]_vars PROVE ReportsInv'
  OBVIOUS
<1>1. ASSUME NEW found \in [Installers -> Outcomes], StartRun(found)
      PROVE  ReportsInv'
  BY <1>1, StartRunKeeps
<1>2. CASE PersistStep
  BY <1>2, PersistKeeps
<1>3. CASE PersistFails
  BY <1>3, PersistFailsKeeps
<1>4. CASE NotAnnounced
  BY <1>4, NotAnnouncedKeeps
<1>5. CASE StaysSilent
  BY <1>5, StaysSilentKeeps
<1>6. CASE BeginLine(Unreadable("part")) \/ BeginLine(Line("bare"))
  <2>1. run \in 0..MaxRuns => Line("bare") \in Lines /\ Unreadable("part") \in Lines
    BY StoreFacts DEF Line, Unreadable, Lines, Texts, build_notification
  <2> QED
    BY <1>6, <2>1, BeginLineKeeps
<1>17. CASE EndLine
  BY <1>17, EndLineKeeps
<1>18. CASE QueueFails
  BY <1>18, QueueFailsKeeps
<1>7. CASE Announce
  BY <1>7, AnnounceKeeps
<1>8. CASE CheckSent
  BY <1>8, CheckSentKeeps
<1>9. CASE KillCheck
  BY <1>9, KillCheckKeeps
<1>10. ASSUME NEW r \in Runs, NotifyRun(r) PROVE ReportsInv'
  BY <1>10, NotifyRunKeeps
<1>11. CASE DigestRead
  BY <1>11, DigestReadKeeps
<1>12. CASE NotifyRunSent
  BY <1>12, NotifyRunSentKeeps
<1>13. CASE DigestSent
  BY <1>13, DigestSentKeeps
<1>14. CASE KillNotify
  BY <1>14, KillNotifyKeeps
<1>15. ASSUME NEW s \in Senders, SenderStep(s), UNCHANGED <<storeVars, reportVars>>
       PROVE  ReportsInv'
  BY <1>15, SenderStepKeeps
<1>16. CASE UNCHANGED vars
  BY <1>16, StutterKeeps
<1> QED
  BY <1>1, <1>2, <1>3, <1>4, <1>5, <1>6, <1>7, <1>8, <1>9, <1>10, <1>11, <1>12,
     <1>13, <1>14, <1>15, <1>16, <1>17, <1>18 DEF Next

-----------------------------------------------------------------------------
(* The inductive invariant of the reports (cmd_check's epilogue and        *)
(* cmd_notify): types, the order of the files, who sends what, what a      *)
(* sender knows, and which run the rolling issue speaks of.                *)
THEOREM ReportsInvariant == Spec => []ReportsInv
<1>1. Init => ReportsInv
  BY ReportsStart
<1>2. ReportsInv /\ [Next]_vars => ReportsInv'
  BY ReportsNext
<1> QED
  BY <1>1, <1>2, PTL DEF Spec

(* Whoever reads the results directory at any moment reads of every run it *)
(* lists exactly what that run found (jsonl.rs, persist_run and prune),    *)
(* whatever the kills and the retention.                                   *)
THEOREM HistoryReadsTrue == Spec => []HistoryIsTrue
<1>1. ReportsInv => HistoryIsTrue
  <2> SUFFICES ASSUME ReportsInv, NEW r \in result_files
               PROVE  /\ HasId(Loaded(r)) /\ Loaded(r).summary
                      /\ Loaded(r).entries = {<<i, results[r][i]>> : i \in Installers}
    BY DEF HistoryIsTrue
  <2>1. Found(r) /\ final[r] = WholeFile
    BY WholeIsFound DEF ReportsInv
  <2>2. Loaded(r).summary = (final[r] = WholeFile)
        /\ Loaded(r).entries = {<<i, results[r][i]>> :
                                  i \in {j \in Installers : j < WholeFile}}
    BY <2>1 DEF Loaded, read_run_file
  <2>3. {j \in Installers : j < WholeFile} = Installers
    BY StoreAssumption DEF Installers, WholeFile
  <2>4. Loaded(r).entries = {<<i, results[r][i]>> : i \in Installers}
    BY <2>2, <2>3, Zenon
  <2>5. Loaded(r).summary
    BY <2>1, <2>2, Zenon
  <2> QED
    BY <2>1, <2>4, <2>5 DEF Found
<1> QED
  BY <1>1, ReportsInvariant, PTL

(* Refused requests, lost replies and kills alone never lead to a second   *)
(* rolling issue (Notifier::send, notify.rs).                              *)
THEOREM OneIssueAtATime == Spec => []OneIssueUndisturbed
<1>1. ReportsInv => OneIssueUndisturbed
  <2> SUFFICES ASSUME ReportsInv, Undisturbed PROVE OneRollingIssue
    BY DEF OneIssueUndisturbed
  <2>1. AtMostOne
    BY DEF ReportsInv, Stages
  <2>2. CASE open = {}
    BY <2>2, FS_EmptySet DEF OneRollingIssue
  <2>3. CASE open # {}
    <3>1. PICK i : open = {i}
      BY <2>1, <2>3 DEF AtMostOne
    <3>2. Cardinality(open) = 1
      BY <3>1, FS_Singleton
    <3> QED
      BY <3>2 DEF OneRollingIssue
  <2> QED
    BY <2>2, <2>3
<1> QED
  BY <1>1, ReportsInvariant, PTL

(* The rolling issue is open exactly when the newest results file has      *)
(* failures, or that file's failing set is the one GitHub was not told of  *)
(* when a run last changed it (dispatch_notification with on_change or     *)
(* every_run), for any retention but one file.                             *)
THEOREM IssueFollowsRuns == Spec => []IssueTracksLatest
<1>1. ReportsInv => IssueTracksLatest
  <2> SUFFICES ASSUME ReportsInv, Quiet, Undisturbed, mode # "daily_digest",
                      Keep # 1, IssuesWanted, result_files # {}
               PROVE  Told(latest)
    BY DEF IssueTracksLatest, TellsLatest, Told
  <2>1. Followed /\ Steady /\ Announced = result_files
    BY DEF Followed, Steady, Quiet, Announced
  <2> QED
    BY <2>1 DEF ReportsInv, Tracks, latest
<1> QED
  BY <1>1, ReportsInvariant, PTL
=============================================================================
