---------------------------- MODULE ChecksumRefresh ----------------------------
(***************************************************************************)
(* The deterministic refresh of drifted pins (refresh_checksums in main.rs *)
(* over remediation/checksums.rs): fetch what is served, record it in the  *)
(* ledger, run every drifted installer with its new hash, render a         *)
(* candidate checksums.yaml and put it on a branch.  Two processes do it:  *)
(* `check --remediate', under the run lock, for its mismatches, and        *)
(* `remediate checksums', which takes no lock.  The installer's host may   *)
(* serve something else at any moment, branches are merged by people, and  *)
(* each process may be killed at any step.                                 *)
(*                                                                         *)
(* A refresh reads the checksums.yaml in the checkout's working tree,      *)
(* which people edit, and bases its branch on the checkout's HEAD, which   *)
(* they commit and merge to.  The file is read twice in a row, as text and *)
(* parsed: one step here.                                                  *)
(*                                                                         *)
(* Verifying an entry is a whole run of the Executor: it fetches again and *)
(* passes only bytes that have the given hash.  The candidate copies the   *)
(* file read at the start but for the pins it refreshes; a file is its     *)
(* pins here, each under the key line of its name and nothing but a name   *)
(* and a colon on that line (the rewrite takes a key line with a comment   *)
(* behind it for no key line, and its pin for one of the name before).  A  *)
(* PR adds nothing to the branch, and failing to open one is only logged.  *)
(***************************************************************************)
EXTENDS Ledger, FiniteSetsExt

CONSTANTS MaxRefreshes,   \* bound: refreshes of one behaviour
          MaxNames,       \* bound: names they are for, in all
          MaxChanges,     \* bound: changes of what is served
          MaxEdits        \* bound: edits of the working tree's file

ASSUME RefreshAssumption ==
    /\ Scripts \subseteq Nat \ {0} /\ Scripts # {}
    /\ Installers \subseteq Nat \ {0} /\ IsFiniteSet(Installers)
    /\ MaxRefreshes \in Nat /\ MaxNames \in Nat
    /\ MaxChanges \in Nat /\ MaxEdits \in Nat

VARIABLES served,     \* what each installer's URL yields
          changes,    \* how often that has changed
          pins,       \* checksums.yaml at the checkout's HEAD
          file,       \* checksums.yaml in the checkout's working tree
          edits,      \* how often people have edited it there
          started,    \* refreshes begun
          names,      \* names they were for, in all
          refresh,    \* of each process: where it is and what it has found
          branches,   \* branches with a refresh commit
          outcome,    \* that the last check attached to its results
          tested,     \* ghost: scripts that ran and passed
          marked,     \* ghost: installers with a script marked verified
          disturbed   \* ghost: refreshes overlapped, or the ledger failed

hostVars == <<served, changes, pins, file, edits>>
ghostVars == <<tested, marked, disturbed>>
vars == <<ledgerVars, hostVars, ghostVars, started, names, refresh, branches, outcome>>

Check == "check"
Modes == {"advisory", "propose", "apply"}
Kinds == {"none", "applied", "proposed", "verified", "failed", "skipped"}
RefreshPc == {"idle", "walk", "record", "save", "mark", "marked",
              "commit", "push", "report"}
(* A name's place in the plan.                                             *)
Places == {"out", "todo", "skipped", "same", "drifted", "passed", "failed"}
NoScript == 0
NoPlan == [i \in Installers |-> [place |-> "out", new |-> NoScript]]
AnyPins == [Installers -> Scripts]

Idle == [pc |-> "idle", id |-> 0, mode |-> "advisory", verify |-> FALSE,
         original |-> [i \in Installers |-> NoScript], at |-> 0,
         base |-> [i \in Installers |-> NoScript], plan |-> NoPlan]

RefreshTypeOK ==
    /\ LedgerTypeOK
    /\ served \in AnyPins /\ pins \in AnyPins /\ file \in AnyPins
    /\ changes \in 0..MaxChanges /\ edits \in 0..MaxEdits
    /\ started \in 0..MaxRefreshes /\ names \in 0..MaxNames
    /\ \A u \in Users : /\ refresh[u].pc \in RefreshPc /\ refresh[u].mode \in Modes
                        /\ refresh[u].at \in Installers \cup {0}
                        /\ \A i \in Installers : refresh[u].plan[i].place \in Places
    /\ \A b \in branches : b.pins \in AnyPins /\ b.base \in AnyPins /\ b.read \in AnyPins
    /\ outcome \in [Installers -> Kinds]
    /\ tested \subseteq Installers \X Scripts /\ marked \subseteq Installers

Init ==
    /\ LedgerInit
    /\ pins = [i \in Installers |-> Min(Scripts)] /\ served = pins /\ file = pins
    /\ changes = 0 /\ edits = 0 /\ started = 0 /\ names = 0
    /\ refresh = [u \in Users |-> Idle]
    /\ branches = {} /\ outcome = [i \in Installers |-> "none"]
    /\ tested = {} /\ marked = {} /\ disturbed = FALSE

pc(u) == refresh[u].pc
Placed(u, place) == {i \in Installers : refresh[u].plan[i].place = place}
Drifted(u) == Placed(u, "drifted") \cup Placed(u, "passed") \cup Placed(u, "failed")
Now(u, r) == refresh' = [refresh EXCEPT ![u] = r]
Goto(u, label) == Now(u, [refresh[u] EXCEPT !.pc = label])
Back(u) == Now(u, [refresh[u] EXCEPT !.pc = "walk", !.at = 0])

-----------------------------------------------------------------------------
(* A refresh of the given names begins by reading the checkout's           *)
(* checksums.yaml, uncommitted edits included.  A check always verifies.   *)
Begin(u, only, mode, verify) ==
    /\ pc(u) = "idle" /\ started < MaxRefreshes
    /\ u = Check => verify
    /\ names + Cardinality(only) <= MaxNames
    /\ started' = started + 1 /\ names' = names + Cardinality(only)
    /\ Now(u, [Idle EXCEPT !.pc = "walk", !.id = started + 1, !.mode = mode,
                  !.verify = verify, !.original = file,
                  !.plan = [i \in Installers |->
                     [place |-> IF i \in only THEN "todo" ELSE "out", new |-> NoScript]]])
    /\ outcome' = IF u = Check THEN [i \in Installers |-> "none"] ELSE outcome
    /\ disturbed' = (disturbed \/ \E v \in Users \ {u} : pc(v) # "idle")
    /\ UNCHANGED <<ledgerVars, hostVars, branches, tested, marked>>

(* plan_refresh, one name: disabled, without URL or pin, or not to be had; *)
(* else its bytes are the pinned ones or others, and get recorded.         *)
Fetch(u) ==
    /\ pc(u) = "walk" /\ Placed(u, "todo") # {}
    /\ LET i == Min(Placed(u, "todo"))
           place == IF served[i] = refresh[u].original[i] THEN "same" ELSE "drifted"
       IN  \/ Now(u, [refresh[u] EXCEPT !.plan[i].place = "skipped"])
           \/ Now(u, [refresh[u] EXCEPT !.plan[i] = [place |-> place, new |-> served[i]],
                                        !.at = i, !.pc = "record"])
    /\ UNCHANGED <<ledgerVars, hostVars, ghostVars, started, names, branches, outcome>>

(* ledger.record of the bytes just fetched.                                *)
Record(u) ==
    LET i == refresh[u].at IN
      /\ \/ pc(u) = "record" /\ RecordLoad(u, i, refresh[u].plan[i].new) /\ Goto(u, "save")
         \/ pc(u) = "save" /\ SaveIndex(u, i) /\ Back(u)
      /\ UNCHANGED <<hostVars, ghostVars, started, names, branches, outcome>>

(* An I/O error of the ledger is ignored.                                  *)
LedgerFails(u) ==
    /\ pc(u) \in {"record", "save", "mark", "marked"}
    /\ Back(u) /\ DropCopy(u)
    /\ disturbed' = TRUE
    /\ UNCHANGED <<hostVars, tested, marked, started, names, branches, outcome>>

(* The plan is complete.                                                   *)
Planned(u) == pc(u) = "walk" /\ Placed(u, "todo") = {}

ToVerify(u) == IF refresh[u].verify THEN Placed(u, "drifted") ELSE {}
Ready(u) == Planned(u) /\ ToVerify(u) = {}

(* Mutant: the run is not given the new hash to insist on.                 *)
VerifyWithoutHash(u) ==
    /\ Planned(u) /\ ToVerify(u) # {}
    /\ LET i == Min(ToVerify(u)) IN
         /\ Now(u, [refresh[u] EXCEPT !.plan[i].place = "passed", !.at = i, !.pc = "mark"])
         /\ tested' = tested \cup {<<i, served[i]>>}
    /\ UNCHANGED <<ledgerVars, hostVars, started, names, branches, outcome, marked, disturbed>>

(* verify_entry, of the next drifted entry: the installer runs if what is  *)
(* served now has the new hash, and may then pass.                         *)
VerifyEntry(u) ==
    /\ Planned(u) /\ ToVerify(u) # {}
    /\ LET i == Min(ToVerify(u)) IN
         \/ /\ Now(u, [refresh[u] EXCEPT !.plan[i].place = "failed"])
            /\ UNCHANGED tested
         \/ /\ served[i] = refresh[u].plan[i].new
            /\ Now(u, [refresh[u] EXCEPT !.plan[i].place = "passed", !.at = i, !.pc = "mark"])
            /\ tested' = tested \cup {<<i, served[i]>>}
    /\ UNCHANGED <<ledgerVars, hostVars, started, names, branches, outcome, marked, disturbed>>

(* ledger.mark_verified of the entry that passed.                          *)
Mark(u) ==
    LET i == refresh[u].at
        s == refresh[u].plan[i].new
    IN  /\ \/ /\ pc(u) = "mark" /\ Markable(i, s)
              /\ MarkLoad(u, i, s) /\ Goto(u, "marked")
              /\ UNCHANGED marked
           \/ /\ pc(u) = "mark" /\ ~Markable(i, s)
              /\ Back(u)
              /\ UNCHANGED <<ledgerVars, marked>>
           \/ /\ pc(u) = "marked" /\ SaveIndex(u, i)
              /\ Back(u)
              /\ marked' = marked \cup {i}
        /\ UNCHANGED <<hostVars, started, names, branches, outcome, tested, disturbed>>

-----------------------------------------------------------------------------
(* The entries a candidate takes: the verified ones, or without            *)
(* verification all of them.                                               *)
Includable(u) == IF refresh[u].verify THEN Placed(u, "passed") ELSE Drifted(u)

(* render_candidate: the file read at the start, with the new pins.        *)
render_candidate(u) ==
    [i \in Installers |-> IF i \in Includable(u) THEN refresh[u].plan[i].new
                          ELSE refresh[u].original[i]]

Proposes(u) == refresh[u].mode # "advisory" /\ Includable(u) # {}

(* The candidate is written, and propose opens a worktree of HEAD as it is *)
(* now.                                                                    *)
AddWorktree(u) ==
    /\ Ready(u) /\ Proposes(u)
    /\ Now(u, [refresh[u] EXCEPT !.pc = "commit", !.base = pins])
    /\ UNCHANGED <<ledgerVars, hostVars, ghostVars, started, names, branches, outcome>>

Commit(u) ==
    /\ pc(u) = "commit"
    /\ branches' = branches \cup
         {[id |-> refresh[u].id, base |-> refresh[u].base, pins |-> render_candidate(u),
           read |-> refresh[u].original, verify |-> refresh[u].verify, pushed |-> FALSE]}
    /\ Goto(u, IF refresh[u].mode = "apply" THEN "push" ELSE "report")
    /\ UNCHANGED <<ledgerVars, hostVars, ghostVars, started, names, outcome>>

MyBranch(u, b) == b.id = refresh[u].id

(* What the results of a check get, by their place in the plan.            *)
OutcomeOf(u, pushed, i) ==
    LET place == refresh[u].plan[i].place IN
      CASE place = "out" -> "none"
        [] place = "passed" -> IF pushed THEN "applied"
                               ELSE IF Proposes(u) THEN "proposed" ELSE "verified"
        [] place \in {"failed", "skipped"} -> "failed"
        [] place = "same" -> "skipped"

(* remediate_results attaches the outcomes; `remediate checksums' prints   *)
(* them and exits.                                                         *)
Done(u, pushed) ==
    /\ outcome' = IF u = Check THEN [i \in Installers |-> OutcomeOf(u, pushed, i)]
                  ELSE outcome
    /\ Now(u, Idle)
    /\ UNCHANGED <<ledgerVars, hostVars, ghostVars, started, names>>

(* The refresh ends without a branch: no drift, nothing to include, or the *)
(* advisory mode.                                                          *)
EndsWithoutBranch(u) ==
    /\ Ready(u) /\ ~Proposes(u)
    /\ Done(u, FALSE)
    /\ UNCHANGED branches

OnRemote(u) ==
    branches' = {IF MyBranch(u, b) THEN [b EXCEPT !.pushed = TRUE] ELSE b : b \in branches}

(* Mutant: a push that fails is taken for one that was not wanted.         *)
PushAnyway(u) ==
    /\ pc(u) = "push"
    /\ UNCHANGED branches \/ OnRemote(u)
    /\ Goto(u, "report")
    /\ UNCHANGED <<ledgerVars, hostVars, ghostVars, started, names, outcome>>

(* git push, in apply mode.                                                *)
Push(u) ==
    /\ pc(u) = "push"
    /\ OnRemote(u)
    /\ Goto(u, "report")
    /\ UNCHANGED <<ledgerVars, hostVars, ghostVars, started, names, outcome>>

(* The proposal is made, and the refresh is over.                          *)
Report(u) ==
    /\ pc(u) = "report"
    /\ Done(u, refresh[u].mode = "apply")
    /\ UNCHANGED branches

(* An error of the refresh: no Docker, no candidate file, git failing at   *)
(* any of its steps.  Every result of the check gets it; a worktree or a   *)
(* commit made so far stays.  A push may fail after the remote has taken   *)
(* the branch, if only its answer is lost.                                 *)
RefreshFails(u) ==
    /\ \/ Planned(u) /\ ToVerify(u) = Drifted(u) /\ Drifted(u) # {} /\ UNCHANGED branches
       \/ Ready(u) /\ Drifted(u) # {} /\ UNCHANGED branches
       \/ pc(u) = "commit" /\ UNCHANGED branches
       \/ pc(u) = "push" /\ (UNCHANGED branches \/ OnRemote(u))
    /\ outcome' = IF u = Check
                  THEN [i \in Installers |-> IF refresh[u].plan[i].place = "out"
                                             THEN "none" ELSE "failed"]
                  ELSE outcome
    /\ Now(u, Idle)
    /\ UNCHANGED <<ledgerVars, hostVars, ghostVars, started, names>>

Kill(u) ==
    /\ pc(u) # "idle"
    /\ Now(u, Idle)
    /\ DropCopy(u)
    /\ UNCHANGED <<hostVars, ghostVars, started, names, branches, outcome>>

-----------------------------------------------------------------------------
(* The installer's host serves another version.                            *)
UpstreamChanges(i, s) ==
    /\ changes < MaxChanges /\ s # served[i]
    /\ served' = [served EXCEPT ![i] = s] /\ changes' = changes + 1
    /\ UNCHANGED <<ledgerVars, ghostVars, pins, file, edits, started, names, refresh, branches, outcome>>

(* Somebody edits the file in the checkout, and commits what is there.     *)
Edit(i, s) ==
    /\ edits < MaxEdits /\ s # file[i]
    /\ file' = [file EXCEPT ![i] = s] /\ edits' = edits + 1
    /\ UNCHANGED <<ledgerVars, ghostVars, served, changes, pins, started, names, refresh,
                   branches, outcome>>

CommitEdits ==
    /\ pins # file
    /\ pins' = file
    /\ UNCHANGED <<ledgerVars, ghostVars, served, changes, file, edits, started, names,
                   refresh, branches, outcome>>

(* Somebody merges a branch: the pins it changes reach the checkout, where *)
(* git insists on a file without uncommitted edits.                        *)
Merge(b) ==
    /\ file = pins
    /\ pins' = [i \in Installers |-> IF b.pins[i] # b.base[i] THEN b.pins[i] ELSE pins[i]]
    /\ pins' # pins
    /\ file' = pins'
    /\ UNCHANGED <<ledgerVars, ghostVars, served, changes, edits, started, names, refresh,
                   branches, outcome>>

RefreshStep(u) ==
    \/ Fetch(u) \/ Record(u) \/ LedgerFails(u) \/ VerifyEntry(u)
    \/ Mark(u) \/ AddWorktree(u) \/ Commit(u) \/ EndsWithoutBranch(u)
    \/ Push(u) \/ Report(u) \/ RefreshFails(u)

Next ==
    \/ \E u \in Users, only \in SUBSET Installers \ {{}}, m \in Modes, v \in BOOLEAN :
          Begin(u, only, m, v)
    \/ \E u \in Users : RefreshStep(u) \/ Kill(u)
    \/ \E i \in Installers, s \in Scripts : UpstreamChanges(i, s) \/ Edit(i, s)
    \/ CommitEdits
    \/ \E b \in branches : Merge(b)

Spec == Init /\ [][Next]_vars

-----------------------------------------------------------------------------
(* Every pin by which the branch of a verifying refresh differs from the   *)
(* commit it is based on is the hash of a script that ran and passed,      *)
(* whatever the host served before and after, or else a pin the refresh    *)
(* left as it had read it: where the working tree's file at the start was  *)
(* not that of HEAD at the end (an uncommitted edit, or a commit made in   *)
(* between) the branch carries the difference, untested                    *)
(* (checksums.rs:160-234,299, main.rs:1048,1103).                          *)
BranchIsTested ==
    \A b \in branches : b.verify =>
        \A i \in Installers : b.pins[i] # b.base[i] =>
            <<i, b.pins[i]>> \in tested \/ b.pins[i] = b.read[i]

(* Once a script of an installer is marked verified there always is a      *)
(* verified script to compare with, bytes included: neither pruning nor a  *)
(* process killed between two files loses it, as long as no two refreshes  *)
(* overlap and no file operation of the ledger fails (ledger.rs:81-163,    *)
(* "verified scripts are pruned last").                                    *)
BaselineSurvives == ~disturbed => \A i \in marked : HasLatestVerified(i)

(* The branches of the check under way that change the pin of i.           *)
Carrying(i) == {b \in branches' : MyBranch(Check, b) /\ b.pins[i] # b.read[i]}
Pushed(i) == \E b \in Carrying(i) : b.pushed

(* A step that attaches an outcome to the result of installer i: what is   *)
(* on the remote then agrees with it.                                      *)
AttachedMatchesRemote(i) ==
    outcome'[i] # outcome[i] =>
        /\ outcome'[i] = "applied" => Pushed(i)
        /\ outcome'[i] = "proposed" => Carrying(i) # {} /\ ~Pushed(i)
        /\ outcome'[i] = "verified" => Carrying(i) = {}
        /\ outcome'[i] = "failed" /\ Pushed(i) =>
              \A j \in Installers : outcome'[j] \in {"none", "failed"}

(* What a check reports of a drifted installer agrees with the remote: an  *)
(* applied pin is on a pushed branch of that check, a proposed one only on *)
(* a branch that is not pushed, a verified one on none.  A failed one is   *)
(* on the remote only when git reported a push that got there as failed:   *)
(* every result of the check is failed then (main.rs:810-890,              *)
(* checksums.rs:319-321).                                                  *)
OutcomesMatchRemote == [][\A i \in Installers : AttachedMatchesRemote(i)]_vars

(* main.rs:331 on --no-verify, "candidate still written; nothing proposed".*)
NothingProposedUnverified == \A b \in branches : b.verify
=============================================================================
