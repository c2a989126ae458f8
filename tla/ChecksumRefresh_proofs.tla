------------------------ MODULE ChecksumRefresh_proofs ------------------------
(***************************************************************************)
(* Refreshes of checksums.yaml, for any set of installers, scripts and     *)
(* processes and any number of refreshes: what a verifying refresh changes *)
(* in the file it has read has been tested, the outcomes of a check agree  *)
(* with what it pushed, and the ledger does not lose the last verified     *)
(* script.                                                                 *)
(***************************************************************************)
EXTENDS ChecksumRefresh, WellFoundedInduction, FiniteSetTheorems, TLAPS

Values == Scripts \cup {NoScript}
Files == [Installers -> Values]
Plans == [Installers -> [place : Places, new : Values]]
Recs == [pc : RefreshPc, id : Nat, mode : Modes, verify : BOOLEAN, original : Files,
         at : Installers \cup {0}, base : Files, plan : Plans]
BranchRecs == [id : Nat, base : AnyPins, pins : AnyPins, read : AnyPins,
               verify : BOOLEAN, pushed : BOOLEAN]

Active(r) == r.pc # "idle"
Included(r) == IF r.verify THEN {i \in Installers : r.plan[i].place = "passed"}
               ELSE {i \in Installers : r.plan[i].place \in {"drifted", "passed", "failed"}}
Candidate(r) == [i \in Installers |-> IF i \in Included(r) THEN r.plan[i].new
                                      ELSE r.original[i]]

(* What a process holds: a file as it was read, only changed pins among    *)
(* the drifted, only tested ones among the passed, a complete plan at the  *)
(* proposal, which an advisory refresh does not come to.                   *)
Sound(r) ==
    /\ r \in Recs
    /\ Active(r) => r.original \in AnyPins
    /\ r.pc \in {"commit", "push", "report"} => r.base \in AnyPins /\ r.mode # "advisory"
    /\ r.pc = "push" => r.mode = "apply"
    /\ \A i \in Installers :
         r.plan[i].place \in {"same", "drifted", "passed", "failed"} => r.plan[i].new \in Scripts
    /\ \A i \in Installers : r.plan[i].place \in {"drifted", "passed", "failed"} =>
         r.plan[i].new # r.original[i]
    /\ \A i \in Installers : r.plan[i].place = "passed" => <<i, r.plan[i].new>> \in tested
    /\ r.pc \in {"commit", "push", "report"} => \A i \in Installers :
         r.plan[i].place # "todo" /\ (r.verify => r.plan[i].place # "drifted")
    /\ Active(r) => r.id <= started

(* What a process has to do with a branch of its refresh: it is on the     *)
(* remote from the push on.                                                *)
Owns(r, b) ==
    /\ r.pc \in {"push", "report"}
    /\ b.pushed <=> r.pc = "report" /\ r.mode = "apply"
    /\ b.pins = Candidate(r) /\ b.read = r.original

RefreshType ==
    /\ pins \in AnyPins /\ file \in AnyPins /\ served \in AnyPins /\ started \in Nat
    /\ refresh \in [Users -> Recs]
    /\ branches \subseteq BranchRecs
    /\ \A b \in branches : b.id <= started

UsersSound == \A u \in Users : Sound(refresh[u])
CheckVerifies == \A u \in Users : u = Check /\ Active(refresh[u]) => refresh[u].verify
IdsDiffer == \A u, v \in Users :
    Active(refresh[u]) /\ Active(refresh[v]) /\ refresh[u].id = refresh[v].id => u = v
OwnBranches == \A u \in Users : \A b \in branches :
    Active(refresh[u]) /\ b.id = refresh[u].id => Owns(refresh[u], b)
PushHasBranch == \A u \in Users : refresh[u].pc \in {"push", "report"} =>
    \E b \in branches : b.id = refresh[u].id

RefreshInv ==
    /\ RefreshType /\ UsersSound /\ CheckVerifies /\ IdsDiffer
    /\ OwnBranches /\ PushHasBranch /\ BranchIsTested

-----------------------------------------------------------------------------
(* The records a step gives a process.                                     *)
Same(q, r) ==
    /\ q.id = r.id /\ q.mode = r.mode /\ q.verify = r.verify
    /\ q.original = r.original /\ q.plan = r.plan

Begun(only, n, m, v, f) ==
    [Idle EXCEPT !.pc = "walk", !.id = n, !.mode = m, !.verify = v, !.original = f,
                 !.plan = [i \in Installers |->
                   [place |-> IF i \in only THEN "todo" ELSE "out", new |-> NoScript]]]
WithBase(r, f) == [r EXCEPT !.pc = "commit", !.base = f]
WithPlace(r, i, p) == [r EXCEPT !.plan[i].place = p]
WithFetched(r, i, p, n) ==
    [r EXCEPT !.plan[i] = [place |-> p, new |-> n], !.at = i, !.pc = "record"]
WithPassed(r, i) == [r EXCEPT !.plan[i].place = "passed", !.at = i, !.pc = "mark"]

LEMMA IdleIsSound == Sound(Idle) /\ ~Active(Idle)
<1>1. Idle \in Recs
  <2>1. NoPlan \in Plans
    BY Zenon DEF NoPlan, Plans, Places, Values
  <2>2. [i \in Installers |-> NoScript] \in Files
    BY DEF Files, Values
  <2> QED
    BY <2>1, <2>2 DEF Idle, Recs, RefreshPc, Modes
<1>2. Idle.pc = "idle" /\ Idle.plan = NoPlan
  BY DEF Idle
<1>3. \A i \in Installers : Idle.plan[i].place = "out"
  BY <1>2 DEF NoPlan
<1> QED
  BY <1>1, <1>2, <1>3 DEF Sound, Active

LEMMA PcSet ==
    ASSUME NEW r \in Recs, NEW l \in RefreshPc,
           NEW q, q = [r EXCEPT !.pc = l]
    PROVE  q \in Recs /\ q.pc = l /\ q.base = r.base /\ q.at = r.at /\ Same(q, r)
BY DEF Recs, Same

LEMMA WalkSet ==
    ASSUME NEW r \in Recs,
           NEW q, q = [r EXCEPT !.pc = "walk", !.at = 0]
    PROVE  q \in Recs /\ q.pc = "walk" /\ Same(q, r)
BY DEF Recs, Same, RefreshPc

LEMMA BaseSet ==
    ASSUME NEW r \in Recs, NEW f \in Files,
           NEW q, q = WithBase(r, f)
    PROVE  q \in Recs /\ q.pc = "commit" /\ q.base = f /\ Same(q, r)
BY DEF WithBase, Recs, Same, RefreshPc

LEMMA PlaceSet ==
    ASSUME NEW r \in Recs, NEW i \in Installers, NEW p \in Places,
           NEW q, q = WithPlace(r, i, p)
    PROVE  /\ q \in Recs /\ q.pc = r.pc /\ q.id = r.id /\ q.verify = r.verify
           /\ q.original = r.original /\ q.base = r.base /\ q.at = r.at
           /\ q.plan[i].place = p /\ q.plan[i].new = r.plan[i].new
           /\ \A j \in Installers : j # i => q.plan[j] = r.plan[j]
BY DEF WithPlace, Recs, Plans
LEMMA FetchedSet ==
    ASSUME NEW r \in Recs, NEW i \in Installers, NEW p \in Places, NEW n \in Values,
           NEW q, q = WithFetched(r, i, p, n)
    PROVE  /\ q \in Recs /\ q.pc = "record" /\ q.at = i /\ q.id = r.id /\ q.verify = r.verify
           /\ q.original = r.original
           /\ q.plan[i] = [place |-> p, new |-> n]
           /\ \A j \in Installers : j # i => q.plan[j] = r.plan[j]
BY DEF WithFetched, Recs, Plans, RefreshPc

LEMMA PassedSet ==
    ASSUME NEW r \in Recs, NEW i \in Installers,
           NEW q, q = WithPassed(r, i)
    PROVE  /\ q \in Recs /\ q.pc = "mark" /\ q.at = i /\ q.id = r.id /\ q.verify = r.verify
           /\ q.original = r.original
           /\ q.plan[i].place = "passed" /\ q.plan[i].new = r.plan[i].new
           /\ \A j \in Installers : j # i => q.plan[j] = r.plan[j]
BY DEF WithPassed, Recs, Plans, RefreshPc, Places

LEMMA BegunSet ==
    ASSUME NEW n \in Nat, NEW m \in Modes, NEW v \in BOOLEAN, NEW f \in Files, NEW only,
           NEW q, q = Begun(only, n, m, v, f)
    PROVE  /\ q \in Recs /\ q.pc = "walk" /\ q.id = n /\ q.verify = v
           /\ q.original = f
           /\ \A i \in Installers : q.plan[i].place \in {"todo", "out"}
<1> DEFINE P == [i \in Installers |->
                   [place |-> IF i \in only THEN "todo" ELSE "out", new |-> NoScript]]
<1>1. P \in Plans /\ \A i \in Installers : P[i].place \in {"todo", "out"}
  BY DEF Plans, Places, Values
<1>2. q = [Idle EXCEPT !.pc = "walk", !.id = n, !.mode = m, !.verify = v,
                       !.original = f, !.plan = P]
  BY Zenon DEF Begun
<1> HIDE DEF P
<1>3. PICK Z \in Files : Idle = [pc |-> "idle", id |-> 0, mode |-> "advisory",
        verify |-> FALSE, original |-> Z, at |-> 0, base |-> Z, plan |-> NoPlan]
  <2>1. [i \in Installers |-> NoScript] \in Files
    BY DEF Files, Values
  <2> QED
    BY <2>1, Zenon DEF Idle
<1>4. q = [pc |-> "walk", id |-> n, mode |-> m, verify |-> v, original |-> f,
           at |-> 0, base |-> Z, plan |-> P]
  BY <1>2, <1>3
<1>5. q \in Recs /\ q.plan = P
  BY <1>1, <1>4 DEF Recs, RefreshPc
<1>6. q.pc = "walk" /\ q.id = n /\ q.verify = v /\ q.original = f
  BY <1>4
<1> QED
  BY <1>1, <1>5, <1>6

LEMMA LeastIsMember ==
    ASSUME NEW S, S \subseteq Nat, S # {}
    PROVE  Min(S) \in S
<1> DEFINE R == {ss \in Nat \X Nat : ss[1] < ss[2]}
<1>1. IsWellFoundedOn(R, Nat)
  BY NatLessThanWellFounded DEF OpToRel
<1>2. PICK x \in S : \A y \in S : ~ (<<y, x>> \in R)
  <2> HIDE DEF R
  <2> QED
    BY <1>1, WFMin
<1>3. ASSUME NEW y \in S PROVE x =< y
  <2>1. x \in Nat /\ y \in Nat /\ <<y, x>> \in Nat \X Nat
    OBVIOUS
  <2>2. y < x => <<y, x>> \in R
    BY <2>1
  <2> QED
    BY <1>2, <2>1, <2>2
<1> QED
  BY <1>2, <1>3 DEF Min

(* The next name of a walk is one of the installers.                       *)
LEMMA MinIsMember ==
    ASSUME NEW S, S \subseteq Installers, S # {}
    PROVE  Min(S) \in S
BY LeastIsMember, RefreshAssumption

LEMMA FirstScript == Min(Scripts) \in Scripts
BY LeastIsMember, RefreshAssumption

LEMMA CandidateFacts ==
    ASSUME NEW u \in Users, RefreshType
    PROVE  /\ render_candidate(u) = Candidate(refresh[u])
           /\ Includable(u) = Included(refresh[u])
BY DEF RefreshType, render_candidate, Candidate, Includable, Included, Placed, Drifted

LEMMA CandidateType ==
    ASSUME NEW r, Sound(r), Active(r)
    PROVE  Candidate(r) \in AnyPins
<1>1. r.original \in AnyPins
  BY DEF Sound
<1>2. \A i \in Included(r) : r.plan[i].new \in Scripts
  BY DEF Sound, Included
<1> QED
  BY <1>1, <1>2 DEF Candidate, AnyPins

LEMMA FilesOfPins == AnyPins \subseteq Files
BY DEF AnyPins, Files, Values

-----------------------------------------------------------------------------
(* A step of one process that leaves branches alone, on its way to them.   *)
LEMMA WorkKeepsInv ==
    ASSUME RefreshInv, NEW u \in Users, NEW q, Now(u, q), Sound(q)',
           Active(refresh[u]), refresh[u].pc \notin {"push", "report"},
           q.pc \notin {"idle", "push", "report"}, q.id = refresh[u].id, q.verify = refresh[u].verify,
           pins' = pins, file' = file, served' = served, started' = started, branches' = branches,
           tested \subseteq tested'
    PROVE  RefreshInv'
<1>1. refresh \in [Users -> Recs] /\ q \in Recs
  BY DEF RefreshInv, RefreshType, Sound
<1>2. /\ refresh' \in [Users -> Recs] /\ refresh'[u] = q
      /\ \A v \in Users : v # u => refresh'[v] = refresh[v]
  BY <1>1 DEF Now
<1>3. RefreshType'
  BY <1>2 DEF RefreshInv, RefreshType
<1>4. UsersSound'
  <2> SUFFICES ASSUME NEW v \in Users PROVE Sound(refresh[v])'
    BY DEF UsersSound
  <2>1. CASE v = u
    BY <1>2, <2>1 DEF Sound, Active
  <2>2. CASE v # u
    <3>1. Sound(refresh[v]) /\ refresh'[v] = refresh[v]
      BY <1>2, <2>2 DEF RefreshInv, UsersSound
    <3> QED
      BY <3>1 DEF Sound, Active
  <2> QED
    BY <2>1, <2>2
<1>5. CheckVerifies' /\ IdsDiffer'
  BY <1>2 DEF RefreshInv, CheckVerifies, IdsDiffer, Active
<1>6. OwnBranches'
  <2> SUFFICES ASSUME NEW v \in Users, NEW b \in branches,
                      Active(refresh'[v]), b.id = refresh'[v].id
               PROVE  Owns(refresh'[v], b)
    BY DEF OwnBranches, Owns, Active, Candidate, Included
  <2>1. CASE v = u
    BY <1>2, <2>1 DEF RefreshInv, OwnBranches, Owns
  <2>2. CASE v # u
    BY <1>2, <2>2 DEF RefreshInv, OwnBranches
  <2> QED
    BY <2>1, <2>2
<1>7. PushHasBranch'
  BY <1>2 DEF RefreshInv, PushHasBranch
<1>8. BranchIsTested'
  BY DEF RefreshInv, BranchIsTested
<1> QED
  BY <1>3, <1>4, <1>5, <1>6, <1>7, <1>8 DEF RefreshInv

(* Steps that only move a process along within its walk.                   *)
LEMMA MoveKeepsInv ==
    ASSUME RefreshInv, NEW u \in Users, NEW q, Now(u, q), q \in Recs, Same(q, refresh[u]),
           Active(refresh[u]), refresh[u].pc \notin {"push", "report"},
           q.pc \in {"walk", "record", "save", "mark", "marked"},
           pins' = pins, file' = file, served' = served, started' = started, branches' = branches,
           tested' = tested
    PROVE  RefreshInv'
<1>1. Sound(refresh[u])
  BY DEF RefreshInv, UsersSound
<1>2. Sound(q)'
  BY <1>1 DEF Sound, Active, Same
<1> QED
  BY <1>2, WorkKeepsInv DEF Same

LEMMA GotoAndBack ==
    ASSUME RefreshInv, NEW u \in Users, Active(refresh[u]), refresh[u].pc \notin {"push", "report"},
           \/ \E l \in {"save", "marked"} : Goto(u, l)
           \/ Back(u),
           pins' = pins, file' = file, served' = served, started' = started, branches' = branches,
           tested' = tested
    PROVE  RefreshInv'
<1>1. refresh[u] \in Recs
  BY DEF RefreshInv, RefreshType
<1>2. CASE Back(u)
  <2>1. PICK q : q = [refresh[u] EXCEPT !.pc = "walk", !.at = 0]
    OBVIOUS
  <2>2. q \in Recs /\ q.pc = "walk" /\ Same(q, refresh[u])
    BY <1>1, <2>1, WalkSet
  <2>3. Now(u, q)
    BY <1>2, <2>1, Zenon DEF Back
  <2> QED
    BY <2>2, <2>3, MoveKeepsInv
<1>3. ASSUME NEW l \in {"save", "marked"}, Goto(u, l) PROVE RefreshInv'
  <2>1. PICK q : q = [refresh[u] EXCEPT !.pc = l]
    OBVIOUS
  <2>2. l \in RefreshPc
    BY <1>3 DEF RefreshPc
  <2>3. q \in Recs /\ q.pc = l /\ Same(q, refresh[u])
    BY <1>1, <2>1, <2>2, PcSet
  <2>4. Now(u, q)
    BY <1>3, <2>1, Zenon DEF Goto
  <2> QED
    BY <1>3, <2>3, <2>4, MoveKeepsInv
<1> QED
  BY <1>2, <1>3

LEMMA LedgerStepsKeepInv ==
    ASSUME RefreshInv, NEW u \in Users, Record(u) \/ LedgerFails(u) \/ Mark(u)
    PROVE  RefreshInv'
<1>1. CASE Record(u)
  <2>1. /\ pc(u) \in {"record", "save"}
        /\ Goto(u, "save") \/ Back(u)
        /\ pins' = pins /\ file' = file /\ served' = served /\ started' = started
        /\ branches' = branches /\ tested' = tested
    BY <1>1 DEF Record, hostVars, ghostVars
  <2> QED
    BY <2>1, GotoAndBack DEF pc, Active
<1>2. CASE LedgerFails(u)
  <2>1. /\ pc(u) \in {"record", "save", "mark", "marked"} /\ Back(u)
        /\ pins' = pins /\ file' = file /\ served' = served /\ started' = started
        /\ branches' = branches /\ tested' = tested
    BY <1>2 DEF LedgerFails, hostVars
  <2> QED
    BY <2>1, GotoAndBack DEF pc, Active
<1>3. CASE Mark(u)
  <2>1. /\ pc(u) \in {"mark", "marked"}
        /\ Goto(u, "marked") \/ Back(u)
        /\ pins' = pins /\ file' = file /\ served' = served /\ started' = started
        /\ branches' = branches /\ tested' = tested
    BY <1>3 DEF Mark, hostVars
  <2> QED
    BY <2>1, GotoAndBack DEF pc, Active
<1> QED
  BY <1>1, <1>2, <1>3

LEMMA FetchKeepsInv ==
    ASSUME RefreshInv, NEW u \in Users, Fetch(u)
    PROVE  RefreshInv'
<1>1. PICK r : r = refresh[u]
  OBVIOUS
<1>2. PICK i \in Installers : i = Min(Placed(u, "todo")) /\ r.plan[i].place = "todo"
  <2>1. Min(Placed(u, "todo")) \in Placed(u, "todo")
    BY MinIsMember DEF Fetch, Placed
  <2> QED
    BY <1>1, <2>1 DEF Placed
<1>3. /\ r.pc = "walk" /\ r \in Recs /\ Sound(r)
      /\ pins' = pins /\ file' = file /\ served' = served /\ started' = started
      /\ branches' = branches /\ tested' = tested
  BY <1>1 DEF Fetch, pc, RefreshInv, RefreshType, UsersSound, hostVars, ghostVars
<1>4. PICK place : place = IF served[i] = r.original[i] THEN "same" ELSE "drifted"
  OBVIOUS
<1>5. PICK new : new = served[i]
  OBVIOUS
<1>6. PICK s : s = WithPlace(r, i, "skipped")
  OBVIOUS
<1>7. PICK f : f = WithFetched(r, i, place, new)
  OBVIOUS
<1>8. Now(u, s) \/ Now(u, f)
  BY <1>1, <1>2, <1>4, <1>5, <1>6, <1>7, Zenon DEF Fetch, WithPlace, WithFetched
<1>9. CASE Now(u, s)
  <2>1. /\ s \in Recs /\ s.pc = "walk" /\ s.id = r.id /\ s.verify = r.verify
        /\ s.original = r.original
        /\ s.plan[i].place = "skipped"
        /\ \A j \in Installers : j # i => s.plan[j] = r.plan[j]
    <3>1. "skipped" \in Places
      BY DEF Places
    <3> QED
      BY <1>3, <1>6, <3>1, PlaceSet
  <2>2. Sound(s)'
    BY <1>3, <2>1 DEF Sound, Active
  <2> QED
    BY <1>1, <1>3, <1>9, <2>1, <2>2, WorkKeepsInv DEF Active
<1>10. CASE Now(u, f)
  <2>1. place \in Places /\ new \in Values /\ new \in Scripts
    BY <1>4, <1>5 DEF Places, RefreshInv, RefreshType, AnyPins, Values
  <2>2. /\ f \in Recs /\ f.pc = "record" /\ f.id = r.id /\ f.verify = r.verify
        /\ f.original = r.original
        /\ f.plan[i] = [place |-> place, new |-> new]
        /\ \A j \in Installers : j # i => f.plan[j] = r.plan[j]
    BY <1>3, <1>7, <2>1, FetchedSet
  <2>3. /\ f.plan[i].place \in {"same", "drifted"}
        /\ f.plan[i].place = "drifted" => f.plan[i].new # f.original[i]
    BY <1>4, <1>5, <2>2
  <2>4. Sound(f)'
    BY <1>3, <2>1, <2>2, <2>3 DEF Sound, Active
  <2> QED
    BY <1>1, <1>3, <1>10, <2>2, <2>4, WorkKeepsInv DEF Active
<1> QED
  BY <1>8, <1>9, <1>10

(* verify_entry passes an entry only with the very hash it was given.      *)
LEMMA VerifyKeepsInv ==
    ASSUME RefreshInv, NEW u \in Users, VerifyEntry(u)
    PROVE  RefreshInv'
<1>1. PICK r : r = refresh[u]
  OBVIOUS
<1>2. PICK i \in Installers : i = Min(ToVerify(u)) /\ r.plan[i].place = "drifted"
  <2>1. Min(ToVerify(u)) \in Placed(u, "drifted")
    BY MinIsMember DEF VerifyEntry, ToVerify, Placed
  <2> QED
    BY <1>1, <2>1 DEF Placed
<1>3. /\ r.pc = "walk" /\ r \in Recs /\ Sound(r)
      /\ pins' = pins /\ file' = file /\ served' = served /\ started' = started
      /\ branches' = branches
  BY <1>1 DEF VerifyEntry, Planned, pc, RefreshInv, RefreshType, UsersSound, hostVars
<1>4. PICK f : f = WithPlace(r, i, "failed")
  OBVIOUS
<1>5. PICK q : q = WithPassed(r, i)
  OBVIOUS
<1>6. \/ Now(u, f) /\ tested' = tested
      \/ /\ Now(u, q) /\ served[i] = r.plan[i].new
         /\ tested' = tested \cup {<<i, served[i]>>}
  BY <1>1, <1>2, <1>4, <1>5, Zenon DEF VerifyEntry, WithPlace, WithPassed
<1>7. CASE Now(u, f) /\ tested' = tested
  <2>1. /\ f \in Recs /\ f.pc = "walk" /\ f.id = r.id /\ f.verify = r.verify
        /\ f.original = r.original
        /\ f.plan[i].place = "failed" /\ f.plan[i].new = r.plan[i].new
        /\ \A j \in Installers : j # i => f.plan[j] = r.plan[j]
    <3>1. "failed" \in Places
      BY DEF Places
    <3> QED
      BY <1>3, <1>4, <3>1, PlaceSet
  <2>2. Sound(f)'
    BY <1>2, <1>3, <1>7, <2>1 DEF Sound, Active
  <2> QED
    BY <1>1, <1>3, <1>7, <2>1, <2>2, WorkKeepsInv DEF Active
<1>8. CASE /\ Now(u, q) /\ served[i] = r.plan[i].new
           /\ tested' = tested \cup {<<i, served[i]>>}
  <2>1. /\ q \in Recs /\ q.pc = "mark" /\ q.id = r.id /\ q.verify = r.verify
        /\ q.original = r.original
        /\ q.plan[i].place = "passed" /\ q.plan[i].new = r.plan[i].new
        /\ \A j \in Installers : j # i => q.plan[j] = r.plan[j]
    BY <1>3, <1>5, PassedSet
  <2>2. \A j \in Installers : q.plan[j].place = "passed" => <<j, q.plan[j].new>> \in tested'
    BY <1>3, <1>8, <2>1 DEF Sound
  <2>3. \A j \in Installers : q.plan[j].place \in {"drifted", "passed", "failed"} =>
          q.plan[j].new # q.original[j]
    BY <1>2, <1>3, <2>1 DEF Sound
  <2>4. \A j \in Installers :
          q.plan[j].place \in {"same", "drifted", "passed", "failed"} => q.plan[j].new \in Scripts
    BY <1>2, <1>3, <2>1 DEF Sound
  <2>5. Sound(q)'
    BY <1>3, <2>1, <2>2, <2>3, <2>4 DEF Sound, Active
  <2> QED
    BY <1>1, <1>3, <1>8, <2>1, <2>5, WorkKeepsInv DEF Active
<1> QED
  BY <1>6, <1>7, <1>8

LEMMA WorktreeKeepsInv ==
    ASSUME RefreshInv, NEW u \in Users, AddWorktree(u)
    PROVE  RefreshInv'
<1>1. PICK r, f : r = refresh[u] /\ f = pins
  OBVIOUS
<1>2. PICK q : q = WithBase(r, f)
  OBVIOUS
<1>3. /\ r.pc = "walk" /\ r \in Recs /\ Sound(r) /\ f \in AnyPins /\ f \in Files
      /\ pins' = pins /\ file' = file /\ served' = served /\ started' = started
      /\ branches' = branches /\ tested' = tested
  BY <1>1, FilesOfPins DEF AddWorktree, Ready, Planned, pc, RefreshInv, RefreshType,
                           UsersSound, hostVars, ghostVars
<1>4. /\ \A i \in Installers :
           r.plan[i].place # "todo" /\ (r.verify => r.plan[i].place # "drifted")
      /\ r.mode # "advisory"
  BY <1>1 DEF AddWorktree, Ready, Planned, ToVerify, Placed, Proposes
<1>5. q \in Recs /\ q.pc = "commit" /\ q.base = f /\ Same(q, r)
  BY <1>2, <1>3, BaseSet
<1>6. Now(u, q)
  BY <1>1, <1>2, Zenon DEF AddWorktree, WithBase
<1>7. Sound(q)'
  BY <1>1, <1>3, <1>4, <1>5 DEF Sound, Active, Same
<1> QED
  BY <1>1, <1>3, <1>5, <1>6, <1>7, WorkKeepsInv DEF Active, Same
-----------------------------------------------------------------------------
(* A push changes branches, of its own refresh and in nothing but whether  *)
(* they are on the remote.  Steps that end a refresh.                      *)
Alike(b, c) ==
    /\ b.id = c.id /\ b.base = c.base /\ b.pins = c.pins
    /\ b.verify = c.verify /\ b.read = c.read

LEMMA EndKeepsInv ==
    ASSUME RefreshInv, NEW u \in Users, Active(refresh[u]), Now(u, Idle),
           pins' = pins, file' = file, served' = served, started' = started, tested' = tested,
           branches' \subseteq BranchRecs,
           \A c \in branches' : \E b \in branches :
             Alike(b, c) /\ (b.id # refresh[u].id => c = b),
           \A b \in branches : b.id # refresh[u].id => b \in branches'
    PROVE  RefreshInv'
<1>1. refresh \in [Users -> Recs] /\ Idle \in Recs /\ Sound(Idle) /\ Idle.pc = "idle"
  BY IdleIsSound DEF RefreshInv, RefreshType, Sound, Active
<1>2. /\ refresh' \in [Users -> Recs] /\ refresh'[u] = Idle
      /\ \A v \in Users : v # u => refresh'[v] = refresh[v]
  BY <1>1 DEF Now
<1>3. RefreshType'
  <2>1. \A c \in branches' : c.id <= started
    BY DEF RefreshInv, RefreshType, Alike
  <2> QED
    BY <1>2, <2>1 DEF RefreshInv, RefreshType
<1>4. UsersSound'
  <2> SUFFICES ASSUME NEW v \in Users PROVE Sound(refresh[v])'
    BY DEF UsersSound
  <2>1. Sound(refresh'[v])
    BY <1>1, <1>2 DEF RefreshInv, UsersSound
  <2> QED
    BY <2>1 DEF Sound, Active
<1>5. CheckVerifies' /\ IdsDiffer'
  BY <1>1, <1>2 DEF RefreshInv, CheckVerifies, IdsDiffer, Active
<1>6. ASSUME NEW v \in Users, Active(refresh'[v])
      PROVE  v # u /\ refresh'[v] = refresh[v] /\ refresh[v].id # refresh[u].id
  BY <1>1, <1>2, <1>6 DEF RefreshInv, IdsDiffer, Active
<1>7. OwnBranches'
  <2> SUFFICES ASSUME NEW v \in Users, NEW c \in branches',
                      Active(refresh'[v]), c.id = refresh'[v].id
               PROVE  Owns(refresh'[v], c)
    BY DEF OwnBranches, Owns, Active, Candidate, Included
  <2>1. v # u /\ refresh'[v] = refresh[v] /\ refresh[v].id # refresh[u].id
    BY <1>6
  <2>2. c \in branches
    BY <2>1 DEF Alike
  <2> QED
    BY <2>1, <2>2 DEF RefreshInv, OwnBranches
<1>8. PushHasBranch'
  <2> SUFFICES ASSUME NEW v \in Users, refresh'[v].pc \in {"push", "report"}
               PROVE  \E b \in branches' : b.id = refresh'[v].id
    BY DEF PushHasBranch
  <2>1. v # u /\ refresh'[v] = refresh[v] /\ refresh[v].id # refresh[u].id
    BY <1>6 DEF Active
  <2> QED
    BY <2>1 DEF RefreshInv, PushHasBranch
<1>9. BranchIsTested'
  <2> SUFFICES ASSUME NEW c \in branches', c.verify,
                      NEW i \in Installers, c.pins[i] # c.base[i]
               PROVE  <<i, c.pins[i]>> \in tested \/ c.pins[i] = c.read[i]
    BY DEF BranchIsTested
  <2>1. PICK b \in branches : Alike(b, c)
    OBVIOUS
  <2> QED
    BY <2>1 DEF RefreshInv, BranchIsTested, Alike
<1> QED
  BY <1>3, <1>4, <1>5, <1>7, <1>8, <1>9 DEF RefreshInv

LEMMA PlainEndKeepsInv ==
    ASSUME RefreshInv, NEW u \in Users, Active(refresh[u]), Now(u, Idle),
           pins' = pins, file' = file, served' = served, started' = started, tested' = tested,
           branches' = branches
    PROVE  RefreshInv'
<1>1. branches' \subseteq BranchRecs
  BY DEF RefreshInv, RefreshType
<1>2. \A c \in branches' : \E b \in branches :
        Alike(b, c) /\ (b.id # refresh[u].id => c = b)
  BY DEF Alike
<1> QED
  BY <1>1, <1>2, EndKeepsInv

(* What a push makes of a branch.                                          *)
Published(b) == [b EXCEPT !.pushed = TRUE]

LEMMA PublishedFacts ==
    ASSUME NEW b \in BranchRecs, NEW c, c = Published(b)
    PROVE  c \in BranchRecs /\ Alike(b, c) /\ c.pushed
BY DEF BranchRecs, Alike, Published

LEMMA OnRemoteFacts ==
    ASSUME RefreshInv, NEW u \in Users, OnRemote(u)
    PROVE  /\ branches' \subseteq BranchRecs
           /\ \A c \in branches' : \E b \in branches :
                Alike(b, c) /\ (b.id # refresh[u].id => c = b)
           /\ \A b \in branches : b.id # refresh[u].id => b \in branches'
           /\ \A b \in branches : b.id = refresh[u].id =>
                \E c \in branches' : Alike(b, c)
           /\ \A c \in branches' : c.id = refresh[u].id => c.pushed
<1>1. PICK n : n = refresh[u].id
  OBVIOUS
<1>2. branches' = {IF b.id = n THEN Published(b) ELSE b : b \in branches}
  BY <1>1, Zenon DEF OnRemote, MyBranch, Published
<1>3. branches \subseteq BranchRecs
  BY DEF RefreshInv, RefreshType
<1>4. ASSUME NEW b \in branches
      PROVE  Published(b) \in BranchRecs /\ Alike(b, Published(b))
             /\ Published(b).pushed /\ Alike(b, b)
  BY <1>3, PublishedFacts DEF Alike
<1>5. \A c \in branches' : c.id = n => c.pushed
  BY <1>2, <1>4 DEF Alike
<1> QED
  BY <1>1, <1>2, <1>3, <1>4, <1>5

LEMMA EndsKeepInv ==
    ASSUME RefreshInv, NEW u \in Users,
           EndsWithoutBranch(u) \/ Report(u) \/ RefreshFails(u) \/ Kill(u)
    PROVE  RefreshInv'
<1>1. /\ Active(refresh[u]) /\ Now(u, Idle)
      /\ pins' = pins /\ file' = file /\ served' = served /\ started' = started
      /\ tested' = tested
  BY DEF EndsWithoutBranch, Report, RefreshFails, Kill, Done, Ready, Planned, pc, Active,
         hostVars, ghostVars
<1>2. branches' = branches \/ OnRemote(u)
  BY DEF EndsWithoutBranch, Report, RefreshFails, Kill
<1>3. CASE branches' = branches
  BY <1>1, <1>3, PlainEndKeepsInv
<1>4. CASE OnRemote(u)
  BY <1>1, <1>4, OnRemoteFacts, EndKeepsInv
<1> QED
  BY <1>2, <1>3, <1>4

(* The push: what the process owns is on the remote, and nothing else is   *)
(* changed.                                                                *)
LEMMA PushKeepsInv ==
    ASSUME RefreshInv, NEW u \in Users, Push(u)
    PROVE  RefreshInv'
<1>1. PICK r : r = refresh[u]
  OBVIOUS
<1>2. PICK q : q = [r EXCEPT !.pc = "report"]
  OBVIOUS
<1>3. /\ r.pc = "push" /\ r \in Recs /\ Sound(r) /\ refresh \in [Users -> Recs]
      /\ pins' = pins /\ file' = file /\ served' = served /\ started' = started
      /\ tested' = tested /\ OnRemote(u) /\ Active(refresh[u])
  BY <1>1 DEF Push, pc, RefreshInv, RefreshType, UsersSound, hostVars, ghostVars, Active
<1>4. q \in Recs /\ q.pc = "report" /\ q.base = r.base /\ Same(q, r)
  <2>1. "report" \in RefreshPc
    BY DEF RefreshPc
  <2> QED
    BY <1>2, <1>3, <2>1, PcSet
<1>5. Now(u, q)
  BY <1>1, <1>2, Zenon DEF Push, Goto
<1>6. /\ refresh' \in [Users -> Recs] /\ refresh'[u] = q
      /\ \A w \in Users : w # u => refresh'[w] = refresh[w]
  BY <1>3, <1>4, <1>5 DEF Now
<1>7. /\ branches' \subseteq BranchRecs
      /\ \A c \in branches' : \E b \in branches :
           Alike(b, c) /\ (b.id # r.id => c = b)
      /\ \A b \in branches : b.id # r.id => b \in branches'
      /\ \A b \in branches : b.id = r.id => \E c \in branches' : Alike(b, c)
      /\ \A c \in branches' : c.id = r.id => c.pushed
  BY <1>1, <1>3, OnRemoteFacts
<1>8. RefreshType'
  <2>1. \A c \in branches' : c.id <= started
    BY <1>7 DEF RefreshInv, RefreshType, Alike
  <2> QED
    BY <1>3, <1>6, <1>7, <2>1 DEF RefreshInv, RefreshType
<1>9. UsersSound'
  <2> SUFFICES ASSUME NEW w \in Users PROVE Sound(refresh[w])'
    BY DEF UsersSound
  <2>1. CASE w = u
    BY <1>3, <1>4, <1>6, <2>1 DEF Sound, Active, Same
  <2>2. CASE w # u
    <3>1. Sound(refresh[w]) /\ refresh'[w] = refresh[w]
      BY <1>6, <2>2 DEF RefreshInv, UsersSound
    <3> QED
      BY <1>3, <3>1 DEF Sound, Active
  <2> QED
    BY <2>1, <2>2
<1>10. CheckVerifies' /\ IdsDiffer'
  BY <1>1, <1>3, <1>4, <1>6 DEF RefreshInv, CheckVerifies, IdsDiffer, Active, Same
<1>11. Candidate(q) = Candidate(r) /\ r.mode = "apply"
  BY <1>3, <1>4 DEF Candidate, Included, Same, Sound
<1>12. OwnBranches'
  <2> SUFFICES ASSUME NEW w \in Users, NEW c \in branches',
                      Active(refresh'[w]), c.id = refresh'[w].id
               PROVE  Owns(refresh'[w], c)
    BY DEF OwnBranches, Owns, Active, Candidate, Included
  <2>1. PICK b \in branches : Alike(b, c) /\ (b.id # r.id => c = b)
    BY <1>7
  <2>2. CASE w # u
    <3>1. refresh'[w] = refresh[w] /\ refresh[w].id # r.id
      BY <1>1, <1>3, <1>6, <2>2 DEF RefreshInv, IdsDiffer
    <3>2. c = b
      BY <2>1, <3>1 DEF Alike
    <3> QED
      BY <3>1, <3>2 DEF RefreshInv, OwnBranches
  <2>3. CASE w = u
    <3>1. Owns(r, b)
      BY <1>1, <1>3, <1>4, <1>6, <2>1, <2>3 DEF RefreshInv, OwnBranches, Alike, Same
    <3>2. c.pushed /\ c.pins = b.pins /\ c.read = b.read
      BY <1>4, <1>6, <1>7, <2>1, <2>3 DEF Alike, Same
    <3> QED
      BY <1>4, <1>6, <1>11, <2>3, <3>1, <3>2 DEF Owns, Same
  <2> QED
    BY <2>2, <2>3
<1>13. PushHasBranch'
  <2> SUFFICES ASSUME NEW w \in Users, refresh'[w].pc \in {"push", "report"}
               PROVE  \E c \in branches' : c.id = refresh'[w].id
    BY DEF PushHasBranch
  <2>1. refresh[w].pc \in {"push", "report"} /\ refresh'[w].id = refresh[w].id
    BY <1>1, <1>3, <1>4, <1>6 DEF Same
  <2>2. PICK b \in branches : b.id = refresh[w].id
    BY <2>1 DEF RefreshInv, PushHasBranch
  <2> QED
    BY <1>7, <2>1, <2>2 DEF Alike
<1>14. BranchIsTested'
  <2> SUFFICES ASSUME NEW c \in branches', c.verify,
                      NEW i \in Installers, c.pins[i] # c.base[i]
               PROVE  <<i, c.pins[i]>> \in tested \/ c.pins[i] = c.read[i]
    BY <1>3 DEF BranchIsTested
  <2>1. PICK b \in branches : Alike(b, c)
    BY <1>7
  <2> QED
    BY <2>1 DEF RefreshInv, BranchIsTested, Alike
<1> QED
  BY <1>8, <1>9, <1>10, <1>12, <1>13, <1>14 DEF RefreshInv

-----------------------------------------------------------------------------
(* A refresh begins under a number no other refresh or branch has.         *)
LEMMA BeginKeepsInv ==
    ASSUME RefreshInv, NEW u \in Users, NEW only \in SUBSET Installers, NEW m \in Modes,
           NEW v \in BOOLEAN, Begin(u, only, m, v)
    PROVE  RefreshInv'
<1>1. PICK f, n : f = file /\ n = started + 1
  OBVIOUS
<1>2. PICK q : q = Begun(only, n, m, v, f)
  OBVIOUS
<1>3. /\ f \in AnyPins /\ f \in Files
      /\ n \in Nat /\ started \in Nat /\ refresh \in [Users -> Recs]
  BY <1>1, FilesOfPins DEF RefreshInv, RefreshType
<1>4. /\ q \in Recs /\ q.pc = "walk" /\ q.id = n /\ q.verify = v
      /\ q.original = f
      /\ \A i \in Installers : q.plan[i].place \in {"todo", "out"}
  BY <1>2, <1>3, BegunSet
<1>5. Now(u, q)
  BY <1>1, <1>2, Zenon DEF Begin, Begun
<1>6. /\ pins' = pins /\ file' = file /\ served' = served /\ started' = n /\ branches' = branches
      /\ tested' = tested /\ (u = Check => v)
  BY <1>1 DEF Begin, hostVars
<1>7. /\ refresh' \in [Users -> Recs] /\ refresh'[u] = q
      /\ \A w \in Users : w # u => refresh'[w] = refresh[w]
  BY <1>3, <1>4, <1>5 DEF Now
<1>8. /\ \A b \in branches : b.id \in Nat /\ b.id < n
      /\ \A w \in Users : refresh[w].id \in Nat /\ (Active(refresh[w]) => refresh[w].id < n)
  <2>1. \A b \in branches : b.id \in Nat /\ b.id <= started
    BY DEF RefreshInv, RefreshType, BranchRecs
  <2>2. \A w \in Users : refresh[w].id \in Nat /\ (Active(refresh[w]) => refresh[w].id <= started)
    BY <1>3 DEF RefreshInv, UsersSound, Sound, Recs
  <2> QED
    BY <1>1, <1>3, <2>1, <2>2
<1>9. RefreshType'
  BY <1>1, <1>3, <1>6, <1>7, <1>8 DEF RefreshInv, RefreshType
<1>10. UsersSound'
  <2> SUFFICES ASSUME NEW w \in Users PROVE Sound(refresh[w])'
    BY DEF UsersSound
  <2>1. CASE w = u
    BY <1>1, <1>3, <1>4, <1>6, <1>7, <2>1 DEF Sound, Active
  <2>2. CASE w # u
    <3>1. Sound(refresh[w]) /\ refresh'[w] = refresh[w]
      BY <1>7, <2>2 DEF RefreshInv, UsersSound
    <3> QED
      BY <1>3, <1>6, <1>8, <3>1 DEF Sound, Active
  <2> QED
    BY <2>1, <2>2
<1>11. CheckVerifies'
  BY <1>4, <1>6, <1>7 DEF RefreshInv, CheckVerifies, Active
<1>12. IdsDiffer'
  BY <1>3, <1>4, <1>7, <1>8 DEF RefreshInv, IdsDiffer
<1>13. OwnBranches'
  <2> SUFFICES ASSUME NEW w \in Users, NEW b \in branches,
                      Active(refresh'[w]), b.id = refresh'[w].id
               PROVE  Owns(refresh'[w], b)
    BY <1>6 DEF OwnBranches, Owns, Active, Candidate, Included
  <2>1. w # u
    BY <1>3, <1>4, <1>7, <1>8
  <2> QED
    BY <1>7, <2>1 DEF RefreshInv, OwnBranches
<1>14. PushHasBranch' /\ BranchIsTested'
  BY <1>4, <1>6, <1>7 DEF RefreshInv, PushHasBranch, BranchIsTested
<1> QED
  BY <1>9, <1>10, <1>11, <1>12, <1>13, <1>14 DEF RefreshInv

(* The commit: the candidate differs from the file that was read in tested *)
(* pins only, whatever HEAD is by now.                                     *)
LEMMA CommitKeepsInv ==
    ASSUME RefreshInv, NEW u \in Users, Commit(u)
    PROVE  RefreshInv'
<1>1. PICK r : r = refresh[u]
  OBVIOUS
<1>2. PICK l, q : l = (IF r.mode = "apply" THEN "push" ELSE "report")
                  /\ q = [r EXCEPT !.pc = l]
  OBVIOUS
<1>3. PICK n : n = [id |-> r.id, base |-> r.base, pins |-> Candidate(r),
                    read |-> r.original, verify |-> r.verify, pushed |-> FALSE]
  OBVIOUS
<1>4. /\ r.pc = "commit" /\ r \in Recs /\ Sound(r) /\ refresh \in [Users -> Recs]
      /\ branches \subseteq BranchRecs
      /\ pins' = pins /\ file' = file /\ served' = served /\ started' = started /\ tested' = tested
  BY <1>1 DEF Commit, pc, RefreshInv, RefreshType, UsersSound, hostVars, ghostVars
<1>5. branches' = branches \cup {n}
  BY <1>1, <1>3, CandidateFacts DEF Commit, RefreshInv
<1>6. /\ n.id = r.id /\ n.base = r.base /\ n.pins = Candidate(r) /\ n.verify = r.verify
      /\ n.read = r.original /\ ~n.pushed /\ n \in BranchRecs
  <2>1. r.base \in AnyPins /\ Candidate(r) \in AnyPins /\ r.original \in AnyPins
    BY <1>4, CandidateType DEF Sound, Active
  <2> QED
    BY <1>3, <1>4, <2>1 DEF BranchRecs, Recs
<1>7. /\ q \in Recs /\ q.pc = l /\ q.base = r.base /\ Same(q, r)
      /\ l \in {"push", "report"} /\ (l = "push" <=> r.mode = "apply")
  <2>1. l \in RefreshPc
    BY <1>2 DEF RefreshPc
  <2> QED
    BY <1>2, <1>4, <2>1, PcSet
<1>8. Now(u, q)
  BY <1>1, <1>2, Zenon DEF Commit, Goto
<1>9. /\ refresh' \in [Users -> Recs] /\ refresh'[u] = q
      /\ \A w \in Users : w # u => refresh'[w] = refresh[w]
  BY <1>4, <1>7, <1>8 DEF Now
<1>10. r.id <= started /\ Active(refresh[u])
  BY <1>1, <1>4 DEF Sound, Active
<1>11. RefreshType'
  BY <1>4, <1>5, <1>6, <1>9, <1>10 DEF RefreshInv, RefreshType
<1>12. UsersSound'
  <2> SUFFICES ASSUME NEW w \in Users PROVE Sound(refresh[w])'
    BY DEF UsersSound
  <2>1. CASE w = u
    BY <1>4, <1>7, <1>9, <2>1 DEF Sound, Active, Same
  <2>2. CASE w # u
    <3>1. Sound(refresh[w]) /\ refresh'[w] = refresh[w]
      BY <1>9, <2>2 DEF RefreshInv, UsersSound
    <3> QED
      BY <1>4, <3>1 DEF Sound, Active
  <2> QED
    BY <2>1, <2>2
<1>13. CheckVerifies' /\ IdsDiffer'
  BY <1>1, <1>4, <1>7, <1>9 DEF RefreshInv, CheckVerifies, IdsDiffer, Active, Same
<1>14. Candidate(q) = Candidate(r)
  BY <1>7 DEF Candidate, Included, Same
<1>15. OwnBranches'
  <2> SUFFICES ASSUME NEW w \in Users, NEW b \in branches',
                      Active(refresh'[w]), b.id = refresh'[w].id
               PROVE  Owns(refresh'[w], b)
    BY DEF OwnBranches, Owns, Active, Candidate, Included
  <2>1. CASE w # u
    <3>1. refresh'[w] = refresh[w] /\ refresh[w].id # r.id
      BY <1>1, <1>9, <1>10, <2>1 DEF RefreshInv, IdsDiffer
    <3>2. b \in branches
      BY <1>5, <1>6, <3>1
    <3> QED
      BY <3>1, <3>2 DEF RefreshInv, OwnBranches
  <2>2. CASE w = u
    <3>1. b \notin branches
      BY <1>1, <1>4, <1>7, <1>9, <1>10, <2>2 DEF RefreshInv, OwnBranches, Owns, Same
    <3>2. b = n
      BY <1>5, <3>1
    <3> QED
      BY <1>6, <1>7, <1>9, <1>14, <2>2, <3>2 DEF Owns, Same
  <2> QED
    BY <2>1, <2>2
<1>16. PushHasBranch'
  <2> SUFFICES ASSUME NEW w \in Users, refresh'[w].pc \in {"push", "report"}
               PROVE  \E b \in branches' : b.id = refresh'[w].id
    BY DEF PushHasBranch
  <2>1. CASE w = u
    BY <1>5, <1>6, <1>7, <1>9, <2>1 DEF Same
  <2>2. CASE w # u
    BY <1>5, <1>9, <2>2 DEF RefreshInv, PushHasBranch
  <2> QED
    BY <2>1, <2>2
<1>17. BranchIsTested'
  <2> SUFFICES ASSUME NEW b \in branches', b.verify,
                      NEW i \in Installers, b.pins[i] # b.base[i]
               PROVE  <<i, b.pins[i]>> \in tested \/ b.pins[i] = b.read[i]
    BY <1>4 DEF BranchIsTested
  <2>1. CASE b \in branches
    BY <2>1 DEF RefreshInv, BranchIsTested
  <2>2. CASE b = n
    <3>1. r.verify /\ b.pins[i] = Candidate(r)[i] /\ b.read[i] = r.original[i]
      BY <1>6, <2>2
    <3>2. \/ r.plan[i].place = "passed" /\ Candidate(r)[i] = r.plan[i].new
          \/ Candidate(r)[i] = r.original[i]
      BY <3>1 DEF Candidate, Included
    <3> QED
      BY <1>4, <3>1, <3>2 DEF Sound
  <2> QED
    BY <1>5, <2>1, <2>2
<1> QED
  BY <1>11, <1>12, <1>13, <1>15, <1>16, <1>17 DEF RefreshInv

-----------------------------------------------------------------------------
(* The world around the refreshes.                                         *)
LEMMA WorldKeepsInv ==
    ASSUME RefreshInv, UNCHANGED <<started, refresh, branches, tested>>,
           served' \in AnyPins, pins' \in AnyPins, file' \in AnyPins
    PROVE  RefreshInv'
<1>1. RefreshType'
  BY DEF RefreshInv, RefreshType
<1>2. UsersSound'
  BY DEF RefreshInv, UsersSound, Sound, Active
<1>3. CheckVerifies' /\ IdsDiffer' /\ PushHasBranch' /\ BranchIsTested'
  BY DEF RefreshInv, CheckVerifies, IdsDiffer, PushHasBranch, BranchIsTested, Active
<1>4. OwnBranches'
  BY DEF RefreshInv, OwnBranches, Owns, Active, Candidate, Included
<1> QED
  BY <1>1, <1>2, <1>3, <1>4 DEF RefreshInv

(* Hosts, people at the checkout and merges: no refresh under way and no   *)
(* branch depends on what is served, on HEAD or on the file from then on.  *)
LEMMA OthersKeepInv ==
    ASSUME RefreshInv,
           \/ \E i \in Installers, s \in Scripts : UpstreamChanges(i, s) \/ Edit(i, s)
           \/ CommitEdits
           \/ \E b \in branches : Merge(b)
    PROVE  RefreshInv'
<1>1. UNCHANGED <<started, refresh, branches, tested>>
  BY DEF UpstreamChanges, Edit, CommitEdits, Merge, ghostVars
<1>2. served \in AnyPins /\ pins \in AnyPins /\ file \in AnyPins
  BY DEF RefreshInv, RefreshType
<1>3. ASSUME NEW i \in Installers, NEW s \in Scripts, UpstreamChanges(i, s) \/ Edit(i, s)
      PROVE  served' \in AnyPins /\ pins' \in AnyPins /\ file' \in AnyPins
  BY <1>2, <1>3 DEF UpstreamChanges, Edit, AnyPins
<1>4. ASSUME CommitEdits
      PROVE  served' \in AnyPins /\ pins' \in AnyPins /\ file' \in AnyPins
  BY <1>2, <1>4 DEF CommitEdits
<1>5. ASSUME NEW b \in branches, Merge(b)
      PROVE  served' \in AnyPins /\ pins' \in AnyPins /\ file' \in AnyPins
  <2>1. b.pins \in AnyPins
    BY DEF RefreshInv, RefreshType, BranchRecs
  <2>2. pins' \in AnyPins
    BY <1>2, <1>5, <2>1 DEF Merge, AnyPins
  <2> QED
    BY <1>2, <1>5, <2>2 DEF Merge
<1> QED
  BY <1>1, <1>3, <1>4, <1>5, WorldKeepsInv

-----------------------------------------------------------------------------
LEMMA InitKeeps == Init => RefreshInv
<1> SUFFICES ASSUME Init PROVE RefreshInv
  OBVIOUS
<1>1. /\ refresh \in [Users -> Recs] /\ \A u \in Users : refresh[u] = Idle
      /\ pins \in AnyPins /\ file \in AnyPins /\ served \in AnyPins /\ started = 0 /\ branches = {}
  BY IdleIsSound, FirstScript DEF Init, Sound, AnyPins
<1>2. Sound(Idle) /\ ~Active(Idle) /\ Idle.pc \notin {"push", "report"}
  BY IdleIsSound DEF Active, Idle
<1>3. RefreshType
  BY <1>1 DEF RefreshType
<1>4. UsersSound /\ CheckVerifies /\ IdsDiffer
  BY <1>1, <1>2 DEF UsersSound, CheckVerifies, IdsDiffer
<1>5. OwnBranches /\ PushHasBranch /\ BranchIsTested
  BY <1>1, <1>2 DEF OwnBranches, PushHasBranch, BranchIsTested
<1> QED
  BY <1>3, <1>4, <1>5 DEF RefreshInv

LEMMA StepKeepsInv == RefreshInv /\ [Next]_vars => RefreshInv'
<1> SUFFICES ASSUME RefreshInv, [Next]_vars PROVE RefreshInv'
  OBVIOUS
<1>1. CASE UNCHANGED vars
  <2>1. UNCHANGED <<served, pins, file, started, refresh, branches, tested>>
    BY <1>1 DEF vars, hostVars, ghostVars
  <2> QED
    BY <2>1, WorldKeepsInv DEF RefreshInv, RefreshType
<1>2. CASE \E u \in Users, only \in SUBSET Installers \ {{}}, m \in Modes, v \in BOOLEAN :
             Begin(u, only, m, v)
  BY <1>2, BeginKeepsInv
<1>3. ASSUME NEW u \in Users, RefreshStep(u) \/ Kill(u) PROVE RefreshInv'
  BY <1>3, FetchKeepsInv, LedgerStepsKeepInv, VerifyKeepsInv, WorktreeKeepsInv,
     CommitKeepsInv, PushKeepsInv, EndsKeepInv DEF RefreshStep
<1>4. CASE \/ \E i \in Installers, s \in Scripts : UpstreamChanges(i, s) \/ Edit(i, s)
           \/ CommitEdits
           \/ \E b \in branches : Merge(b)
  BY <1>4, OthersKeepInv
<1> QED
  BY <1>1, <1>2, <1>3, <1>4 DEF Next

(* What holds of every refresh and every branch (refresh_checksums,        *)
(* plan_refresh, propose), from which the next two theorems follow.        *)
THEOREM RefreshInvariant == Spec => []RefreshInv
<1>1. Init => RefreshInv
  BY InitKeeps
<1>2. RefreshInv /\ [Next]_vars => RefreshInv'
  BY StepKeepsInv
<1> QED
  BY <1>1, <1>2, PTL DEF Spec

(* render_candidate and propose: whatever the hosts serve meanwhile, and   *)
(* whichever processes refresh or die, whatever people edit, commit and    *)
(* merge, a branch made with verification changes a pin of its base only   *)
(* to a script that ran and passed, or to what the refresh had read in the *)
(* working tree.                                                           *)
THEOREM BranchesAreTested == Spec => []BranchIsTested
<1>1. RefreshInv => BranchIsTested
  BY DEF RefreshInv
<1> QED
  BY <1>1, RefreshInvariant, PTL

-----------------------------------------------------------------------------
(* The outcome a place in a complete, verified plan gives.                 *)
LEMMA OutcomeOfFacts ==
    ASSUME NEW u \in Users, NEW pushed, NEW i \in Installers,
           refresh[u].plan[i].place \in {"out", "passed", "failed", "skipped", "same"}
    PROVE  /\ OutcomeOf(u, pushed, i) = "applied" =>
                refresh[u].plan[i].place = "passed" /\ pushed
           /\ OutcomeOf(u, pushed, i) = "proposed" =>
                refresh[u].plan[i].place = "passed" /\ ~pushed /\ Proposes(u)
           /\ OutcomeOf(u, pushed, i) = "verified" =>
                refresh[u].plan[i].place = "passed" /\ ~Proposes(u)
           /\ OutcomeOf(u, pushed, i) = "failed" =>
                refresh[u].plan[i].place \in {"failed", "skipped"}
<1>1. CASE refresh[u].plan[i].place = "out"
  <2>1. OutcomeOf(u, pushed, i) = "none"
    BY <1>1, Zenon DEF OutcomeOf
  <2> QED
    BY <2>1
<1>2. CASE refresh[u].plan[i].place = "passed"
  <2>1. OutcomeOf(u, pushed, i) =
          IF pushed THEN "applied" ELSE IF Proposes(u) THEN "proposed" ELSE "verified"
    BY <1>2, Zenon DEF OutcomeOf
  <2> QED
    BY <1>2, <2>1
<1>3. CASE refresh[u].plan[i].place \in {"failed", "skipped"}
  <2>1. OutcomeOf(u, pushed, i) = "failed"
    BY <1>3, Zenon DEF OutcomeOf
  <2> QED
    BY <1>3, <2>1
<1>4. CASE refresh[u].plan[i].place = "same"
  <2>1. OutcomeOf(u, pushed, i) = "skipped"
    BY <1>4, Zenon DEF OutcomeOf
  <2> QED
    BY <2>1
<1> QED
  BY <1>1, <1>2, <1>3, <1>4

(* A check whose plan is complete: every place has an outcome.             *)
LEMMA CompletePlaces ==
    ASSUME RefreshInv, Check \in Users, Ready(Check) \/ pc(Check) = "report",
           NEW i \in Installers
    PROVE  refresh[Check].plan[i].place \in {"out", "passed", "failed", "skipped", "same"}
<1>1. /\ refresh[Check].plan[i].place \in Places /\ refresh[Check].verify
      /\ Sound(refresh[Check])
  BY DEF RefreshInv, RefreshType, UsersSound, CheckVerifies, Recs, Plans, Active, Ready,
         Planned, pc
<1>2. refresh[Check].plan[i].place \notin {"todo", "drifted"}
  BY <1>1 DEF Sound, Ready, Planned, ToVerify, Placed, pc
<1> QED
  BY <1>1, <1>2 DEF Places

(* The end of a check that made a branch.                                  *)
LEMMA ReportMatches ==
    ASSUME RefreshInv, Check \in Users, Report(Check), NEW i \in Installers
    PROVE  AttachedMatchesRemote(i)
<1>1. PICK r : r = refresh[Check]
  OBVIOUS
<1>2. /\ r.pc = "report" /\ r \in Recs /\ Sound(r) /\ r.verify /\ branches' = branches
      /\ outcome'[i] = OutcomeOf(Check, r.mode = "apply", i)
  BY <1>1 DEF RefreshInv, RefreshType, UsersSound, CheckVerifies, Report, Done, pc, Active
<1>3. r.plan[i].place \in {"out", "passed", "failed", "skipped", "same"}
  BY <1>1, <1>2, CompletePlaces DEF pc
<1>4. /\ outcome'[i] = "applied" => r.plan[i].place = "passed" /\ r.mode = "apply"
      /\ outcome'[i] = "proposed" => r.plan[i].place = "passed" /\ r.mode # "apply"
      /\ outcome'[i] = "verified" => r.plan[i].place = "passed" /\ ~Proposes(Check)
      /\ outcome'[i] = "failed" => r.plan[i].place \in {"failed", "skipped"}
  <2>1. PICK p : p = (r.mode = "apply")
    OBVIOUS
  <2>2. outcome'[i] = OutcomeOf(Check, p, i)
    BY <1>2, <2>1, Zenon
  <2>3. /\ outcome'[i] = "applied" => r.plan[i].place = "passed" /\ p
        /\ outcome'[i] = "proposed" => r.plan[i].place = "passed" /\ ~p
        /\ outcome'[i] = "verified" => r.plan[i].place = "passed" /\ ~Proposes(Check)
        /\ outcome'[i] = "failed" => r.plan[i].place \in {"failed", "skipped"}
    BY <1>1, <1>3, <2>2, OutcomeOfFacts
  <2> QED
    BY <2>1, <2>3, Zenon
<1>5. \A b \in branches : b.id = r.id =>
        /\ b.pins = Candidate(r) /\ b.read = r.original
        /\ b.pushed <=> r.mode = "apply"
  BY <1>1, <1>2 DEF RefreshInv, OwnBranches, Owns, Active
<1>6. PICK b \in branches : b.id = r.id
  BY <1>1, <1>2 DEF RefreshInv, PushHasBranch
<1>7. /\ r.plan[i].place = "passed" => Candidate(r)[i] # r.original[i]
      /\ r.plan[i].place \in {"failed", "skipped"} => Candidate(r)[i] = r.original[i]
  BY <1>2 DEF Candidate, Included, Sound
<1>8. outcome'[i] # "verified"
  <2>1. r.plan[i].place = "passed" => Proposes(Check)
    BY <1>1, <1>2 DEF Proposes, Includable, Placed, Sound
  <2> QED
    BY <1>4, <2>1
<1>9. Carrying(i) = {c \in branches : c.id = r.id /\ c.pins[i] # c.read[i]}
  BY <1>1, <1>2 DEF Carrying, MyBranch
<1>10. outcome'[i] = "applied" => Pushed(i)
  <2>1. outcome'[i] = "applied" => b \in Carrying(i) /\ b.pushed
    BY <1>4, <1>5, <1>6, <1>7, <1>9
  <2> QED
    BY <2>1 DEF Pushed
<1>11. outcome'[i] = "proposed" => Carrying(i) # {} /\ ~Pushed(i)
  <2>1. outcome'[i] = "proposed" => b \in Carrying(i)
    BY <1>4, <1>5, <1>6, <1>7, <1>9
  <2>2. outcome'[i] = "proposed" => \A c \in Carrying(i) : ~c.pushed
    BY <1>4, <1>5, <1>9
  <2> QED
    BY <2>1, <2>2 DEF Pushed
<1>12. outcome'[i] = "failed" => ~Pushed(i)
  <2>1. outcome'[i] = "failed" => Carrying(i) = {}
    BY <1>4, <1>5, <1>7, <1>9
  <2> QED
    BY <2>1 DEF Pushed
<1> QED
  BY <1>8, <1>10, <1>11, <1>12 DEF AttachedMatchesRemote

(* A check that ends without a branch has nothing on the remote.           *)
LEMMA NoBranchMatches ==
    ASSUME RefreshInv, Check \in Users, EndsWithoutBranch(Check), NEW i \in Installers
    PROVE  AttachedMatchesRemote(i)
<1>1. /\ refresh[Check].pc = "walk" /\ branches' = branches /\ Ready(Check)
      /\ ~Proposes(Check) /\ outcome'[i] = OutcomeOf(Check, FALSE, i)
  BY DEF EndsWithoutBranch, Ready, Planned, pc, Done
<1>2. \A b \in branches : b.id # refresh[Check].id
  BY <1>1 DEF RefreshInv, OwnBranches, Owns, Active
<1>3. Carrying(i) = {} /\ ~Pushed(i)
  BY <1>1, <1>2 DEF Carrying, MyBranch, Pushed
<1>4. outcome'[i] \notin {"applied", "proposed"}
  BY <1>1, CompletePlaces, OutcomeOfFacts
<1> QED
  BY <1>3, <1>4 DEF AttachedMatchesRemote

(* A refresh that fails is failed for all of its results.                  *)
LEMMA FailureMatches ==
    ASSUME RefreshInv, Check \in Users, RefreshFails(Check), NEW i \in Installers
    PROVE  AttachedMatchesRemote(i)
<1>1. \A j \in Installers : outcome'[j] \in {"none", "failed"}
  BY DEF RefreshFails
<1> QED
  BY <1>1 DEF AttachedMatchesRemote

LEMMA StepMatches ==
    ASSUME RefreshInv, Next, NEW i \in Installers
    PROVE  AttachedMatchesRemote(i)
<1>1. CASE outcome' = outcome
  BY <1>1 DEF AttachedMatchesRemote
<1>2. ASSUME NEW u \in Users, NEW only, NEW m, NEW v, Begin(u, only, m, v)
      PROVE  AttachedMatchesRemote(i)
  <2>1. CASE u = Check
    <3>1. outcome'[i] = "none"
      BY <1>2, <2>1 DEF Begin
    <3> QED
      BY <3>1 DEF AttachedMatchesRemote
  <2>2. CASE u # Check
    BY <1>1, <1>2, <2>2 DEF Begin
  <2> QED
    BY <2>1, <2>2
<1>3. ASSUME NEW u \in Users, EndsWithoutBranch(u) \/ Report(u) \/ RefreshFails(u)
      PROVE  AttachedMatchesRemote(i)
  <2>1. CASE u = Check
    BY <1>3, <2>1, ReportMatches, NoBranchMatches, FailureMatches
  <2>2. CASE u # Check
    BY <1>1, <1>3, <2>2 DEF EndsWithoutBranch, Report, RefreshFails, Done
  <2> QED
    BY <2>1, <2>2
<1>4. ASSUME NEW u \in Users,
             Fetch(u) \/ Record(u) \/ LedgerFails(u) \/ VerifyEntry(u) \/ Mark(u)
               \/ AddWorktree(u) \/ Commit(u) \/ Push(u) \/ Kill(u)
      PROVE  outcome' = outcome
  BY <1>4 DEF Fetch, Record, LedgerFails, VerifyEntry, Mark, AddWorktree, Commit, Push, Kill
<1>5. ASSUME \/ \E j \in Installers, s \in Scripts : UpstreamChanges(j, s) \/ Edit(j, s)
             \/ CommitEdits
             \/ \E b \in branches : Merge(b)
      PROVE  outcome' = outcome
  BY <1>5 DEF UpstreamChanges, Edit, CommitEdits, Merge
<1> QED
  BY <1>1, <1>2, <1>3, <1>4, <1>5 DEF Next, RefreshStep

(* remediate_results on a refresh's verdicts, pushes with a lost answer    *)
(* included: a result says applied only if its new pin is on a pushed      *)
(* branch, proposed or verified only if it is not, and one that says       *)
(* failed although it is stands with nothing but failed ones.              *)
THEOREM OutcomesAgreeWithRemote == Spec => OutcomesMatchRemote
<1>1. RefreshInv /\ [Next]_vars => [\A i \in Installers : AttachedMatchesRemote(i)]_vars
  BY StepMatches
<1> QED
  BY <1>1, RefreshInvariant, PTL DEF Spec, OutcomesMatchRemote

-----------------------------------------------------------------------------
(* Induction, on a set of numbers.                                         *)
LEMMA NatInductionSet ==
    ASSUME NEW B, B \subseteq Nat, 0 \in B, \A n \in B : n + 1 \in B
    PROVE  B = Nat
<1> DEFINE R == {ss \in Nat \X Nat : ss[1] < ss[2]}
           T == Nat \ B
<1>1. IsWellFoundedOn(R, Nat)
  BY NatLessThanWellFounded DEF OpToRel
<1> SUFFICES ASSUME T # {} PROVE FALSE
  OBVIOUS
<1>2. PICK x \in T : \A y \in T : ~ (<<y, x>> \in R)
  <2> HIDE DEF R
  <2> QED
    BY <1>1, WFMin
<1>3. x \in Nat /\ x # 0 /\ x \notin B
  BY <1>2
<1>4. x - 1 \in Nat /\ x - 1 < x /\ (x - 1) + 1 = x
  BY <1>3
<1>5. x - 1 \in B
  <2>1. <<x - 1, x>> \in R
    BY <1>3, <1>4
  <2> QED
    BY <1>2, <1>4, <2>1
<1> QED
  BY <1>3, <1>4, <1>5

(* How far a selection is after each of the first n places.                *)
Taking(s, K, N, f) ==
    f = [n \in 0..N |-> IF n = 0 THEN <<>>
                        ELSE IF n \in K THEN Append(f[n - 1], s[n])
                        ELSE f[n - 1]]

LEMMA TakingExists ==
    ASSUME NEW s, NEW K
    PROVE  \A N \in Nat : \E f : Taking(s, K, N, f)
<1> DEFINE B == {N \in Nat : \E f : Taking(s, K, N, f)}
<1>1. 0 \in B
  <2>1. Taking(s, K, 0, [n \in 0..0 |-> <<>>])
    BY DEF Taking
  <2> QED
    BY <2>1
<1>2. ASSUME NEW N \in B PROVE N + 1 \in B
  <2>1. PICK f : Taking(s, K, N, f)
    OBVIOUS
  <2> DEFINE g == [n \in 0..(N + 1) |->
                     IF n <= N THEN f[n]
                     ELSE IF n \in K THEN Append(f[n - 1], s[n]) ELSE f[n - 1]]
             h == [n \in 0..(N + 1) |-> IF n = 0 THEN <<>>
                        ELSE IF n \in K THEN Append(g[n - 1], s[n])
                        ELSE g[n - 1]]
  <2>2. ASSUME NEW n \in 0..(N + 1) PROVE g[n] = h[n]
    <3>0. n \in Nat /\ N \in Nat /\ (n # 0 => n - 1 \in 0..N)
      OBVIOUS
    <3>1. n # 0 => g[n - 1] = f[n - 1]
      BY <3>0
    <3>2. n <= N => g[n] = f[n] /\ n \in 0..N
      BY <3>0
    <3>3. n <= N => f[n] = IF n = 0 THEN <<>>
                        ELSE IF n \in K THEN Append(f[n - 1], s[n])
                        ELSE f[n - 1]
      BY <2>1, <3>2 DEF Taking
    <3>4. ~(n <= N) => n # 0 /\ g[n] = IF n \in K THEN Append(f[n - 1], s[n]) ELSE f[n - 1]
      BY <3>0
    <3>5. h[n] = IF n = 0 THEN <<>> ELSE IF n \in K THEN Append(g[n - 1], s[n]) ELSE g[n - 1]
      OBVIOUS
    <3> HIDE DEF g, h
    <3> QED
      BY <3>0, <3>1, <3>2, <3>3, <3>4, <3>5
  <2>3. g = h
    <3>1. DOMAIN g = 0..(N + 1) /\ DOMAIN h = 0..(N + 1) /\ g = [n \in DOMAIN g |-> g[n]]
          /\ h = [n \in DOMAIN h |-> h[n]]
      OBVIOUS
    <3> HIDE DEF g, h
    <3> QED
      BY <2>2, <3>1
  <2>4. Taking(s, K, N + 1, g)
    BY <2>3 DEF Taking
  <2> HIDE DEF g, h
  <2> QED
    BY <2>4
<1> HIDE DEF B
<1>3. B \subseteq Nat
  BY DEF B
<1>4. B = Nat
  BY <1>1, <1>2, <1>3, NatInductionSet
<1> QED
  BY <1>4 DEF B

LEMMA AtTakes ==
    ASSUME NEW s, NEW K, Len(s) \in Nat
    PROVE  \E f : Taking(s, K, Len(s), f) /\ At(s, K) = f[Len(s)]
<1> DEFINE f == CHOOSE taken :
                  taken = [n \in 0..Len(s) |-> IF n = 0 THEN <<>>
                        ELSE IF n \in K THEN Append(taken[n - 1], s[n])
                        ELSE taken[n - 1]]
<1>1. \E g : g = [n \in 0..Len(s) |-> IF n = 0 THEN <<>>
                        ELSE IF n \in K THEN Append(g[n - 1], s[n])
                        ELSE g[n - 1]]
  <2>1. PICK g : Taking(s, K, Len(s), g)
    BY TakingExists
  <2> QED
    BY <2>1, Zenon DEF Taking
<1>2. f = [n \in 0..Len(s) |-> IF n = 0 THEN <<>>
                        ELSE IF n \in K THEN Append(f[n - 1], s[n])
                        ELSE f[n - 1]]
  BY <1>1, Zenon
<1>3. At(s, K) = f[Len(s)]
  BY Zenon DEF At
<1> HIDE DEF f
<1> QED
  BY <1>2, <1>3, Zenon DEF Taking

(* The places p at which the entries of q stand in s: those in K up to n,  *)
(* in order.                                                               *)
StandsAt(s, K, n, q, p) ==
    /\ p \in Seq(Nat) /\ Len(p) = Len(q)
    /\ \A m \in 1..Len(q) : p[m] \in K /\ p[m] <= n /\ q[m] = s[p[m]]
    /\ \A m, l \in 1..Len(q) : m < l => p[m] < p[l]
    /\ \A k \in K : k <= n => \E m \in 1..Len(q) : p[m] = k

LEMMA TakingGrows ==
    ASSUME NEW S, NEW s \in Seq(S), NEW K, K \subseteq 1..Len(s), NEW n \in Nat,
           n + 1 <= Len(s), NEW q \in Seq(S), NEW p, StandsAt(s, K, n, q, p),
           n + 1 \in K
    PROVE  StandsAt(s, K, n + 1, Append(q, s[n + 1]), Append(p, n + 1))
<1> DEFINE r == Append(q, s[n + 1])
           t == Append(p, n + 1)
<1>1. /\ r \in Seq(S) /\ Len(r) = Len(q) + 1 /\ r[Len(q) + 1] = s[n + 1]
      /\ \A m \in 1..Len(q) : r[m] = q[m]
  <2>1. s[n + 1] \in S
    OBVIOUS
  <2> QED
    BY <2>1
<1>2. /\ t \in Seq(Nat) /\ Len(t) = Len(q) + 1 /\ t[Len(q) + 1] = n + 1
      /\ \A m \in 1..Len(q) : t[m] = p[m] /\ p[m] \in K
  BY DEF StandsAt
<1>3. Len(q) \in Nat /\ \A m \in 1..(Len(q) + 1) : m \in 1..Len(q) \/ m = Len(q) + 1
  OBVIOUS
<1> HIDE DEF r, t
<1>4. \A m \in 1..Len(r) : t[m] \in K /\ t[m] <= n + 1 /\ r[m] = s[t[m]]
  <2> SUFFICES ASSUME NEW m \in 1..Len(r)
               PROVE  t[m] \in K /\ t[m] <= n + 1 /\ r[m] = s[t[m]]
    OBVIOUS
  <2>1. CASE m = Len(q) + 1
    BY <1>1, <1>2, <2>1
  <2>2. CASE m \in 1..Len(q)
    <3>1. p[m] \in K /\ p[m] <= n /\ q[m] = s[p[m]] /\ p[m] \in Nat
      BY <2>2 DEF StandsAt
    <3> QED
      BY <1>1, <1>2, <2>2, <3>1
  <2> QED
    BY <1>1, <1>3, <2>1, <2>2
<1>5. \A m, l \in 1..Len(r) : m < l => t[m] < t[l]
  <2> SUFFICES ASSUME NEW m \in 1..Len(r), NEW l \in 1..Len(r), m < l PROVE t[m] < t[l]
    OBVIOUS
  <2>1. m \in 1..Len(q)
    BY <1>1, <1>3
  <2>2. p[m] <= n /\ p[m] \in Nat /\ t[m] = p[m]
    <3>1. p[m] \in K /\ p[m] <= n
      BY <2>1 DEF StandsAt
    <3> QED
      BY <1>2, <2>1, <3>1
  <2>3. CASE l = Len(q) + 1
    BY <1>2, <2>2, <2>3
  <2>4. CASE l \in 1..Len(q)
    BY <1>2, <2>1, <2>2, <2>4 DEF StandsAt
  <2> QED
    BY <1>1, <1>3, <2>3, <2>4
<1>6. ASSUME NEW k \in K, k <= n + 1 PROVE \E m \in 1..Len(r) : t[m] = k
  <2>1. CASE k = n + 1
    BY <1>1, <1>2, <1>3, <2>1
  <2>2. CASE k <= n
    <3>1. PICK m \in 1..Len(q) : p[m] = k
      BY <2>2 DEF StandsAt
    <3>2. m \in 1..Len(r) /\ t[m] = p[m]
      BY <1>1, <1>2, <1>3
    <3> QED
      BY <3>1, <3>2
  <2> QED
    BY <1>6, <2>1, <2>2
<1> QED
  BY <1>1, <1>2, <1>4, <1>5, <1>6 DEF StandsAt, r, t

(* What a selection is: the chosen entries, in their order, and shorter    *)
(* than the whole unless all were chosen.                                  *)
LEMMA AtFacts ==
    ASSUME NEW S, NEW s \in Seq(S), NEW K, K \subseteq 1..Len(s)
    PROVE  /\ At(s, K) \in Seq(S) /\ Len(At(s, K)) <= Len(s)
           /\ K # 1..Len(s) => Len(At(s, K)) < Len(s)
           /\ \E p : StandsAt(s, K, Len(s), At(s, K), p)
<1>0. Len(s) \in Nat
  OBVIOUS
<1>1. PICK f : Taking(s, K, Len(s), f) /\ At(s, K) = f[Len(s)]
  BY <1>0, AtTakes
<1> DEFINE OK(n) == /\ f[n] \in Seq(S) /\ Len(f[n]) <= n
                    /\ (\E k \in 1..n : k \notin K) => Len(f[n]) < n
                    /\ \E p : StandsAt(s, K, n, f[n], p)
           B == {n \in Nat : n <= Len(s) => OK(n)}
<1>2. 0 \in B
  <2>1. f[0] = <<>>
    BY <1>0, <1>1 DEF Taking
  <2>2. StandsAt(s, K, 0, <<>>, <<>>)
    BY <1>0 DEF StandsAt
  <2>3. <<>> \in Seq(S) /\ Len(<<>>) = 0 /\ \A k \in 1..0 : FALSE
    OBVIOUS
  <2>4. OK(0)
    BY <2>1, <2>2, <2>3
  <2> HIDE DEF OK
  <2> QED
    BY <2>4
<1>3. ASSUME NEW n \in B PROVE n + 1 \in B
  <2> SUFFICES ASSUME n + 1 <= Len(s) PROVE OK(n + 1)
    OBVIOUS
  <2>0. n \in Nat /\ n <= Len(s) /\ n + 1 \in 0..Len(s) /\ n + 1 # 0 /\ (n + 1) - 1 = n
    BY <1>0
  <2>1. f[n + 1] = IF n + 1 \in K THEN Append(f[n], s[n + 1]) ELSE f[n]
    BY <1>1, <2>0 DEF Taking
  <2>2. OK(n)
    BY <2>0
  <2>3. PICK p : StandsAt(s, K, n, f[n], p)
    BY <2>2
  <2>4. f[n] \in Seq(S) /\ Len(f[n]) <= n /\ Len(f[n]) \in Nat
    BY <2>2
  <2>5. CASE n + 1 \in K
    <3>1. StandsAt(s, K, n + 1, f[n + 1], Append(p, n + 1))
      BY <2>0, <2>1, <2>3, <2>4, <2>5, TakingGrows
    <3>2. f[n + 1] \in Seq(S) /\ Len(f[n + 1]) = Len(f[n]) + 1
      BY <2>0, <2>1, <2>4, <2>5
    <3>3. ASSUME NEW k \in 1..(n + 1), k \notin K PROVE Len(f[n + 1]) < n + 1
      <4>1. k \in 1..n
        BY <2>5, <3>3
      <4> QED
        BY <2>2, <2>4, <3>2, <3>3, <4>1
    <3> QED
      BY <2>4, <3>1, <3>2, <3>3
  <2>6. CASE n + 1 \notin K
    <3>1. StandsAt(s, K, n + 1, f[n + 1], p)
      <4>1. f[n + 1] = f[n] /\ \A k \in K : k \in Nat /\ (k <= n + 1 => k <= n)
        BY <1>0, <2>0, <2>1, <2>6
      <4>2. \A m \in 1..Len(f[n]) : p[m] \in K /\ p[m] <= n /\ f[n][m] = s[p[m]]
        BY <2>3 DEF StandsAt
      <4>3. \A m \in 1..Len(f[n]) : p[m] <= n + 1
        <5> SUFFICES ASSUME NEW m \in 1..Len(f[n]) PROVE p[m] <= n + 1
          OBVIOUS
        <5>1. p[m] \in Nat /\ p[m] <= n
          BY <4>1, <4>2
        <5> HIDE DEF OK, B
        <5> QED
          BY <2>0, <5>1
      <4> HIDE DEF OK, B
      <4> QED
        BY <2>3, <4>1, <4>2, <4>3 DEF StandsAt
    <3> QED
      BY <2>0, <2>1, <2>4, <2>6, <3>1
  <2> QED
    BY <2>5, <2>6
<1> HIDE DEF B
<1>4. B = Nat
  <2>1. B \subseteq Nat
    BY DEF B
  <2> QED
    BY <1>2, <1>3, <2>1, NatInductionSet
<1>5. OK(Len(s))
  BY <1>0, <1>4 DEF B
<1> QED
  BY <1>0, <1>1, <1>5

-----------------------------------------------------------------------------
(* An index has one entry of a script.                                     *)
Distinct(s) == \A j, k \in 1..Len(s) : s[j].sha = s[k].sha => j = k

LEMMA EntryTypes ==
    ASSUME NEW s \in Seq(Entries), NEW e \in ToSet(s)
    PROVE  e \in Entries /\ e.verified \in BOOLEAN
<1>1. PICK k \in 1..Len(s) : s[k] = e
  BY DEF ToSet
<1>2. e \in Entries
  BY <1>1
<1> QED
  BY <1>2 DEF Entries

LEMMA WithoutFacts ==
    ASSUME NEW s \in Seq(Entries), Distinct(s), NEW G
    PROVE  /\ Without(s, G) \in Seq(Entries) /\ Distinct(Without(s, G))
           /\ Len(Without(s, G)) <= Len(s)
           /\ \A e \in ToSet(s) : e.sha \in G => Len(Without(s, G)) < Len(s)
           /\ ToSet(Without(s, G)) = {e \in ToSet(s) : e.sha \notin G}
<1> DEFINE K == {k \in DOMAIN s : s[k].sha \notin G}
           w == Without(s, G)
<1>1. K \subseteq 1..Len(s) /\ DOMAIN s = 1..Len(s) /\ Len(s) \in Nat
  OBVIOUS
<1>2. w = At(s, K)
  BY Zenon DEF Without
<1>3. \A k \in 1..Len(s) : k \in K <=> s[k].sha \notin G
  BY <1>1
<1> HIDE DEF K, w
<1>4. /\ w \in Seq(Entries) /\ Len(w) <= Len(s) /\ (K # 1..Len(s) => Len(w) < Len(s))
      /\ \E p : StandsAt(s, K, Len(s), w, p)
  BY <1>1, <1>2, AtFacts
<1>5. PICK p : StandsAt(s, K, Len(s), w, p)
  BY <1>4
<1>6. /\ \A m \in 1..Len(w) : p[m] \in 1..Len(s) /\ p[m] \in K /\ w[m] = s[p[m]]
      /\ \A m, l \in 1..Len(w) : m < l => p[m] < p[l]
      /\ \A k \in K : \E m \in 1..Len(w) : p[m] = k
  <2>1. \A k \in K : k <= Len(s)
    BY <1>1
  <2> QED
    BY <1>1, <1>5, <2>1 DEF StandsAt
<1>7. Distinct(w)
  <2> SUFFICES ASSUME NEW j \in 1..Len(w), NEW k \in 1..Len(w), w[j].sha = w[k].sha, j # k
               PROVE  FALSE
    BY DEF Distinct
  <2>1. p[j] = p[k]
    BY <1>6 DEF Distinct
  <2>2. j < k \/ k < j
    BY <1>4
  <2>3. p[j] \in Nat /\ p[k] \in Nat
    BY <1>1, <1>6
  <2> QED
    BY <1>6, <2>1, <2>2, <2>3
<1>8. ASSUME NEW e \in ToSet(s), e.sha \in G PROVE Len(w) < Len(s)
  <2>1. PICK k \in 1..Len(s) : s[k] = e
    BY <1>1 DEF ToSet
  <2>2. k \notin K
    BY <1>3, <1>8, <2>1
  <2> QED
    BY <1>4, <2>2
<1>9. ToSet(w) = {e \in ToSet(s) : e.sha \notin G}
  <2>1. ASSUME NEW e \in ToSet(w) PROVE e \in ToSet(s) /\ e.sha \notin G
    <3>1. PICK m \in 1..Len(w) : w[m] = e
      BY <1>4 DEF ToSet
    <3> QED
      BY <1>1, <1>3, <1>6, <3>1 DEF ToSet
  <2>2. ASSUME NEW e \in ToSet(s), e.sha \notin G PROVE e \in ToSet(w)
    <3>1. PICK k \in 1..Len(s) : s[k] = e
      BY <1>1 DEF ToSet
    <3>2. k \in K
      BY <1>3, <2>2, <3>1
    <3>3. PICK m \in 1..Len(w) : p[m] = k
      BY <1>6, <3>2
    <3>4. w[m] = e
      BY <1>6, <3>1, <3>3
    <3> QED
      BY <1>4, <3>4 DEF ToSet
  <2> QED
    BY <2>1, <2>2
<1> QED
  BY <1>4, <1>7, <1>8, <1>9 DEF w

(* touch: record and mark_verified bring one entry of the script.          *)
LEMMA TouchedFacts ==
    ASSUME NEW s \in Seq(Entries), Distinct(s), NEW x \in Scripts, NEW v \in BOOLEAN
    PROVE  /\ Touched(s, x, v) \in Seq(Entries) /\ Distinct(Touched(s, x, v))
           /\ Len(Touched(s, x, v)) <= Len(s) + 1
           /\ x \in Shas(s) => Len(Touched(s, x, v)) <= Len(s)
           /\ ToSet(Touched(s, x, v)) =
                 {e \in ToSet(s) : e.sha # x} \cup {[sha |-> x, verified |-> v]}
<1> DEFINE w == Without(s, {x})
           e0 == [sha |-> x, verified |-> v]
           t == Append(w, e0)
<1>1. /\ w \in Seq(Entries) /\ Distinct(w) /\ Len(w) <= Len(s)
      /\ \A e \in ToSet(s) : e.sha = x => Len(w) < Len(s)
      /\ ToSet(w) = {e \in ToSet(s) : e.sha # x}
  <2>1. /\ \A e \in ToSet(s) : e.sha \in {x} => Len(w) < Len(s)
        /\ ToSet(w) = {e \in ToSet(s) : e.sha \notin {x}}
        /\ w \in Seq(Entries) /\ Distinct(w) /\ Len(w) <= Len(s)
    BY WithoutFacts
  <2> HIDE DEF w
  <2> QED
    BY <2>1
<1>2. e0 \in Entries /\ e0.sha = x
  BY DEF Entries
<1>3. Touched(s, x, v) = t
  BY Zenon DEF Touched
<1> HIDE DEF w, e0
<1>4. /\ t \in Seq(Entries) /\ Len(t) = Len(w) + 1 /\ t[Len(w) + 1] = e0
      /\ Len(w) \in Nat /\ Len(s) \in Nat /\ \A k \in 1..Len(w) : t[k] = w[k]
      /\ DOMAIN t = 1..(Len(w) + 1) /\ DOMAIN w = 1..Len(w)
  BY <1>1, <1>2
<1> HIDE DEF t
<1>5. \A k \in 1..Len(t) : k \in 1..Len(w) \/ k = Len(w) + 1
  BY <1>4
<1>6. \A k \in 1..Len(w) : t[k] \in ToSet(w) /\ t[k].sha # x /\ w[k] = t[k]
  <2> SUFFICES ASSUME NEW k \in 1..Len(w) PROVE t[k] \in ToSet(w) /\ t[k].sha # x /\ w[k] = t[k]
    OBVIOUS
  <2>1. t[k] = w[k] /\ w[k] \in ToSet(w)
    BY <1>4 DEF ToSet
  <2> QED
    BY <1>1, <2>1
<1>7. Distinct(t)
  BY <1>1, <1>2, <1>4, <1>5, <1>6 DEF Distinct
<1>8. ToSet(t) = ToSet(w) \cup {e0}
  <2>1. ASSUME NEW e \in ToSet(t) PROVE e \in ToSet(w) \cup {e0}
    <3>1. PICK k \in 1..Len(t) : t[k] = e
      BY <1>4 DEF ToSet
    <3> QED
      BY <1>4, <1>5, <1>6, <3>1
  <2>2. e0 \in ToSet(t)
    BY <1>4 DEF ToSet
  <2>3. ASSUME NEW e \in ToSet(w) PROVE e \in ToSet(t)
    <3>1. PICK k \in 1..Len(w) : w[k] = e
      BY <1>4 DEF ToSet
    <3>2. k \in DOMAIN t /\ t[k] = e
      BY <1>4, <3>1
    <3> QED
      BY <3>2 DEF ToSet
  <2> QED
    BY <2>1, <2>2, <2>3
<1>9. x \in Shas(s) => Len(t) <= Len(s)
  BY <1>1, <1>4 DEF Shas
<1> QED
  BY <1>1, <1>3, <1>4, <1>7, <1>8, <1>9 DEF e0

(* The entries of one kind.                                                *)
LEMMA KindFacts ==
    ASSUME NEW s \in Seq(Entries), NEW K, NEW b \in BOOLEAN,
           K = {k \in DOMAIN s : s[k].verified = b}
    PROVE  /\ At(s, K) \in Seq(Entries)
           /\ \A m \in 1..Len(At(s, K)) :
                 At(s, K)[m] \in ToSet(s) /\ At(s, K)[m].verified = b
           /\ (\E e \in ToSet(s) : e.verified = b) => Len(At(s, K)) >= 1
<1> DEFINE w == At(s, K)
<1>1. K \subseteq 1..Len(s) /\ DOMAIN s = 1..Len(s) /\ Len(s) \in Nat
  OBVIOUS
<1> HIDE DEF w
<1>2. w \in Seq(Entries) /\ \E p : StandsAt(s, K, Len(s), w, p)
  BY <1>1, AtFacts DEF w
<1>3. PICK p : StandsAt(s, K, Len(s), w, p)
  BY <1>2
<1>4. \A m \in 1..Len(w) : p[m] \in K /\ w[m] = s[p[m]]
  BY <1>3 DEF StandsAt
<1>5. \A m \in 1..Len(w) : w[m] \in ToSet(s) /\ w[m].verified = b
  BY <1>1, <1>4 DEF ToSet
<1>6. ASSUME NEW e \in ToSet(s), e.verified = b PROVE Len(w) >= 1
  <2>1. PICK k \in 1..Len(s) : s[k] = e
    BY <1>1 DEF ToSet
  <2>2. k \in K /\ k <= Len(s)
    BY <1>1, <1>6, <2>1
  <2>3. \E m \in 1..Len(w) : p[m] = k
    BY <1>3, <2>2 DEF StandsAt
  <2> QED
    BY <1>2, <2>3
<1> QED
  BY <1>2, <1>5, <1>6 DEF w

(* prune_index, for at most one entry too many: it takes an unverified one *)
(* if there is any.                                                        *)
LEMMA OverflowFacts ==
    ASSUME NEW t \in Seq(Entries), Len(t) <= Keep + 1
    PROVE  /\ Len(t) <= Keep => Shas(Overflow(t)) = {}
           /\ Len(t) = Keep + 1 /\ (\E e \in ToSet(t) : ~e.verified) =>
                \E e \in ToSet(t) : ~e.verified /\ Shas(Overflow(t)) = {e.sha}
<1> DEFINE U == Unverified(t)
           V == Verified(t)
           q == U \o V
<1>0. Keep \in Nat /\ Len(t) \in Nat /\ \A e \in ToSet(t) : e.verified \in BOOLEAN
  BY LedgerAssumption, EntryTypes
<1>1. /\ U \in Seq(Entries)
      /\ \A m \in 1..Len(U) : U[m] \in ToSet(t) /\ U[m].verified = FALSE
      /\ (\E e \in ToSet(t) : e.verified = FALSE) => Len(U) >= 1
  <2>1. {k \in DOMAIN t : ~t[k].verified} = {k \in DOMAIN t : t[k].verified = FALSE}
    <3>1. \A k \in DOMAIN t : t[k] \in ToSet(t)
      BY DEF ToSet
    <3> QED
      BY <1>0, <3>1
  <2>2. U = At(t, {k \in DOMAIN t : t[k].verified = FALSE})
    BY <2>1, Zenon DEF Unverified
  <2> HIDE DEF U
  <2> QED
    BY <2>2, KindFacts
<1>2. V \in Seq(Entries)
  <2>1. {k \in DOMAIN t : t[k].verified} = {k \in DOMAIN t : t[k].verified = TRUE}
    <3>1. \A k \in DOMAIN t : t[k] \in ToSet(t)
      BY DEF ToSet
    <3> QED
      BY <1>0, <3>1
  <2>2. V = At(t, {k \in DOMAIN t : t[k].verified = TRUE})
    BY <2>1, Zenon DEF Verified
  <2> HIDE DEF V
  <2> QED
    BY <2>2, KindFacts
<1>3. Overflow(t) = SubSeq(q, 1, Len(t) - Keep)
  BY Zenon DEF Overflow
<1> HIDE DEF U, V
<1>4. q \in Seq(Entries) /\ (Len(U) >= 1 => q[1] = U[1] /\ Len(q) >= 1)
  BY <1>1, <1>2
<1> HIDE DEF q
<1>5. ASSUME Len(t) <= Keep PROVE Shas(Overflow(t)) = {}
  <2>1. Overflow(t) = <<>>
    <3>1. Len(t) - Keep < 1
      BY <1>0, <1>5
    <3> QED
      BY <1>0, <1>3, <1>4, <3>1
  <2> QED
    BY <2>1 DEF Shas, ToSet
<1>6. ASSUME Len(t) = Keep + 1, \E e \in ToSet(t) : ~e.verified
      PROVE  \E e \in ToSet(t) : ~e.verified /\ Shas(Overflow(t)) = {e.sha}
  <2>1. Len(U) >= 1
    BY <1>0, <1>1, <1>6
  <2>2. U[1] \in ToSet(t) /\ ~U[1].verified /\ q[1] = U[1] /\ Len(q) >= 1
    <3>1. 1 \in 1..Len(U)
      BY <1>1, <2>1
    <3> QED
      BY <1>1, <1>4, <2>1, <3>1
  <2>3. Len(t) - Keep = 1
    BY <1>0, <1>6
  <2>4. DOMAIN Overflow(t) = {1} /\ Overflow(t)[1] = q[1]
    <3>1. Overflow(t) = SubSeq(q, 1, 1)
      BY <1>3, <2>3
    <3> QED
      BY <1>4, <2>2, <3>1
  <2>5. ToSet(Overflow(t)) = {U[1]}
    BY <2>2, <2>4 DEF ToSet
  <2>6. Shas(Overflow(t)) = {U[1].sha}
    BY <2>5 DEF Shas
  <2> QED
    BY <2>2, <2>6
<1> QED
  BY <1>5, <1>6

(* record on an index in order: what goes was not verified, and what was   *)
(* verified stays.                                                         *)
InOrder(s) == s \in Seq(Entries) /\ Distinct(s) /\ Len(s) <= Keep

LEMMA RecordFacts ==
    ASSUME NEW s, InOrder(s), NEW x \in Scripts, NEW v \in BOOLEAN,
           v <=> [sha |-> x, verified |-> TRUE] \in ToSet(s),
           NEW t, NEW gone, NEW c, t = Touched(s, x, v),
           gone = Shas(Overflow(t)), c = Without(t, gone)
    PROVE  /\ InOrder(c) /\ gone \cap Shas(c) = {}
           /\ \A e \in ToSet(s) : e.verified => e \in ToSet(c) /\ e.sha \notin gone
           /\ \A e \in ToSet(c) : e.verified => e \in ToSet(s)
           /\ x \in gone => x \notin Shas(s)
<1> DEFINE e0 == [sha |-> x, verified |-> v]
<1>0. /\ Keep \in Nat /\ Len(s) \in Nat /\ e0 \in Entries
      /\ e0.sha = x /\ e0.verified = v /\ s \in Seq(Entries) /\ Distinct(s) /\ Len(s) <= Keep
  BY LedgerAssumption DEF Entries, InOrder
<1>1. /\ t \in Seq(Entries) /\ Distinct(t) /\ Len(t) <= Len(s) + 1
      /\ (x \in Shas(s) => Len(t) <= Len(s))
      /\ ToSet(t) = {e \in ToSet(s) : e.sha # x} \cup {e0}
  BY <1>0, TouchedFacts
<1>2. ToSet(s) \subseteq Entries /\ ToSet(t) \subseteq Entries /\ Len(t) \in Nat
  BY <1>0, <1>1, EntryTypes
<1>3. v => e0 \in ToSet(s)
  BY <1>0
<1>4. \A e \in ToSet(s) : e.verified => e \in ToSet(t)
  <2> SUFFICES ASSUME NEW e \in ToSet(s), e.verified PROVE e \in ToSet(t)
    OBVIOUS
  <2>1. CASE e.sha = x
    <3>1. e = [sha |-> x, verified |-> TRUE]
      BY <1>2, <2>1 DEF Entries
    <3> QED
      BY <1>1, <3>1
  <2>2. CASE e.sha # x
    BY <1>1, <2>2
  <2> QED
    BY <2>1, <2>2
<1> HIDE DEF e0
<1>5. \A a, b \in ToSet(t) : a.sha = b.sha => a = b
  BY <1>1 DEF ToSet, Distinct
<1>6. \/ gone = {} /\ Len(t) <= Keep
      \/ /\ Len(t) = Keep + 1 /\ x \notin Shas(s)
         /\ \E e \in ToSet(t) : ~e.verified /\ gone = {e.sha}
  <2>1. CASE Len(t) <= Keep
    BY <1>0, <1>1, <2>1, OverflowFacts
  <2>2. CASE ~(Len(t) <= Keep)
    <3>1. Len(t) = Keep + 1 /\ x \notin Shas(s)
      BY <1>0, <1>1, <1>2, <2>2
    <3>2. ~v
      BY <1>0, <1>3, <3>1 DEF Shas
    <3>3. \E e \in ToSet(t) : ~e.verified
      BY <1>0, <1>1, <3>2
    <3> QED
      BY <1>0, <1>1, <3>1, <3>3, OverflowFacts
  <2> QED
    BY <2>1, <2>2
<1>7. /\ c \in Seq(Entries) /\ Distinct(c) /\ Len(c) <= Len(t) /\ Len(c) \in Nat
      /\ \A e \in ToSet(t) : e.sha \in gone => Len(c) < Len(t)
      /\ ToSet(c) = {e \in ToSet(t) : e.sha \notin gone}
  BY <1>1, WithoutFacts
<1>8. InOrder(c)
  <2>1. Len(c) <= Keep
    BY <1>0, <1>2, <1>6, <1>7
  <2> QED
    BY <1>7, <2>1 DEF InOrder
<1>9. \A e \in ToSet(s) : e.verified => e \in ToSet(c) /\ e.sha \notin gone
  BY <1>4, <1>5, <1>6, <1>7
<1>10. \A e \in ToSet(c) : e.verified => e \in ToSet(s)
  BY <1>0, <1>1, <1>3, <1>7
<1>11. gone \cap Shas(c) = {}
  BY <1>7 DEF Shas
<1> QED
  BY <1>6, <1>8, <1>9, <1>10, <1>11

(* latest_verified has something to return once there is a verified entry  *)
(* and the bytes of all such are there.                                    *)
LEMMA LatestFacts ==
    ASSUME NEW s \in Seq(Entries), \E e \in ToSet(s) : e.verified,
           NEW D, \A e \in ToSet(s) : e.verified => e.sha \in D
    PROVE  Verified(s) # <<>> /\ Last(Verified(s)).sha \in D
<1> DEFINE V == Verified(s)
<1>0. \A e \in ToSet(s) : e.verified \in BOOLEAN
  BY EntryTypes
<1>1. /\ V \in Seq(Entries)
      /\ \A m \in 1..Len(V) : V[m] \in ToSet(s) /\ V[m].verified = TRUE
      /\ (\E e \in ToSet(s) : e.verified = TRUE) => Len(V) >= 1
  <2>1. {k \in DOMAIN s : s[k].verified} = {k \in DOMAIN s : s[k].verified = TRUE}
    <3>1. \A k \in DOMAIN s : s[k] \in ToSet(s)
      BY DEF ToSet
    <3> QED
      BY <1>0, <3>1
  <2>2. V = At(s, {k \in DOMAIN s : s[k].verified = TRUE})
    BY <2>1, Zenon DEF Verified
  <2> HIDE DEF V
  <2> QED
    BY <2>2, KindFacts
<1> HIDE DEF V
<1>2. Len(V) >= 1 /\ Len(V) \in Nat
  BY <1>0, <1>1
<1>3. Len(V) \in 1..Len(V) /\ V # <<>>
  BY <1>2
<1> QED
  BY <1>1, <1>3 DEF Last, V
-----------------------------------------------------------------------------
(* What a process does to an index at each label.                          *)
Placing(r, c) ==
    /\ r.pc \in {"record", "save", "mark", "marked"} => r.at \in Installers
    /\ r.pc \in {"save", "marked"} => InOrder(c)
    /\ r.pc = "record" => r.plan[r.at].place \in {"same", "drifted"}
    /\ r.pc \in {"mark", "marked"} => r.plan[r.at].place = "passed"

(* The bytes of what the process has recorded are there as long as its     *)
(* entry is; the index it is about to save keeps the verified entries, and *)
(* their bytes are there.                                                  *)
Recorded(r, i) ==
    /\ r.plan[i].place \in {"drifted", "passed"}
    /\ ~(r.at = i /\ r.pc \in {"record", "save"})
    /\ r.plan[i].new \in Shas(index[i])
    => r.plan[i].new \in stored[i]
Backed(entries, i) == \A e \in ToSet(entries) : e.verified => e.sha \in stored[i]
Keeping(r, c) ==
    /\ \A i \in Installers : Recorded(r, i)
    /\ r.pc = "save" =>
         /\ \A e \in ToSet(index[r.at]) : e.verified => e \in ToSet(c)
         /\ Backed(c, r.at)
         /\ r.plan[r.at].new \in Shas(c) => r.plan[r.at].new \in stored[r.at]
    /\ r.pc = "marked" =>
         /\ \E e \in ToSet(c) : e.verified
         /\ Backed(c, r.at)
         /\ r.plan[r.at].new \in stored[r.at]

LedgerType ==
    /\ index \in [Installers -> Seq(Entries)] /\ \A i \in Installers : InOrder(index[i])
    /\ stored \in [Installers -> SUBSET Scripts]
    /\ copy \in [Users -> Seq(Entries)]
Alone == \A u, v \in Users : Active(refresh[u]) /\ Active(refresh[v]) => u = v
Baseline ==
    /\ \A i \in Installers : Backed(index[i], i)
    /\ marked \subseteq Installers /\ \A i \in marked : \E e \in ToSet(index[i]) : e.verified

LedgerInv ==
    /\ LedgerType
    /\ \A u \in Users : Placing(refresh[u], copy[u])
    /\ ~disturbed =>
         /\ Alone /\ Baseline
         /\ \A u \in Users : Active(refresh[u]) => Keeping(refresh[u], copy[u])

-----------------------------------------------------------------------------
(* A step of one process, in terms of its new record and copy.             *)
LEMMA UserKeepsLedger ==
    ASSUME RefreshInv, LedgerInv, NEW u \in Users, Active(refresh[u]),
           NEW q, Now(u, q), LedgerType',
           NEW c, copy'[u] = c, \A v \in Users : v # u => copy'[v] = copy[v],
           Placing(q, c), disturbed' = disturbed,
           ~disturbed => Baseline' /\ (Active(q) => Keeping(q, c)')
    PROVE  LedgerInv'
<1>1. refresh \in [Users -> Recs]
  BY DEF RefreshInv, RefreshType
<1>2. refresh'[u] = q /\ \A v \in Users : v # u => refresh'[v] = refresh[v]
  BY <1>1 DEF Now
<1>3. ASSUME NEW v \in Users PROVE Placing(refresh[v], copy[v])'
  <2>1. Placing(refresh'[v], copy'[v])
    <3>1. CASE v = u
      BY <1>2, <3>1
    <3>2. CASE v # u
      BY <1>2, <3>2 DEF LedgerInv
    <3> QED
      BY <3>1, <3>2
  <2> QED
    BY <2>1 DEF Placing
<1>4. ASSUME ~disturbed PROVE Alone'
  BY <1>2, <1>4 DEF LedgerInv, Alone, Active
<1>5. ASSUME ~disturbed, NEW v \in Users, Active(refresh'[v])
      PROVE  Keeping(refresh[v], copy[v])'
  <2>1. v = u
    BY <1>2, <1>5 DEF LedgerInv, Alone, Active
  <2> QED
    BY <1>2, <1>5, <2>1 DEF Keeping, Recorded, Backed
<1> QED
  BY <1>3, <1>4, <1>5 DEF LedgerInv, Active

(* The same, where the ledger is left alone.                               *)
LEMMA QuietKeepsLedger ==
    ASSUME RefreshInv, LedgerInv, NEW u \in Users, Active(refresh[u]),
           NEW q, Now(u, q), UNCHANGED <<ledgerVars, marked, disturbed>>,
           q.pc \notin {"save", "marked"}, Placing(q, copy[u]),
           \A i \in Installers : q.plan[i].place \in {"drifted", "passed"}
             /\ ~(q.at = i /\ q.pc \in {"record", "save"}) =>
                /\ refresh[u].plan[i].place \in {"drifted", "passed"}
                /\ ~(refresh[u].at = i /\ refresh[u].pc \in {"record", "save"})
                /\ q.plan[i].new = refresh[u].plan[i].new
    PROVE  LedgerInv'
<1>1. PICK c : c = copy[u]
  OBVIOUS
<1>2. /\ index' = index /\ stored' = stored /\ copy' = copy /\ marked' = marked
      /\ disturbed' = disturbed
  BY DEF ledgerVars
<1>3. LedgerType'
  BY <1>2 DEF LedgerInv, LedgerType
<1>4. ASSUME ~disturbed PROVE Baseline' /\ Keeping(q, c)'
  <2>1. Baseline'
    BY <1>2, <1>4 DEF LedgerInv, Baseline, Backed
  <2>2. \A i \in Installers : Recorded(q, i)
    <3>1. \A i \in Installers : Recorded(refresh[u], i)
      BY <1>4 DEF LedgerInv, Keeping
    <3> QED
      BY <3>1 DEF Recorded
  <2> QED
    BY <1>2, <2>1, <2>2 DEF Keeping, Recorded
<1> QED
  BY <1>1, <1>2, <1>3, <1>4, UserKeepsLedger

(* A refresh that is over, or killed: only its copy may go.                *)
LEMMA EndKeepsLedger ==
    ASSUME RefreshInv, LedgerInv, NEW u \in Users,
           EndsWithoutBranch(u) \/ Report(u) \/ RefreshFails(u) \/ Kill(u)
    PROVE  LedgerInv'
<1>1. /\ Active(refresh[u]) /\ Now(u, Idle) /\ index' = index /\ stored' = stored
      /\ marked' = marked /\ disturbed' = disturbed
      /\ copy' = copy \/ copy' = [copy EXCEPT ![u] = <<>>]
  BY DEF EndsWithoutBranch, Report, RefreshFails, Kill, Done, DropCopy, Ready, Planned, pc,
         Active, ledgerVars, ghostVars
<1>2. LedgerType' /\ \A v \in Users : v # u => copy'[v] = copy[v]
  <2>1. copy \in [Users -> Seq(Entries)] /\ <<>> \in Seq(Entries)
    BY DEF LedgerInv, LedgerType
  <2> QED
    BY <1>1, <2>1 DEF LedgerInv, LedgerType
<1>3. PICK q, c : q = Idle /\ c = copy'[u]
  OBVIOUS
<1>4. q.pc = "idle"
  BY <1>3 DEF Idle
<1>5. Placing(q, c) /\ ~Active(q)
  BY <1>4 DEF Placing, Active
<1>6. ~disturbed => Baseline'
  BY <1>1 DEF LedgerInv, Baseline, Backed
<1> QED
  BY <1>1, <1>2, <1>3, <1>5, <1>6, UserKeepsLedger

LEMMA FetchKeepsLedger ==
    ASSUME RefreshInv, LedgerInv, NEW u \in Users, Fetch(u)
    PROVE  LedgerInv'
<1>1. PICK r : r = refresh[u]
  OBVIOUS
<1>2. PICK i \in Installers : i = Min(Placed(u, "todo")) /\ r.plan[i].place = "todo"
  <2>1. Min(Placed(u, "todo")) \in Placed(u, "todo")
    BY MinIsMember DEF Fetch, Placed
  <2> QED
    BY <1>1, <2>1 DEF Placed
<1>3. /\ r.pc = "walk" /\ r \in Recs /\ UNCHANGED <<ledgerVars, marked, disturbed>>
  BY <1>1 DEF Fetch, pc, RefreshInv, RefreshType, ghostVars
<1>4. PICK place : place = IF served[i] = r.original[i] THEN "same" ELSE "drifted"
  OBVIOUS
<1>5. PICK new : new = served[i]
  OBVIOUS
<1>6. PICK s : s = WithPlace(r, i, "skipped")
  OBVIOUS
<1>7. PICK f : f = WithFetched(r, i, place, new)
  OBVIOUS
<1>8. Now(u, s) \/ Now(u, f)
  BY <1>1, <1>2, <1>4, <1>5, <1>6, <1>7, Zenon DEF Fetch, WithPlace, WithFetched
<1>9. CASE Now(u, s)
  <2>1. /\ s.pc = "walk" /\ s.plan[i].place = "skipped"
        /\ \A j \in Installers : j # i => s.plan[j] = r.plan[j]
    <3>1. "skipped" \in Places
      BY DEF Places
    <3> QED
      BY <1>3, <1>6, <3>1, PlaceSet
  <2>2. Placing(s, copy[u])
    BY <2>1 DEF Placing
  <2> QED
    BY <1>1, <1>3, <1>9, <2>1, <2>2, QuietKeepsLedger DEF Active
<1>10. CASE Now(u, f)
  <2>1. place \in Places /\ new \in Values
    BY <1>4, <1>5 DEF Places, RefreshInv, RefreshType, AnyPins, Values
  <2>2. /\ f.pc = "record" /\ f.at = i /\ f.plan[i] = [place |-> place, new |-> new]
        /\ \A j \in Installers : j # i => f.plan[j] = r.plan[j]
    BY <1>3, <1>7, <2>1, FetchedSet
  <2>3. Placing(f, copy[u])
    BY <1>4, <2>2 DEF Placing
  <2> QED
    BY <1>1, <1>3, <1>10, <2>2, <2>3, QuietKeepsLedger DEF Active
<1> QED
  BY <1>8, <1>9, <1>10

LEMMA VerifyKeepsLedger ==
    ASSUME RefreshInv, LedgerInv, NEW u \in Users, VerifyEntry(u)
    PROVE  LedgerInv'
<1>1. PICK r : r = refresh[u]
  OBVIOUS
<1>2. PICK i \in Installers : i = Min(ToVerify(u)) /\ r.plan[i].place = "drifted"
  <2>1. Min(ToVerify(u)) \in Placed(u, "drifted")
    BY MinIsMember DEF VerifyEntry, ToVerify, Placed
  <2> QED
    BY <1>1, <2>1 DEF Placed
<1>3. r.pc = "walk" /\ r \in Recs /\ UNCHANGED <<ledgerVars, marked, disturbed>>
  BY <1>1 DEF VerifyEntry, Planned, pc, RefreshInv, RefreshType
<1>4. PICK f : f = WithPlace(r, i, "failed")
  OBVIOUS
<1>5. PICK q : q = WithPassed(r, i)
  OBVIOUS
<1>6. Now(u, f) \/ Now(u, q)
  BY <1>1, <1>2, <1>4, <1>5, Zenon DEF VerifyEntry, WithPlace, WithPassed
<1>7. CASE Now(u, f)
  <2>1. /\ f.pc = "walk" /\ f.plan[i].place = "failed"
        /\ \A j \in Installers : j # i => f.plan[j] = r.plan[j]
    <3>1. "failed" \in Places
      BY DEF Places
    <3> QED
      BY <1>3, <1>4, <3>1, PlaceSet
  <2>2. Placing(f, copy[u])
    BY <2>1 DEF Placing
  <2> QED
    BY <1>1, <1>3, <1>7, <2>1, <2>2, QuietKeepsLedger DEF Active
<1>8. CASE Now(u, q)
  <2>1. /\ q.pc = "mark" /\ q.at = i
        /\ q.plan[i].place = "passed" /\ q.plan[i].new = r.plan[i].new
        /\ \A j \in Installers : j # i => q.plan[j] = r.plan[j]
    BY <1>3, <1>5, PassedSet
  <2>2. Placing(q, copy[u])
    BY <2>1 DEF Placing
  <2> QED
    BY <1>1, <1>2, <1>3, <1>8, <2>1, <2>2, QuietKeepsLedger DEF Active
<1> QED
  BY <1>6, <1>7, <1>8

LEMMA ProposeKeepsLedger ==
    ASSUME RefreshInv, LedgerInv, NEW u \in Users, AddWorktree(u) \/ Commit(u) \/ Push(u)
    PROVE  LedgerInv'
<1>1. PICK r, f : r = refresh[u] /\ f = pins
  OBVIOUS
<1>2. /\ r.pc \in {"walk", "commit", "push"} /\ r \in Recs /\ f \in Files
      /\ UNCHANGED <<ledgerVars, marked, disturbed>>
  BY <1>1, FilesOfPins DEF AddWorktree, Commit, Push, Ready, Planned, pc, RefreshInv,
                           RefreshType, ghostVars
<1>3. PICK q, l, p : q = WithBase(r, f) /\ l \in {"push", "report"} /\ p = [r EXCEPT !.pc = l]
                     /\ (Now(u, q) \/ Now(u, p))
  <2>1. CASE AddWorktree(u)
    BY <1>1, <2>1, Zenon DEF AddWorktree, WithBase
  <2>2. CASE Commit(u) \/ Push(u)
    <3>1. \E l \in {"push", "report"} : Goto(u, l)
      BY <2>2 DEF Commit, Push
    <3> QED
      BY <1>1, <3>1, Zenon DEF Goto
  <2> QED
    BY <2>1, <2>2
<1>5. q.pc = "commit" /\ q.plan = r.plan /\ p.pc = l /\ p.plan = r.plan
  <2>1. l \in RefreshPc
    BY <1>3 DEF RefreshPc
  <2> QED
    BY <1>2, <1>3, <2>1, BaseSet, PcSet DEF Same
<1>6. /\ Placing(q, copy[u]) /\ Placing(p, copy[u])
      /\ p.pc \notin {"record", "save", "marked"}
  BY <1>3, <1>5 DEF Placing
<1>7. Active(refresh[u])
  BY <1>1, <1>2 DEF Active
<1>8. CASE Now(u, q)
  BY <1>1, <1>2, <1>5, <1>6, <1>7, <1>8, QuietKeepsLedger
<1>9. CASE Now(u, p)
  BY <1>1, <1>2, <1>5, <1>6, <1>7, <1>9, QuietKeepsLedger
<1> QED
  BY <1>3, <1>8, <1>9

LEMMA BeginKeepsLedger ==
    ASSUME RefreshInv, LedgerInv, NEW u \in Users, NEW only \in SUBSET Installers,
           NEW m \in Modes, NEW v \in BOOLEAN, Begin(u, only, m, v)
    PROVE  LedgerInv'
<1>1. PICK f, n : f = file /\ n = started + 1
  OBVIOUS
<1>2. PICK q : q = Begun(only, n, m, v, f)
  OBVIOUS
<1>3. f \in Files /\ n \in Nat /\ refresh \in [Users -> Recs]
  BY <1>1, FilesOfPins DEF RefreshInv, RefreshType
<1>4. q.pc = "walk" /\ \A i \in Installers : q.plan[i].place \in {"todo", "out"}
  BY <1>2, <1>3, BegunSet
<1>5. Now(u, q)
  BY <1>1, <1>2, Zenon DEF Begin, Begun
<1>6. refresh'[u] = q /\ \A w \in Users : w # u => refresh'[w] = refresh[w]
  BY <1>3, <1>5 DEF Now
<1>7. /\ index' = index /\ stored' = stored /\ copy' = copy /\ marked' = marked
      /\ disturbed' = (disturbed \/ \E w \in Users \ {u} : pc(w) # "idle")
  BY DEF Begin, ledgerVars
<1>8. LedgerType'
  BY <1>7 DEF LedgerInv, LedgerType
<1>9. ASSUME NEW w \in Users PROVE Placing(refresh[w], copy[w])'
  <2>1. Placing(refresh'[w], copy'[w])
    <3>1. CASE w = u
      BY <1>4, <1>6, <3>1 DEF Placing
    <3>2. CASE w # u
      BY <1>6, <1>7, <3>2 DEF LedgerInv
    <3> QED
      BY <3>1, <3>2
  <2> QED
    BY <2>1 DEF Placing
<1>10. ASSUME ~disturbed'
       PROVE  /\ Alone' /\ Baseline'
              /\ \A w \in Users : Active(refresh'[w]) => Keeping(refresh[w], copy[w])'
  <2>1. ~disturbed /\ \A w \in Users : w # u => ~Active(refresh'[w])
    BY <1>6, <1>7, <1>10 DEF pc, Active
  <2>2. Alone'
    BY <2>1 DEF Alone, Active
  <2>3. Baseline'
    BY <1>7, <2>1 DEF LedgerInv, Baseline, Backed
  <2>4. Keeping(refresh[u], copy[u])'
    BY <1>4, <1>6 DEF Keeping, Recorded
  <2> QED
    BY <2>1, <2>2, <2>3, <2>4
<1> QED
  BY <1>8, <1>9, <1>10 DEF LedgerInv, Active

(* A record or mark_verified that fails: the refresh goes on without it.   *)
LEMMA FailureKeepsLedger ==
    ASSUME RefreshInv, LedgerInv, NEW u \in Users, LedgerFails(u)
    PROVE  LedgerInv'
<1>1. /\ index' = index /\ stored' = stored /\ copy' = [copy EXCEPT ![u] = <<>>]
      /\ disturbed' /\ Back(u) /\ refresh \in [Users -> Recs]
  BY DEF LedgerFails, DropCopy, RefreshInv, RefreshType
<1>2. PICK q : q = [refresh[u] EXCEPT !.pc = "walk", !.at = 0]
  OBVIOUS
<1>3. refresh'[u] = q /\ q.pc = "walk" /\ \A w \in Users : w # u => refresh'[w] = refresh[w]
  <2>1. q.pc = "walk" /\ q \in Recs
    BY <1>1, <1>2, WalkSet
  <2>2. Now(u, q)
    BY <1>1, <1>2, Zenon DEF Back
  <2> QED
    BY <1>1, <2>1, <2>2 DEF Now
<1>4. copy \in [Users -> Seq(Entries)] /\ <<>> \in Seq(Entries)
  BY DEF LedgerInv, LedgerType
<1>5. LedgerType'
  BY <1>1, <1>4 DEF LedgerInv, LedgerType
<1>6. ASSUME NEW w \in Users PROVE Placing(refresh[w], copy[w])'
  <2>1. Placing(refresh'[w], copy'[w])
    <3>1. CASE w = u
      BY <1>3, <3>1 DEF Placing
    <3>2. CASE w # u
      BY <1>1, <1>3, <1>4, <3>2 DEF LedgerInv
    <3> QED
      BY <3>1, <3>2
  <2> QED
    BY <2>1 DEF Placing
<1> QED
  BY <1>1, <1>5, <1>6 DEF LedgerInv

LEMMA MembershipIsBoolean ==
    ASSUME NEW e, NEW S
    PROVE  (e \in S) \in BOOLEAN
OBVIOUS

(* record, up to the save.                                                 *)
LEMMA RecordLoadKeepsLedger ==
    ASSUME RefreshInv, LedgerInv, NEW u \in Users, Record(u), pc(u) = "record"
    PROVE  LedgerInv'
<1>1. PICK r, i, x, s : r = refresh[u] /\ i = r.at /\ x = r.plan[i].new /\ s = index[i]
  OBVIOUS
<1>2. /\ r \in Recs /\ r.pc = "record" /\ i \in Installers /\ InOrder(s) /\ x \in Scripts
      /\ Active(refresh[u])
  BY <1>1 DEF pc, RefreshInv, RefreshType, UsersSound, LedgerInv, LedgerType, Placing, Sound,
              Active
<1>3. PICK v \in BOOLEAN : v = ([sha |-> x, verified |-> TRUE] \in ToSet(s))
  <2>1. ([sha |-> x, verified |-> TRUE] \in ToSet(s)) \in BOOLEAN
    BY MembershipIsBoolean, Zenon
  <2> QED
    BY <2>1, Zenon
<1>4. PICK t, gone, c : t = Touched(s, x, v) /\ gone = Shas(Overflow(t)) /\ c = Without(t, gone)
  OBVIOUS
<1>5. /\ stored' = [stored EXCEPT ![i] = (@ \cup {x}) \ gone]
      /\ copy' = [copy EXCEPT ![u] = c] /\ index' = index
      /\ Goto(u, "save") /\ marked' = marked /\ disturbed' = disturbed
  <2>1. RecordLoad(u, i, x) /\ Goto(u, "save") /\ UNCHANGED ghostVars
    BY <1>1 DEF Record
  <2> QED
    BY <1>1, <1>3, <1>4, <2>1, Zenon DEF RecordLoad, ghostVars
<1>6. /\ InOrder(c) /\ gone \cap Shas(c) = {}
      /\ \A e \in ToSet(s) : e.verified => e \in ToSet(c) /\ e.sha \notin gone
      /\ \A e \in ToSet(c) : e.verified => e \in ToSet(s)
  <2>1. v <=> [sha |-> x, verified |-> TRUE] \in ToSet(s)
    BY <1>3, Zenon
  <2> QED
    BY <1>2, <1>4, <2>1, RecordFacts
<1>7. PICK q : q = [r EXCEPT !.pc = "save"]
  OBVIOUS
<1>8. Now(u, q) /\ q.pc = "save" /\ q.at = i /\ q.plan = r.plan
  <2>1. "save" \in RefreshPc
    BY DEF RefreshPc
  <2>2. q.pc = "save" /\ q.at = r.at /\ Same(q, r)
    BY <1>2, <1>7, <2>1, PcSet
  <2> QED
    BY <1>1, <1>5, <1>7, <2>2, Zenon DEF Goto, Same
<1>9. /\ c \in Seq(Entries) /\ index \in [Installers -> Seq(Entries)]
      /\ copy \in [Users -> Seq(Entries)] /\ stored \in [Installers -> SUBSET Scripts]
  BY <1>6 DEF InOrder, LedgerInv, LedgerType
<1>10. LedgerType'
  BY <1>2, <1>5, <1>9 DEF LedgerInv, LedgerType
<1>11. copy'[u] = c /\ \A w \in Users : w # u => copy'[w] = copy[w]
  BY <1>5, <1>9
<1>12. Placing(q, c)
  BY <1>2, <1>6, <1>8 DEF Placing
<1>13. /\ stored'[i] = (stored[i] \cup {x}) \ gone
       /\ \A j \in Installers : j # i => stored'[j] = stored[j]
  BY <1>2, <1>5, <1>9
<1>14. ASSUME ~disturbed PROVE Baseline' /\ Keeping(q, c)'
  <2>0. Baseline /\ Keeping(r, copy[u])
    BY <1>1, <1>2, <1>14 DEF LedgerInv
  <2>1. \A e \in ToSet(s) : e.verified => e.sha \in stored'[i]
    BY <1>1, <1>2, <1>6, <1>13, <2>0 DEF Baseline, Backed
  <2>2. Baseline'
    BY <1>1, <1>5, <1>13, <2>0, <2>1 DEF Baseline, Backed
  <2>3. \A e \in ToSet(c) : e.verified => e.sha \in stored'[i]
    BY <1>6, <2>1
  <2>4. x \in Shas(c) => x \in stored'[i]
    BY <1>6, <1>13
  <2>5. \A j \in Installers : Recorded(q, j)'
    BY <1>1, <1>2, <1>5, <1>8, <1>13, <2>0 DEF Recorded, Keeping
  <2> QED
    BY <1>1, <1>2, <1>5, <1>6, <1>8, <2>2, <2>3, <2>4, <2>5 DEF Keeping, Backed
<1> QED
  BY <1>2, <1>5, <1>8, <1>10, <1>11, <1>12, <1>14, UserKeepsLedger

(* mark_verified, up to the save.                                          *)
LEMMA MarkLoadKeepsLedger ==
    ASSUME RefreshInv, LedgerInv, NEW u \in Users, Mark(u), pc(u) = "mark",
           Markable(refresh[u].at, refresh[u].plan[refresh[u].at].new)
    PROVE  LedgerInv'
<1>1. PICK r, i, x, s : r = refresh[u] /\ i = r.at /\ x = r.plan[i].new /\ s = index[i]
  OBVIOUS
<1>2. /\ r \in Recs /\ r.pc = "mark" /\ i \in Installers /\ InOrder(s) /\ x \in Scripts
      /\ r.plan[i].place = "passed" /\ x \in Shas(s) /\ Active(refresh[u])
  BY <1>1 DEF pc, RefreshInv, RefreshType, UsersSound, LedgerInv, LedgerType, Placing, Sound,
              Active, Markable
<1>3. PICK c : c = Touched(s, x, TRUE)
  OBVIOUS
<1>4. /\ copy' = [copy EXCEPT ![u] = c] /\ index' = index /\ stored' = stored
      /\ Goto(u, "marked") /\ marked' = marked /\ disturbed' = disturbed
  <2>1. MarkLoad(u, i, x) /\ Goto(u, "marked") /\ UNCHANGED <<marked, disturbed>>
    BY <1>1, <1>2 DEF Mark
  <2> QED
    BY <1>1, <1>3, <2>1, Zenon DEF MarkLoad
<1>5. /\ c \in Seq(Entries) /\ Distinct(c) /\ Len(c) <= Len(s)
      /\ ToSet(c) = {e \in ToSet(s) : e.sha # x} \cup {[sha |-> x, verified |-> TRUE]}
  BY <1>2, <1>3, TouchedFacts DEF InOrder
<1>6. InOrder(c)
  BY <1>2, <1>5, LedgerAssumption DEF InOrder
<1>7. PICK q : q = [r EXCEPT !.pc = "marked"]
  OBVIOUS
<1>8. Now(u, q) /\ q.pc = "marked" /\ q.at = i /\ q.plan = r.plan
  <2>1. "marked" \in RefreshPc
    BY DEF RefreshPc
  <2>2. q.pc = "marked" /\ q.at = r.at /\ Same(q, r)
    BY <1>2, <1>7, <2>1, PcSet
  <2> QED
    BY <1>1, <1>4, <1>7, <2>2, Zenon DEF Goto, Same
<1>9. copy \in [Users -> Seq(Entries)]
  BY DEF LedgerInv, LedgerType
<1>10. LedgerType'
  BY <1>4, <1>5, <1>9 DEF LedgerInv, LedgerType
<1>11. copy'[u] = c /\ \A w \in Users : w # u => copy'[w] = copy[w]
  BY <1>4, <1>9
<1>12. Placing(q, c)
  BY <1>2, <1>6, <1>8 DEF Placing
<1>13. ASSUME ~disturbed PROVE Baseline' /\ Keeping(q, c)'
  <2>0. Baseline /\ Keeping(r, copy[u])
    BY <1>1, <1>2, <1>13 DEF LedgerInv
  <2>1. Baseline'
    BY <1>4, <2>0 DEF Baseline, Backed
  <2>2. x \in stored[i]
    BY <1>1, <1>2, <2>0 DEF Keeping, Recorded
  <2>3. Backed(c, i)
    <3> SUFFICES ASSUME NEW e \in ToSet(c), e.verified PROVE e.sha \in stored[i]
      BY DEF Backed
    <3>1. e.sha = x \/ e \in ToSet(s)
      BY <1>5
    <3>2. e \in ToSet(s) => e.sha \in stored[i]
      BY <1>1, <1>2, <2>0 DEF Baseline, Backed
    <3> QED
      BY <2>2, <3>1, <3>2
  <2>4. \E e \in ToSet(c) : e.verified
    <3>1. PICK e : e = [sha |-> x, verified |-> TRUE]
      OBVIOUS
    <3>2. e \in ToSet(c) /\ e.verified
      BY <1>5, <3>1
    <3> QED
      BY <3>2
  <2>5. \A j \in Installers : Recorded(q, j)
    BY <1>2, <1>8, <2>0 DEF Recorded, Keeping
  <2> QED
    BY <1>1, <1>4, <1>8, <2>1, <2>2, <2>3, <2>4, <2>5 DEF Keeping, Backed, Recorded
<1> QED
  BY <1>2, <1>4, <1>8, <1>10, <1>11, <1>12, <1>13, UserKeepsLedger

(* save_index, at the end of both: nobody else has come between.           *)
LEMMA SaveKeepsLedger ==
    ASSUME RefreshInv, LedgerInv, NEW u \in Users, SaveIndex(u, refresh[u].at), Back(u),
           pc(u) \in {"save", "marked"}, disturbed' = disturbed,
           marked' = marked \cup IF pc(u) = "marked" THEN {refresh[u].at} ELSE {}
    PROVE  LedgerInv'
<1>1. PICK r, i, c : r = refresh[u] /\ i = r.at /\ c = copy[u]
  OBVIOUS
<1>2. /\ r \in Recs /\ r.pc \in {"save", "marked"} /\ i \in Installers /\ InOrder(c)
      /\ Active(refresh[u]) /\ Placing(r, c)
  BY <1>1 DEF pc, RefreshInv, RefreshType, LedgerInv, Placing, Active
<1>3. PICK q : q = [r EXCEPT !.pc = "walk", !.at = 0]
  OBVIOUS
<1>4. Now(u, q) /\ q.pc = "walk" /\ q.plan = r.plan
  <2>1. q.pc = "walk" /\ Same(q, r)
    BY <1>2, <1>3, WalkSet
  <2> QED
    BY <1>1, <1>3, <2>1, Zenon DEF Back, Same
<1>5. /\ c \in Seq(Entries) /\ <<>> \in Seq(Entries) /\ index \in [Installers -> Seq(Entries)]
      /\ copy \in [Users -> Seq(Entries)] /\ stored \in [Installers -> SUBSET Scripts]
  BY <1>2 DEF InOrder, LedgerInv, LedgerType
<1>6. index' = [index EXCEPT ![i] = c] /\ copy' = [copy EXCEPT ![u] = <<>>] /\ stored' = stored
  BY <1>1 DEF SaveIndex
<1>7. /\ index'[i] = c /\ \A j \in Installers : j # i => index'[j] = index[j]
      /\ copy'[u] = <<>> /\ \A w \in Users : w # u => copy'[w] = copy[w]
  BY <1>2, <1>5, <1>6
<1>8. LedgerType'
  <2>1. \A j \in Installers : InOrder(index'[j])
    BY <1>2, <1>7 DEF LedgerInv, LedgerType
  <2>2. index' \in [Installers -> Seq(Entries)] /\ copy' \in [Users -> Seq(Entries)]
    BY <1>5, <1>6
  <2> QED
    BY <1>5, <1>6, <2>1, <2>2 DEF LedgerType, InOrder, Distinct
<1>9. Placing(q, <<>>)
  BY <1>4 DEF Placing
<1>10. ASSUME ~disturbed PROVE Baseline' /\ Keeping(q, <<>>)'
  <2>0. Baseline /\ Keeping(r, c)
    BY <1>1, <1>2, <1>10 DEF LedgerInv
  <2>1. Backed(c, i)
    BY <1>1, <1>2, <2>0 DEF Keeping
  <2>2. \A j \in Installers : \A e \in ToSet(index'[j]) : e.verified => e.sha \in stored[j]
    BY <1>7, <2>0, <2>1 DEF Baseline, Backed
  <2>3. ASSUME NEW j \in marked' PROVE j \in Installers /\ \E e \in ToSet(index'[j]) : e.verified
    <3>1. j \in Installers /\ (j \in marked \/ (r.pc = "marked" /\ j = i))
      BY <1>1, <1>2, <2>0, <2>3 DEF Baseline, pc
    <3>2. CASE j # i
      BY <1>7, <2>0, <3>1, <3>2 DEF Baseline
    <3>3. CASE j = i /\ r.pc = "marked"
      <4>1. PICK e \in ToSet(c) : e.verified
        BY <2>0, <3>3 DEF Keeping
      <4> QED
        BY <1>2, <1>7, <3>3, <4>1
    <3>4. CASE j = i /\ r.pc = "save" /\ j \in marked
      <4>1. PICK e \in ToSet(index[i]) : e.verified
        BY <2>0, <3>4 DEF Baseline
      <4>2. e \in ToSet(c)
        BY <1>1, <2>0, <3>4, <4>1 DEF Keeping
      <4> QED
        BY <1>2, <1>7, <3>4, <4>1, <4>2
    <3> QED
      BY <1>2, <3>1, <3>2, <3>3, <3>4
  <2>4. Baseline'
    BY <1>6, <2>2, <2>3 DEF Baseline, Backed
  <2>5. ASSUME NEW j \in Installers PROVE Recorded(q, j)'
    <3>1. CASE j # i
      BY <1>1, <1>4, <1>6, <1>7, <2>0, <3>1 DEF Recorded, Keeping
    <3>2. CASE j = i
      <4>1. r.plan[i].new \in Shas(c) => r.plan[i].new \in stored[i]
        BY <1>1, <1>2, <2>0 DEF Keeping
      <4> QED
        BY <1>4, <1>6, <1>7, <3>2, <4>1 DEF Recorded
    <3> QED
      BY <3>1, <3>2
  <2> QED
    BY <1>4, <2>4, <2>5 DEF Keeping
<1> QED
  BY <1>2, <1>4, <1>7, <1>8, <1>9, <1>10, UserKeepsLedger

LEMMA RecordKeepsLedger ==
    ASSUME RefreshInv, LedgerInv, NEW u \in Users, Record(u)
    PROVE  LedgerInv'
<1>1. CASE pc(u) = "record"
  BY <1>1, RecordLoadKeepsLedger
<1>2. CASE pc(u) # "record"
  <2>1. /\ pc(u) = "save" /\ SaveIndex(u, refresh[u].at) /\ Back(u)
        /\ disturbed' = disturbed /\ marked' = marked
    BY <1>2 DEF Record, ghostVars
  <2> QED
    BY <2>1, SaveKeepsLedger
<1> QED
  BY <1>1, <1>2

LEMMA MarkKeepsLedger ==
    ASSUME RefreshInv, LedgerInv, NEW u \in Users, Mark(u)
    PROVE  LedgerInv'
<1>1. PICK r, i, x : r = refresh[u] /\ i = r.at /\ x = r.plan[i].new
  OBVIOUS
<1>2. CASE pc(u) = "mark" /\ Markable(i, x)
  BY <1>1, <1>2, MarkLoadKeepsLedger
<1>3. CASE pc(u) = "mark" /\ ~Markable(i, x)
  <2>1. Back(u) /\ UNCHANGED <<ledgerVars, marked, disturbed>>
    BY <1>1, <1>3 DEF Mark
  <2>2. PICK q : q = [r EXCEPT !.pc = "walk", !.at = 0]
    OBVIOUS
  <2>3. r \in Recs /\ r.pc = "mark" /\ Active(refresh[u])
    BY <1>1, <1>3 DEF RefreshInv, RefreshType, pc, Active
  <2>4. q.pc = "walk" /\ Same(q, r)
    BY <2>2, <2>3, WalkSet
  <2>5. Now(u, q)
    BY <1>1, <2>1, <2>2, Zenon DEF Back
  <2>6. Placing(q, copy[u])
    BY <2>4 DEF Placing
  <2> QED
    BY <1>1, <2>1, <2>3, <2>4, <2>5, <2>6, QuietKeepsLedger DEF Same
<1>4. CASE pc(u) # "mark"
  <2>1. /\ pc(u) = "marked" /\ SaveIndex(u, refresh[u].at) /\ Back(u)
        /\ disturbed' = disturbed /\ marked' = marked \cup {refresh[u].at}
    BY <1>4 DEF Mark
  <2> QED
    BY <2>1, SaveKeepsLedger
<1> QED
  BY <1>2, <1>3, <1>4

-----------------------------------------------------------------------------
LEMMA OthersKeepLedger ==
    ASSUME LedgerInv, UNCHANGED <<ledgerVars, refresh, marked, disturbed>>
    PROVE  LedgerInv'
<1>1. /\ index' = index /\ stored' = stored /\ copy' = copy /\ refresh' = refresh
      /\ marked' = marked /\ disturbed' = disturbed
  BY DEF ledgerVars
<1>2. LedgerType' /\ (Alone <=> Alone') /\ (Baseline <=> Baseline')
  BY <1>1 DEF LedgerInv, LedgerType, Alone, Active, Baseline, Backed
<1>3. ASSUME NEW u \in Users
      PROVE  /\ Placing(refresh[u], copy[u])'
             /\ Keeping(refresh[u], copy[u]) <=> Keeping(refresh[u], copy[u])'
             /\ Active(refresh[u]) <=> Active(refresh[u])'
  BY <1>1 DEF LedgerInv, Placing, Keeping, Recorded, Backed, Active
<1> QED
  BY <1>1, <1>2, <1>3 DEF LedgerInv

LEMMA InitLedger == Init => LedgerInv
<1> SUFFICES ASSUME Init PROVE LedgerInv
  OBVIOUS
<1>1. /\ index = [i \in Installers |-> <<>>] /\ stored = [i \in Installers |-> {}]
      /\ copy = [u \in Users |-> <<>>] /\ marked = {}
      /\ \A u \in Users : refresh[u].pc = "idle"
  BY DEF Init, LedgerInit, Idle
<1>2. <<>> \in Seq(Entries) /\ InOrder(<<>>) /\ ToSet(<<>>) = {}
  BY LedgerAssumption DEF InOrder, Distinct, ToSet
<1>3. LedgerType
  BY <1>1, <1>2 DEF LedgerType
<1>4. Baseline /\ Alone /\ \A u \in Users : ~Active(refresh[u])
  BY <1>1, <1>2 DEF Baseline, Backed, Alone, Active
<1>5. \A u \in Users : Placing(refresh[u], copy[u])
  BY <1>1 DEF Placing
<1> QED
  BY <1>3, <1>4, <1>5 DEF LedgerInv

LEMMA StepKeepsLedger == RefreshInv /\ LedgerInv /\ [Next]_vars => LedgerInv'
<1> SUFFICES ASSUME RefreshInv, LedgerInv, [Next]_vars PROVE LedgerInv'
  OBVIOUS
<1>1. CASE UNCHANGED vars
  <2>1. UNCHANGED <<ledgerVars, refresh, marked, disturbed>>
    BY <1>1 DEF vars, ghostVars
  <2> QED
    BY <2>1, OthersKeepLedger
<1>2. CASE \E u \in Users, only \in SUBSET Installers \ {{}}, m \in Modes, v \in BOOLEAN :
             Begin(u, only, m, v)
  BY <1>2, BeginKeepsLedger
<1>3. ASSUME NEW u \in Users, RefreshStep(u) \/ Kill(u) PROVE LedgerInv'
  BY <1>3, FetchKeepsLedger, RecordKeepsLedger, FailureKeepsLedger, VerifyKeepsLedger,
     MarkKeepsLedger, ProposeKeepsLedger, EndKeepsLedger DEF RefreshStep
<1>4. CASE \/ \E i \in Installers, s \in Scripts : UpstreamChanges(i, s) \/ Edit(i, s)
           \/ CommitEdits
           \/ \E b \in branches : Merge(b)
  <2>1. UNCHANGED <<ledgerVars, refresh, marked, disturbed>>
    BY <1>4 DEF UpstreamChanges, Edit, CommitEdits, Merge, ghostVars
  <2> QED
    BY <2>1, OthersKeepLedger
<1> QED
  BY <1>1, <1>2, <1>3, <1>4 DEF Next

(* record and mark_verified of the ledger, whatever is killed between the  *)
(* bytes and the index: once one script of an installer is marked, and as  *)
(* long as refreshes do not overlap and the files of the ledger can be     *)
(* written, latest_verified returns a script.                              *)
THEOREM BaselineIsKept == Spec => []BaselineSurvives
<1>1. LedgerInv => BaselineSurvives
  <2> SUFFICES ASSUME LedgerInv, ~disturbed, NEW i \in marked PROVE HasLatestVerified(i)
    BY DEF BaselineSurvives
  <2>1. PICK s, D : s = index[i] /\ D = stored[i]
    OBVIOUS
  <2>2. /\ s \in Seq(Entries) /\ \E e \in ToSet(s) : e.verified
        /\ \A e \in ToSet(s) : e.verified => e.sha \in D
    BY <2>1 DEF LedgerInv, LedgerType, Baseline, Backed
  <2>3. Verified(s) # <<>> /\ Last(Verified(s)).sha \in D
    BY <2>2, LatestFacts
  <2> QED
    BY <2>1, <2>3 DEF HasLatestVerified, get
<1>2. Init => LedgerInv
  BY InitLedger
<1>3. RefreshInv /\ LedgerInv /\ [Next]_vars => LedgerInv'
  BY StepKeepsLedger
<1> QED
  BY <1>1, <1>2, <1>3, RefreshInvariant, PTL DEF Spec

-----------------------------------------------------------------------------
(* The rest of the type.                                                   *)
Bounded ==
    /\ changes \in 0..MaxChanges /\ edits \in 0..MaxEdits
    /\ started \in 0..MaxRefreshes /\ names \in 0..MaxNames
    /\ outcome \in [Installers -> Kinds]
    /\ tested \subseteq Installers \X Scripts /\ marked \subseteq Installers

LEMMA OutcomeKinds ==
    ASSUME RefreshInv, Bounded, NEW u \in Users,
           EndsWithoutBranch(u) \/ Report(u) \/ RefreshFails(u)
    PROVE  outcome' \in [Installers -> Kinds]
<1>1. CASE u # Check
  BY <1>1 DEF EndsWithoutBranch, Report, RefreshFails, Done, Bounded
<1>2. CASE u = Check /\ RefreshFails(u)
  BY <1>2 DEF RefreshFails, Kinds
<1>3. CASE u = Check /\ ~RefreshFails(u)
  <2>1. PICK p \in BOOLEAN : outcome' = [i \in Installers |-> OutcomeOf(Check, p, i)]
    <3>1. (refresh[u].mode = "apply") \in BOOLEAN
      OBVIOUS
    <3> QED
      BY <1>3, <3>1, Zenon DEF EndsWithoutBranch, Report, Done
  <2>2. ASSUME NEW i \in Installers PROVE OutcomeOf(Check, p, i) \in Kinds
    <3>1. refresh[Check].plan[i].place \in {"out", "passed", "failed", "skipped", "same"}
      BY <1>3, CompletePlaces DEF EndsWithoutBranch, Report
    <3>2. OutcomeOf(Check, p, i) \in
            {"none", "applied", "proposed", "verified", "failed", "skipped"}
      <4>1. CASE refresh[Check].plan[i].place = "out"
        <5>1. OutcomeOf(Check, p, i) = "none"
          BY <4>1, Zenon DEF OutcomeOf
        <5> QED
          BY <5>1
      <4>2. CASE refresh[Check].plan[i].place = "passed"
        <5>1. OutcomeOf(Check, p, i) =
                IF p THEN "applied" ELSE IF Proposes(Check) THEN "proposed" ELSE "verified"
          BY <4>2, Zenon DEF OutcomeOf
        <5> QED
          BY <5>1
      <4>3. CASE refresh[Check].plan[i].place \in {"failed", "skipped"}
        <5>1. OutcomeOf(Check, p, i) = "failed"
          BY <4>3, Zenon DEF OutcomeOf
        <5> QED
          BY <5>1
      <4>4. CASE refresh[Check].plan[i].place = "same"
        <5>1. OutcomeOf(Check, p, i) = "skipped"
          BY <4>4, Zenon DEF OutcomeOf
        <5> QED
          BY <5>1
      <4> QED
        BY <3>1, <4>1, <4>2, <4>3, <4>4
    <3> QED
      BY <3>2 DEF Kinds
  <2> QED
    BY <2>1, <2>2
<1> QED
  BY <1>1, <1>2, <1>3

LEMMA StepKeepsBounds == RefreshInv /\ LedgerInv /\ Bounded /\ [Next]_vars => Bounded'
<1> SUFFICES ASSUME RefreshInv, LedgerInv, Bounded, [Next]_vars PROVE Bounded'
  OBVIOUS
<1>0. /\ MaxChanges \in Nat /\ MaxEdits \in Nat /\ MaxRefreshes \in Nat
      /\ MaxNames \in Nat /\ served \in AnyPins
  BY RefreshAssumption DEF RefreshInv, RefreshType
<1>1. CASE UNCHANGED vars
  BY <1>1 DEF vars, hostVars, ghostVars, Bounded
<1>2. ASSUME NEW u \in Users, NEW only \in SUBSET Installers, NEW m \in Modes,
             NEW v \in BOOLEAN, Begin(u, only, m, v)
      PROVE  Bounded'
  <2>1. Cardinality(only) \in Nat
    BY RefreshAssumption, FS_Subset, FS_CardinalityType
  <2>2. /\ started < MaxRefreshes /\ started' = started + 1
        /\ names + Cardinality(only) <= MaxNames /\ names' = names + Cardinality(only)
        /\ changes' = changes /\ edits' = edits /\ tested' = tested /\ marked' = marked
    BY <1>2 DEF Begin, hostVars
  <2>3. started' \in 0..MaxRefreshes /\ names' \in 0..MaxNames
    BY <1>0, <2>1, <2>2 DEF Bounded
  <2>4. outcome' \in [Installers -> Kinds]
    BY <1>2 DEF Begin, Bounded, Kinds
  <2> QED
    BY <2>2, <2>3, <2>4 DEF Bounded
<1>3. ASSUME NEW u \in Users, VerifyEntry(u) PROVE Bounded'
  <2>1. Min(ToVerify(u)) \in Installers
    BY <1>3, MinIsMember DEF VerifyEntry, ToVerify, Placed
  <2>2. tested' \subseteq Installers \X Scripts
    BY <1>0, <1>3, <2>1 DEF VerifyEntry, Bounded, AnyPins
  <2> QED
    BY <1>3, <2>2 DEF VerifyEntry, Bounded, hostVars
<1>4. ASSUME NEW u \in Users, Mark(u) PROVE Bounded'
  <2>1. pc(u) = "marked" => refresh[u].at \in Installers
    BY DEF LedgerInv, Placing, pc
  <2> QED
    BY <1>4, <2>1 DEF Mark, Bounded, hostVars
<1>5. ASSUME NEW u \in Users, EndsWithoutBranch(u) \/ Report(u) \/ RefreshFails(u)
      PROVE  Bounded'
  <2>1. outcome' \in [Installers -> Kinds]
    BY <1>5, OutcomeKinds
  <2> QED
    BY <1>5, <2>1 DEF EndsWithoutBranch, Report, RefreshFails, Done, Bounded, hostVars,
                      ghostVars
<1>6. ASSUME NEW u \in Users, Fetch(u) \/ Record(u) \/ LedgerFails(u) \/ AddWorktree(u)
                                \/ Commit(u) \/ Push(u) \/ Kill(u)
      PROVE  Bounded'
  BY <1>6 DEF Fetch, Record, LedgerFails, AddWorktree, Commit, Push, Kill, Bounded, hostVars,
              ghostVars
<1>7. ASSUME NEW i \in Installers, NEW s \in Scripts, UpstreamChanges(i, s) PROVE Bounded'
  BY <1>0, <1>7 DEF UpstreamChanges, Bounded, ghostVars
<1>8. ASSUME (\E b \in branches : Merge(b)) \/ CommitEdits PROVE Bounded'
  BY <1>8 DEF Merge, CommitEdits, Bounded, ghostVars
<1>9. ASSUME NEW i \in Installers, NEW s \in Scripts, Edit(i, s) PROVE Bounded'
  BY <1>0, <1>9 DEF Edit, Bounded, ghostVars
<1> QED
  BY <1>1, <1>2, <1>3, <1>4, <1>5, <1>6, <1>7, <1>8, <1>9
  DEF Next, RefreshStep

(* Every index stays within KEEP_PER_INSTALLER entries, every outcome is   *)
(* one of the kinds a result may carry, and pins, served scripts, tested   *)
(* scripts and what the branches pin are real scripts throughout.          *)
THEOREM RefreshTypeCorrect == Spec => []RefreshTypeOK
<1>1. RefreshInv /\ LedgerInv /\ Bounded => RefreshTypeOK
  <2> SUFFICES ASSUME RefreshInv, LedgerInv, Bounded PROVE RefreshTypeOK
    OBVIOUS
  <2>1. LedgerTypeOK
    BY DEF LedgerInv, LedgerType, LedgerTypeOK, InOrder
  <2>2. ASSUME NEW u \in Users
        PROVE  /\ refresh[u].pc \in RefreshPc /\ refresh[u].mode \in Modes
               /\ refresh[u].at \in Installers \cup {0}
               /\ \A i \in Installers : refresh[u].plan[i].place \in Places
    <3>1. PICK r : r = refresh[u]
      OBVIOUS
    <3>2. r \in Recs
      BY <3>1 DEF RefreshInv, RefreshType
    <3> QED
      BY <3>1, <3>2 DEF Recs, Plans
  <2>3. \A b \in branches : b.pins \in AnyPins /\ b.base \in AnyPins /\ b.read \in AnyPins
    BY DEF RefreshInv, RefreshType, BranchRecs
  <2>4. served \in AnyPins /\ pins \in AnyPins /\ file \in AnyPins
    BY DEF RefreshInv, RefreshType
  <2> QED
    BY <2>1, <2>2, <2>3, <2>4 DEF RefreshTypeOK, Bounded
<1>2. Init => LedgerInv /\ Bounded
  <2>1. Init => Bounded
    BY RefreshAssumption DEF Init, Bounded, Kinds
  <2> QED
    BY <2>1, InitLedger
<1>3. RefreshInv /\ LedgerInv /\ Bounded /\ [Next]_vars => LedgerInv' /\ Bounded'
  BY StepKeepsLedger, StepKeepsBounds
<1> QED
  BY <1>1, <1>2, <1>3, RefreshInvariant, PTL DEF Spec

=============================================================================
