---------------------------- MODULE HostContainers ----------------------------
(***************************************************************************)
(* The processes of one host and the containers they leave on its Docker   *)
(* daemon: the run lock (RunLock) composed with orphan reaping             *)
(* (runner/container.rs).  A check that has the lock reaps, then runs its  *)
(* installers, each in a container labelled with the check's pid.  Other   *)
(* processes take no lock: `check --allow-concurrent', the verification of *)
(* `remediate checksums', and `check --reap', which only reaps.  A process *)
(* killed leaves its containers, a removal may fail, and what a reaper has *)
(* listed is acted on later, one container at a time.                      *)
(*                                                                         *)
(* One container per process runs at a time (with a pool there are more of *)
(* the same).  The timeout of its installer, which a profile or the        *)
(* configuration may set higher than the command's timeout, from which the *)
(* reaper takes its age limit, bounds the exec of the installer alone: the *)
(* daemon's create and start before it, the end of telemetry and the       *)
(* post-install checks after it have no common bound.  The guard that      *)
(* removes a container exists only once it has been started.               *)
(***************************************************************************)
EXTENDS RunLock

CONSTANTS Others,     \* processes that take no lock
          MaxBoxes,   \* bound: containers at one time
          Timeout,    \* the command's timeout
          Limits      \* timeouts installers may have

ASSUME HostAssumption ==
    /\ Others \cap Procs = {} /\ Nobody \notin Others /\ MaxBoxes \in Nat
    /\ Timeout \in Nat /\ Limits \subseteq Nat

VARIABLES other,     \* where a process without the lock is
          phase,     \* what a process has come to
          box,       \* the containers labelled afsc.managed
          victims,   \* what a reaper has listed and not yet removed
          spared     \* what of others' unguarded ones it omitted (auxiliary)

hostVars == <<other, phase, box, victims, spared>>
allVars == <<vars, hostVars>>

Owners == Procs \cup Others
Boxes == 1..MaxBoxes
Phases == {"start", "reaping", "reaped", "skipped"}

(* Mutant: the age limit is the timeout itself.                            *)
max_age_single == Timeout

(* max_age of cmd_check and cmd_reap (its floor of a minute aside).        *)
max_age == 2 * Timeout

(* How far the attempt in a container is: created and asked to start, the  *)
(* installer's exec, what follows it, over; or left without a guard.       *)
InUse == {"created", "exec", "after"}
Stages == InUse \cup {"over", "left"}

(* ran: how much of its age a container has spent in the exec.             *)
Free == [owner |-> Nobody, age |-> 0, ran |-> 0, limit |-> 0, stage |-> "over",
         stuck |-> FALSE]
BoxStates == {Free} \cup [owner : Owners, age : 0..(max_age + 1), ran : 0..(max_age + 1),
                          limit : Limits, stage : Stages, stuck : BOOLEAN]

HostTypeOK ==
    /\ TypeOK
    /\ other \in [Others -> {"new", "working", "gone"}]
    /\ phase \in [Owners -> Phases]
    /\ box \in [Boxes -> BoxStates]
    /\ victims \in [Owners -> SUBSET Boxes]
    /\ spared \in [Owners -> SUBSET Boxes]

HostInit ==
    /\ Init
    /\ other = [o \in Others |-> "new"]
    /\ phase = [o \in Owners |-> "start"]
    /\ box = [b \in Boxes |-> Free]
    /\ victims = [o \in Owners |-> {}]
    /\ spared = [o \in Owners |-> {}]

Working(o) == IF o \in Procs THEN pc[o] = "held" ELSE other[o] = "working"
Alive(o) == pid_alive(o) \/ (o \in Others /\ other[o] = "working")
Using(o) == {b \in Boxes : box[b].owner = o /\ box[b].stage \in InUse}

-----------------------------------------------------------------------------
(* Mutant: only the age counts.                                            *)
OrphansByAge(o) ==
    {b \in Boxes : box[b] # Free /\ box[b].owner # o /\ box[b].age > max_age}

(* list_managed and orphans: what is not its own and has a dead owner or   *)
(* is too old.                                                             *)
Orphans(o) ==
    {b \in Boxes : /\ box[b] # Free /\ box[b].owner # o
                   /\ ~Alive(box[b].owner) \/ box[b].age > max_age}

ListOrphans(o) ==
    /\ Working(o) /\ phase[o] = "start"
    /\ phase' = [phase EXCEPT ![o] = "reaping"]
    /\ victims' = [victims EXCEPT ![o] = Orphans(o)]
    /\ spared' = [spared EXCEPT ![o] = {b \in Boxes : box[b].stage = "left"} \ Orphans(o)]
    /\ UNCHANGED <<vars, other, box>>

(* docker.reap_orphans is off, or the daemon does not list.                *)
SkipReaping(o) ==
    /\ Working(o) /\ phase[o] = "start"
    /\ phase' = [phase EXCEPT ![o] = "skipped"]
    /\ UNCHANGED <<vars, other, box, victims, spared>>

Removed(b) ==
    /\ box' = [box EXCEPT ![b] = Free]
    /\ victims' = [o \in Owners |-> victims[o] \ {b}]

RemovalFails(o, b) ==
    /\ box' = [box EXCEPT ![b].stuck = TRUE]
    /\ victims' = [victims EXCEPT ![o] = @ \ {b}]

(* reap_orphans: cleanup_container of one of them.                         *)
ReapOne(o, b) ==
    /\ Working(o) /\ phase[o] = "reaping" /\ b \in victims[o]
    /\ Removed(b) \/ RemovalFails(o, b)
    /\ UNCHANGED <<vars, other, phase, spared>>

EndReaping(o) ==
    /\ Working(o) /\ phase[o] = "reaping" /\ victims[o] = {}
    /\ phase' = [phase EXCEPT ![o] = "reaped"]
    /\ UNCHANGED <<vars, other, box, victims, spared>>

FreeBox == CHOOSE b \in Boxes : box[b] = Free

(* create_container up to the daemon's create, with labels_for this        *)
(* process.                                                                *)
CreateContainer(o, limit) ==
    /\ Working(o) /\ phase[o] \in {"reaped", "skipped"}
    /\ Using(o) = {} /\ \E b \in Boxes : box[b] = Free
    /\ box' = [box EXCEPT ![FreeBox] = [Free EXCEPT !.owner = o, !.limit = limit,
                                                    !.stage = "created"]]
    /\ UNCHANGED <<vars, other, phase, victims, spared>>

Stage(b, from, to) ==
    /\ box[b].stage = from
    /\ box' = [box EXCEPT ![b].stage = to]

(* start_container, then the exec under the installer's timeout.           *)
StartContainer(o, b) ==
    /\ Working(o) /\ box[b].owner = o /\ Stage(b, "created", "exec")
    /\ UNCHANGED <<vars, other, phase, victims, spared>>

(* The daemon creates the container and its answer is lost, or does not    *)
(* start it: the error leaves create_container before there is a guard.    *)
StartFails(o, b) ==
    /\ Working(o) /\ box[b].owner = o /\ Stage(b, "created", "left")
    /\ UNCHANGED <<vars, other, phase, victims, spared>>

(* The exec ends or times out; telemetry and post_install follow.          *)
EndExec(o, b) ==
    /\ Working(o) /\ box[b].owner = o /\ Stage(b, "exec", "after")
    /\ UNCHANGED <<vars, other, phase, victims, spared>>

(* The attempt is over.                                                    *)
EndAttempt(o, b) ==
    /\ Working(o) /\ box[b].owner = o /\ Stage(b, "after", "over")
    /\ UNCHANGED <<vars, other, phase, victims, spared>>

(* ContainerGuard::cleanup, at the end of the attempt.                     *)
CleanUp(o, b) ==
    /\ Working(o) /\ box[b].owner = o /\ box[b].stage = "over" /\ ~box[b].stuck
    /\ Removed(b) \/ RemovalFails(o, b)
    /\ UNCHANGED <<vars, other, phase, spared>>

(* Whose age still matters: an owner that is dead makes it an orphan as it *)
(* is, and past max_age no age differs from another.                       *)
Ages(b) == Alive(box[b].owner) /\ box[b].age <= max_age

Aged(b) == [box[b] EXCEPT !.age = @ + 1,
                          !.ran = IF box[b].stage = "exec" THEN @ + 1 ELSE @]

(* Time passes for every container, and the timeout ends an exec.          *)
Tick ==
    /\ \A b \in Boxes : box[b].stage = "exec" /\ Alive(box[b].owner) =>
                         box[b].ran < box[b].limit
    /\ \E b \in Boxes : Ages(b)
    /\ box' = [b \in Boxes |-> IF Ages(b) THEN Aged(b) ELSE box[b]]
    /\ UNCHANGED <<vars, other, phase, victims, spared>>

(* A command ends when its guards have removed their containers or failed  *)
(* to, and only then drops its lock; what has no guard stays.              *)
Idle(o) ==
    \A b \in Boxes : box[b].owner = o => \/ box[b].stage = "left"
                                         \/ box[b].stage = "over" /\ box[b].stuck

(* What a command has in memory ends with it.                              *)
Gone(o) ==
    /\ phase' = [phase EXCEPT ![o] = "start"]
    /\ victims' = [victims EXCEPT ![o] = {}]
    /\ spared' = [spared EXCEPT ![o] = {}]

ReleaseLock(p) ==
    /\ phase[p] # "reaping" /\ Idle(p)
    /\ Release(p) /\ Gone(p)
    /\ UNCHANGED <<other, box>>

StartOther(o) ==
    /\ other[o] = "new"
    /\ other' = [other EXCEPT ![o] = "working"]
    /\ UNCHANGED <<vars, phase, box, victims, spared>>

(* The end of a process without the lock, regular or not.                  *)
EndOther(o) ==
    /\ other[o] = "working"
    /\ other' = [other EXCEPT ![o] = "gone"]
    /\ Gone(o)
    /\ UNCHANGED <<vars, box>>

KillProc(p) ==
    /\ Kill(p) /\ Gone(p)
    /\ UNCHANGED <<other, box>>

LockStep(p) ==
    /\ \/ Alone(p) /\ Start(p)
       \/ Open(p) \/ OpenFails(p) \/ WritePid(p) \/ Read(p) \/ Judge(p)
       \/ Remove(p) \/ Exit(p)
    /\ UNCHANGED hostVars

HostStep(o) ==
    \/ ListOrphans(o) \/ SkipReaping(o) \/ EndReaping(o)
    \/ \E b \in Boxes : \/ ReapOne(o, b) \/ CleanUp(o, b)
                        \/ StartContainer(o, b) \/ StartFails(o, b)
                        \/ EndExec(o, b) \/ EndAttempt(o, b)
    \/ \E limit \in Limits : CreateContainer(o, limit)

AllGone ==
    /\ \A p \in Procs : pc[p] = "exited"
    /\ \A o \in Others : other[o] = "gone"
    /\ UNCHANGED allVars

HostNext ==
    \/ \E p \in Procs : LockStep(p) \/ ReleaseLock(p) \/ KillProc(p)
    \/ \E o \in Others : StartOther(o) \/ EndOther(o)
    \/ \E o \in Owners : HostStep(o)
    \/ Tick
    \/ AllGone

HostSpec == HostInit /\ [][HostNext]_allVars

-----------------------------------------------------------------------------
(* A check under the lock that has reaped shares the daemon with no        *)
(* container of another check that took the lock, whatever was killed      *)
(* before, but for one whose removal has failed and one its owner could    *)
(* not start and was still alive over when the reaper listed               *)
(* (container.rs:385-412, 693-696 and 879-889, main.rs:1651-1673).         *)
NothingLeftBehind ==
    \A p \in Procs, b \in Boxes :
        /\ pc[p] = "held" /\ phase[p] = "reaped"
        /\ box[b].owner \in Procs \ {p}
        => box[b].stuck \/ (box[b].stage = "left" /\ b \in spared[p])

(* Nobody takes away the container of a live process before its attempt is *)
(* over (container.rs:383-384 "live ones are omitted"), provided that its  *)
(* installer's timeout and the time the container has spent outside the    *)
(* exec that timeout covers, starting and in checks, do not add up to more *)
(* than twice the command's timeout.                                       *)
LiveContainerKept ==
    [][\A b \in Boxes :
         /\ box[b].stage \in InUse /\ Alive(box[b].owner)
         /\ box[b].limit + (box[b].age - box[b].ran) <= 2 * Timeout
         => box'[b] # Free]_allVars
=============================================================================
