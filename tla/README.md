# Verification of the installer checker

TLA+ models of `automated_flywheel_setup_checker` (Rust): how `check` runs many
installer scripts in containers or locally, retries them, stops them on a
signal, at a deadline or on the first failure; how the results are stored,
assessed, announced and remediated; and how several processes share one host.
TLC checks the models on small instances, TLAPS proves the central invariants
for every instance. Paths below are relative to the repository (`src/main.rs`
is `src/src/main.rs` in `PROJECT.json`).

## Inventory

| part | state | operations | hard behaviour |
|---|---|---|---|
| run control (`main.rs:418-457`, `1733-1755`) | run token, signal seen, deadline flag | signal handler task, deadline task | both act between any two steps of the workers and of `cmd_check` |
| executor (`runner/executor.rs`) | attempt index, result being built, attempt records | download, verify, exec, post-install checks, cleanup, retry loop | cancellation and timeout racing the exec; early returns; stale classification |
| containers (`runner/container.rs`) | containers held by the daemon, labels | create, start, exec, stop, remove, reap orphans | one of several daemon calls failing; a reaper acting on an old list |
| pool (`runner/parallel.rs`) | permits, child token | run_all | permits on every path; two token checks; fail-fast |
| classifier (`parser/classifier.rs`) | none | classify_error, explain | first match wins; decides what is retried |
| check command (`main.rs:1560-2048`) | results, what it read of the flags | collect, remediate, summarise, persist, notify, exit | flags read one after the other while their writers run |
| run lock (`lock.rs`) | the pid file | try_acquire, Drop | kills between system calls; reclaiming a stale file |
| result store (`reporting/jsonl.rs`) | run files | persist, prune, read | crash between temp file and rename |
| notifications (`main.rs:3076-3315`, `reporting/notify.rs`) | rolling issue, digest queue | policy, send, rotate | lost replies; comparison with runs that were pruned or not announced; queue rotation |
| history (`reporting/history.rs`) | past runs | broken and flaky verdicts, diff | sequences of passes, failures and script changes under retention |
| metrics, server (`reporting/metrics.rs`, `server.rs`) | snapshot file | write, serve | a counter carried from snapshot to snapshot |
| Claude remediation (`remediation/claude.rs`) | breaker, rate window, cost | advise, edit | budget and breaker checked once for several tries |
| edit sessions (`remediation/propose.rs`) | worktree, branch | edit, gates, commit, push, PR | failure in the middle |
| checksums (`checksums/*`, `remediation/checksums.rs`) | `checksums.yaml`, script ledger | plan, verify, propose; record, mark, prune | the host, the checkout and the ledger changing under a refresh |
| watchdog (`watchdog.rs`) | timer | ping | none: it pings whatever the run does |
| configuration, doctor, formats, logging | none that lives on | - | - |

What makes them correct: the pool never runs more than its limit and always
returns; only transient failures are retried, within the budget; whatever
stops a run, no container and no permit is left behind and every installer has
a verdict that says why; the exit code, the summary, the persisted run and the
rolling issue tell the same story; two runs never share a data directory, and a
dead run neither blocks the next nor leaves it its containers; only changes
that passed every gate reach a branch, at a bounded cost.

## Modules

| module | models | composes |
|---|---|---|
| `RunControl` | the tokens, the signal handler and the deadline task | |
| `Classifier` | the rule order of `classify_error` | |
| `Executor` | `run_test_with_retry` per installer, both backends, with the container calls it makes | `RunControl`, `Classifier` |
| `InstallerPool` | `ParallelRunner::run_all` | `Executor` |
| `RunContract` | what a run promises about its installers, abstractly | |
| `CheckRun` | the rest of `cmd_check`, once results are there | `Executor` |
| `PoolCheck` | `check` with `parallel > 1` | `InstallerPool`, `CheckRun` |
| `SequentialCheck` | `check` with `parallel = 1` | `CheckRun` |
| `RunLock` | `RunLock::try_acquire`, `Drop`, kills | |
| `HostContainers` | orphan reaping and container cleanup of all processes on a host | `RunLock` |
| `ResultStore` | `ResultPersister` and reading its files back | |
| `Notifier` | `Notifier::send`, request by request, and the repository's issues | |
| `Reports` | the epilogue of `cmd_check` next to the `notify` command | `ResultStore`, `Notifier` |
| `History` | `assess` and `diff_runs` as functions of the stored runs | |
| `MetricsWindow` | the data directory over many runs: retention and the metrics snapshot | `History` |
| `ClaudeClient` | breaker, rate limiter, interpretation of an exit, cost accounting | |
| `Remediation` | `remediate_results`: advice and gated edit sessions | `ClaudeClient` |
| `Ledger` | the script ledger, index file by index file | |
| `ChecksumRefresh` | `refresh_checksums`, by a check and by `remediate checksums` | `Ledger` |
| `Executor_proofs` | lemmas about `Executor` and the end of `cmd_check` | `CheckRun` |
| `InstallerPool_proofs` | theorems about the pool and `check` with `parallel > 1` | `PoolCheck`, `Executor_proofs` |
| `SequentialCheck_proofs` | theorems about `check` with `parallel = 1` | `SequentialCheck`, `Executor_proofs` |
| `HostContainers_proofs` | theorems about the run lock and the host | `HostContainers` |
| `Remediation_proofs`, `ChecksumRefresh_proofs`, `Reports_proofs` | theorems about these modules and what they extend | |
| `Assessment_proofs` | theorems about the verdict on a failure (classifier) and on a history (broken and flaky, diff, metrics), which share no state | `Classifier`, `MetricsWindow` |
| `MC*` | small instances for TLC | |

**State of the run machinery.** `pc[i]` is where the worker of installer `i` is
between two awaits; `result[i]` is its `TestResult`: status, error category and
retryable flag, checksum state, and `text`, the captured output. A text is the
set of the classifier's pattern groups it contains (plus `"interrupted"`, the
executor's wording for an exec it abandoned, which no pattern matches).
`attempts[i]` holds the `AttemptRecord`s and `containers` what the Docker
daemon holds. Exit codes of installers, durations, captures and telemetry
decide nothing the properties are about and are left out; that the classifier
calls the right failures retryable is proved for every text and exit code
(`RetryableIsTransient`).

**Actions.** An action is what the code does between two points where another
task or process can act: an await, a token check, a lock, a file or network
operation. `Decide` is the tail of `run_test` and of the retry loop's body
(classify, push the record, decide); `Finish` is the end of a pool task
(fail-fast, then the permit is dropped). In `CheckRun` every read of a shared
flag is a step of its own, because the signal handler and the deadline task are
still alive then. `RunLock` has one action per system call, `ResultStore` one
per file operation, `Notifier` one per request. An operation of the ledger is
two steps, everything up to its save (`record` writes the script, loads the
index and deletes what overflows) and the save: a kill or another process comes
between the deletions and the index that no longer lists them.

**The lock** (`RunLock`). Two ignored errors are left out: of the write of the
pid (`lock.rs:35-36`; a full disk leaves a live holder's file empty, and a later
check takes it for stale), and of `remove_file` (`lock.rs:46,68`; the file stays,
and the second try or a later check meets it again).

**The host** (`HostContainers`). Locked checks, and processes that take no lock
(`--allow-concurrent`, `--reap`, the verification of a refresh), share one
daemon. A container carries its owner's pid, its age and how far its attempt is:
created, in the installer's exec, in what follows it, over. Only the exec has the
installer's timeout (`executor.rs:479`): a container spends any time being
started, in telemetry's end and in the post-install checks, and `ran` says how
much of its age was the exec. Creating and starting are two daemon calls, and
the guard that removes a container exists only after both: when the second fails
(`container.rs:693-696`), or the answer to the first is lost, the container is
"left" to whoever reaps. A reaper lists orphans once and removes them one by
one; removals may fail, processes may be killed at any step. What a reaper had
to leave at its listing because its owner was alive is remembered in the
auxiliary `spared`. Every process has a pid of its own: that a pid is reused is
left out, and so are differing timeouts of concurrent commands.

**Reports** (`ResultStore`, `Notifier`, `Reports`). A results file is the number
of lines that reached it. A check persists, prunes and announces; `notify` may
run at the same time, as it takes no lock. GitHub is the set of open rolling
issues; a reply may be lost after the request took effect, a request refused, a
listing cut off in transit (it then parses as empty). A line of the digest queue
is begun and ended in two steps: a kill in between leaves a part of a line, or
all of it but its newline, to which the next run's line is glued; a glued or
partial line does not parse and is passed over (`main.rs:3199-3203`). The
auxiliary `owed` is the failing set GitHub has yet to hear of: a run that is not
announced, or whose sending fails, leaves its failing set owed, unless
`on_change` would have been silent on it anyway.

**History and metrics** (`History`, `MetricsWindow`). One installer is followed
over all runs; time is what it decides: which runs are still in the 24 h window
and whether the snapshot is. A remediation counts alike in a results file and
in the snapshot. A run is known by its place among the files, so the vectors of
`assess` (considered outcomes, the series since the last script change, the
streak before a crossing) are sets of places, and the CUSUM loop is a function
of the place it has reached; places that are not in the series leave it alone.

**Remediation** (`ClaudeClient`, `Remediation`). Money is in half cents, because
a budget is printed with two decimals and rounds either way. An edit is the set
of areas it touches, whether its transcript holds a risky command, and whether
the installer works with it. Each git call may fail.

**Checksum refresh** (`Ledger`, `ChecksumRefresh`). A script stands for its
bytes and its hash, `checksums.yaml` for its pins. A refresh reads the file in
the checkout's working tree (`file`), which people edit, and bases its branch on
HEAD (`pins`), which they commit and merge to; edits, commits, merges and
changes of what the host serves fall between any two steps. The code reads the
file twice in a row, as text and parsed, which is one step here. Rendering the
candidate goes by lines (`checksums.rs:181-197`), and a key line with a comment
behind it is taken for no key line; the model's files have none. A push may fail
with the branch on the remote, if only its answer is lost. An index is the
sequence of its entries in the order of `last_seen`; what the code filters out
of it is the subsequence at a set of places (`At`).

**Outcomes from outside.** Downloads, installers, checks, the daemon, git,
GitHub and Claude succeed or fail by nondeterministic choice; a failing
installer prints something transient or nothing known (`Outputs`).
`DaemonFaults` says which container calls may fail in a run of the pool;
`create` and `exec` may always.

Operators marked `Mutant` are deliberately wrong variants of the definition
that follows them. No specification uses them; they show that the properties
notice such a bug.

## Runs

| run | instance | shows |
|---|---|---|
| `pool` | 3 Docker installers, 2 permits, one with 2 attempts, a pin and checks; fail-fast; SIGINT at any step | the invariants of the pool, that it implements `RunContract`, and that every installer is judged |
| `check_pool` | 2 Docker installers, both signals, deadline, failing daemon calls, remediation and notifications on | exit code, summary and persisted run agree with the results |
| `check_sequential` | 3 local installers in order, both signals, deadline, fail-fast | verdicts with a cause, refinement of `RunContract` with limit 1, termination |
| `host` | 2 locked checks, 1 process without the lock, 2 containers, attempts that outlast the age limit because of the time outside the exec, starts and removals that fail | the lock is exclusive, never wedged and keeps its holder's file; a check that has reaped meets no leftover container but those nobody could remove or nobody guards; no reaper takes a container in use that is within the limit's reckoning |
| `reports` | 3 runs, retention 2, one installer with 2 failing categories (alike but for being different, so symmetric), the three notification modes, a check and a `notify` process, 2 issues | files read back as what the runs found; one rolling issue; in every mode it tells the state of the newest run, or that run's failing set is the one that is owed |
| `remediation` | 3 failing results, limit 1.5 cents, 3 retries, 2 session attempts, breaker threshold 2, all three modes | bounded spend and load; only verified edits land; rejected ones leave nothing and cost what they cost; every failing result gets an outcome |
| `refresh` | 2 refreshes by 2 processes over 2 installers with 2 scripts each, 2 names, 1 upstream change, 1 edit | what a branch changes in the file that was read is tested; the ledger keeps a verified baseline; outcomes match the remote |
| `history` | every sequence of runs with 7 kinds of entry, retention 1 and 5, 2 script hashes | broken and flaky mean what they say and survive retention; the diff explains every change of the failing set; remediations are not lost |

Runs that end in a counterexample, each a disagreement between the code and
its documentation (`findings` in `PROJECT.json` quotes both sides):

| run | counterexample |
|---|---|
| `lock_overlap` | two processes hold the lock: the file exists before its pid is written, and an unreadable file counts as stale |
| `check_deadline` | a run stopped at its deadline exits 1 although nothing failed: a post-install check abandoned by the cancellation makes a passed installer `Failed` |
| `unverified_proposed` | `remediate checksums --no-verify` proposes a branch, although its help says nothing is proposed |
| `skipped_by_signal` | without fail-fast, a signal between a queued worker's two token checks is reported as "Skipped due to fail-fast" (the pool token is a child of the run token), although the comment above says a signal yields `Cancelled` |

Several properties name the case in which they do not hold, because the code
leaves it open: `OneIssueUndisturbed` (a listing cut off in transit, or a
`notify` overlapping a check, does lead to a second rolling issue),
`DigestTellsLatest` (the newest run is owed: it was not queued, its line is torn
or was queued during a send and rotated away, its digest was refused, or an older
run was announced since), `BranchIsTested` (pins the branch leaves as the
refresh read them, which differ from HEAD when the working tree had uncommitted
edits or HEAD moved on: they get into the branch untested), `OutcomesMatchRemote`
(a push that fails after the remote has taken the branch: every result of that
check is failed), `BaselineSurvives` (two overlapping refreshes can lose a
verified mark), `NothingLeftBehind` (a container whose removal failed, and one
without a guard whose owner was still alive when the reaper listed),
`LiveContainerKept` (an installer's timeout and the time its container spends
outside the exec add up to more than twice the command's timeout: the reaper of a
concurrent process then does take the container), `StaysBroken` (retention drops a run that counted: the first failure
of the streak, or an older failure a single one needed to cross the threshold),
`IssueTracksLatest` (a change of the failing set that GitHub did not take: the
runs that fail in just that way stay silent, until the failing set changes again;
and a retention of one run: a pruning that fails half way, or
is killed, can leave an older run than the last announced one as the neighbour
the next run is compared with, and `on_change` then stays silent; with two or
more kept runs the neighbour is never among the doomed).

Seen while modelling and not given a run:

- an installer cancelled while waiting to retry keeps its old, retryable
  classification (`executor.rs:934`);
- an executor error in the sequential loop ends the command without any result
  (`main.rs:1805` against `:1799-1801`);
- `Skipped` results carry no classification although `executor.rs:10` says every
  non-passing one does; an executor error in a later attempt drops the earlier
  `AttemptRecord`s (`parallel.rs:79-86` against `executor.rs:11`);
- `explain` evaluates other groups in another order than `classify_error`; the
  persisted summary's `exit_code` counts skipped installers as failures, the
  process does not;
- a timed-out Claude process is neither killed nor accounted, so real spend can
  pass the "per-run Claude spend cap" of `schema.rs:300` (`claude.rs:641`);
- the ledger stops taking new versions once all it keeps are verified: the new
  one is pruned at once (`ledger.rs:82` "Keeps the newest");
- retention can turn a broken verdict back while the installer keeps failing:
  with ten runs kept, F F F P F F P F P F is broken since the tenth run. After
  one more F the first run is gone, the threshold is crossed later, at the
  failure before the second pass, and that pass resets what the verdict had
  been built on: the installer is now flaky (`history.rs:123-164` over what
  `jsonl.rs:718-732` keeps);
- the remediation counter never expires while runs are less than 24 h apart,
  because it is carried over whole (`main.rs:2979`).

**Bounds.** Three installers on two permits are enough for a queue behind a
full pool, for a fail-fast that finds one installer running and one queued, and
for a permit handed on. Two attempts show every edge of the retry loop (first,
last, backoff in between); the installers without a retry keep the product
small. `check_pool` has two installers because everything it checks relates at
most one failing and one cut-short installer to the flags. In `host` one process leaves a container, one
reaps, one interferes; with a timeout of one an exec fills half of the age limit,
and the time outside it passes the other half or exceeds it; what more processes
and other timeouts add is covered by the theorems. In
`reports` three runs with retention two are the least for which a run's older
neighbour is pruned away or was never announced; one installer with two failing
categories is enough to change the failing set. `remediation` has one result
more than the breaker's threshold, and a limit that one invocation can exhaust
or leave half a cent of. In `refresh` `Keep = 1` makes every second version
overflow the ledger; one edit, committed or not, one merge and one upstream
change are each enough to make file, HEAD and host disagree, and their
combinations with more names and refreshes are covered by the theorems. In `history` retention 5 is the least at which an
installer can be called flaky (five trials), and a streak of three with a pass
and another script before it fits; retention 1 prunes runs that are still in
the metrics window. Longer histories are covered by the theorems. Counters are
capped by the guards that name them (`MaxRuns`, `MaxIssues`, `MaxRefreshes`,
`MaxNames`, `MaxChanges`, `MaxEdits`, `MaxWindow`, `MaxCount`, `MaxBoxes`); where such a cap
ends a behaviour the configuration turns the deadlock check off.

**Fairness.** Workers are tokio tasks on a multi-threaded runtime: a runnable
one is eventually polled (`WF` on each `Worker`), and so are the handler and
the deadline task once they are past their wait. Nothing is assumed about a
signal arriving or the deadline passing. The steps of a worker include the
answers of the daemon and of curl; only the exec has a timeout in the code, so
for the others termination rests on the environment answering. `cmd_check` is
one future (`WF` on its step), and so is the walk of `remediate_results`, whose
Claude, git and verification calls all have a timeout or end by themselves.
Termination is checked without deadlock: the only states without a successor of
their own are the terminated ones, which stutter explicitly.

## Proofs

Every theorem holds for all values of the constants that satisfy the
assumptions named next to them; TLC evaluates these on every instance. TLC
finds the inductive invariants below to hold on the instances of the runs.
Bounds such as `MaxRuns`, `MaxIssues` or `MaxChanges` are constants like the
others: a theorem holds whatever they are.

### The lock and the host

`HostContainers_proofs`, on the lock, for any set of processes:

- `LockTypeCorrect`: `TypeOK`, under every interleaving;
- `SerialInvariant`: the inductive invariant `SerialInv` of `SerialSpec`, and
  from it `LockIsExclusive`, `HolderIsVisible` and `LockNeverWedges`.
  `MutualExclusion` alone is not inductive: a process that is about to remove
  the file must know that no live process holds it, which rests on what it read
  (`AcquirerKnows`), on nobody else being in `try_acquire` (`OneAcquirer`) and
  on the file naming its live holder (`OwnerHoldsOrDied`,
  `HolderKeepsItsFile`). The assumption that acquisitions do not overlap is
  necessary: `lock_overlap` is what happens without it.

`HostContainers_proofs`, on the host, for any processes, containers, timeouts and limits:

- `HostImplementsLock`: every step of the host is a step of the serial lock or
  a stutter, so the theorems above hold of the host;
- `HostInvariant`: `HostInv` is inductive on top of them, and from it follow
  `ReapedHostIsClean` and `LiveContainersAreKept`. `NothingLeftBehind` alone is
  not inductive: that a reaper's list is complete (`ReapersSeeAll`) needs that
  whoever else owns a container is dead or has left only what it could not
  remove or start (`OwnersWorked`, `ReleasedLeftNothing`), which is where the
  lock's exclusion enters: an owner that is alive has dropped the lock, so what
  the list omits is stuck or among the spared. That acting on an old list is
  safe is `VictimsStayOrphans`: owners do not come back to life, containers do
  not get younger, and a removed one is off every list. `LiveContainerKept`
  needs `ExecWithinLimit` (an exec is within its installer's timeout): the age
  is then at most the timeout plus the time outside the exec, and a container
  on a list is older than twice the command's timeout. Nothing is assumed about
  how long the time outside the exec is.

### Executor and pool

`Executor_proofs` and `InstallerPool_proofs`, for any finite set of
installers, any retry counts, pins and checks, any number of permits, both
backends, with and without fail-fast, signals and a deadline. The inductive
invariant `PoolInv` (theorem `PoolInvariant`) has four parts:

- `PoolType`: the types;
- `PermitAccount`: free permits plus tasks in flight make `MaxParallel`.
  `BoundedConcurrency` is not inductive without it: nothing else says that a
  positive permit count means that there is room;
- `LocalInv(i)` for each installer: how many attempt records there are at each
  label (`RetryBudget`), what its result may look like there (`Verdict`), and
  that every attempt followed by another one was transient (`History`). The
  executor's steps keep it whatever the token does (`ExecutorKeeps`), and no
  other task touches it (`ExecutorFrame`), so the pool inherits it. The step
  that matters is `Decide`: a retry needs a retryable class, the classifier
  gives one only when none of the earlier, definitive groups is in the text
  (`ClassifyFacts`, from the order of the rules), and the wording of an
  abandoned exec, which no rule knows, only ever stands next to a definitive
  marker (the fifth conjunct of `Verdict`);
- `TokenLedger`: the run token implies the pool token; a cancelled pool token
  has a cause on record; whoever was cancelled, skipped or is stopping its
  container saw a cancelled pool token. Fail-fast only cancels on a verdict
  that is a real failure because of `Verdict` at "returned".

From it follow `PoolTypeCorrect`, `PoolIsBounded`, `RetriesAreTransient`,
`RetriesAreBounded`, `VerdictsAreClassified` and `StopsAreCaused`.
`ContainersAreRemoved` adds `ContainersOwned` (a container belongs to the
current attempt of its installer, between creation and cleanup, and exists only
with Docker) and assumes `DaemonFaults = {}`; with a start that fails, a
container stays. `PoolImplementsContract` proves that every
step of the pool is a step or a stutter of `RunContract`: starting an attempt
needs room under the limit, which `PermitAccount` gives because the starting
task holds a permit and is not yet running.

### The end of `cmd_check`

`Executor_proofs` shows once that the epilogue keeps `CheckInv`, whatever ran
before it; `InstallerPool_proofs` (theorem `PoolCheckInvariant`) and
`SequentialCheck_proofs` (`SeqInvariant`) add how the results get there. The
four properties of the exit code are not inductive: they relate flags read at
one step to a code computed several steps later, while the signal handler and
the deadline task still write. `CheckInv` says at each label what the reads so
far imply now:

- `HandlerInv`: the handler remembers one signal and never forgets it;
- `Judged`: a collected result is final;
- `ReadsInv`: what was read of the flags can be stale only in one direction (a
  deadline seen did pass, an unset one may since have passed); until the token
  is read a cancelled result is explained by the token, afterwards by
  `interrupted` or by a real failure under fail-fast;
- `SummaryInv`: the summary's code is the one a process exiting now would
  return, or a signal has arrived since;
- `SavedInv`: the persisted run is a copy of what was collected and read.

For both commands this gives `ExitZeroMeansNoFailure`, `RealFailureReported`,
`SummaryAgreesUnlessSignalled` and `CutShortIsRecorded`. `PoolCheckRunsPool`
proves that the command never disturbs the pool, so the pool's theorems hold
inside it. The sequential loop adds `QueueInv` (the iterator holds exactly the
queued installers, each once), `PlaceInv` (every other one is collected or is
the single one under way) and `CauseInv`; from them follow
`SequentialStopHasACause` and, with `PlaceInv` for the limit of one,
`SequentialImplementsContract`.

### Remediation

`Remediation_proofs`, for any number of results, limits, thresholds, retry
counts and modes. `RemediationInv` (theorem `RemediationInvariant`) ties the
totals to the place in the retry loop:

- `SpendFollows`: budget and breaker are checked once per execution, so at
  attempt `n` of an advice the total is below `CostLimit + 2 * (n - 1)`. This
  makes `SpendStaysNearLimit` inductive;
- `LoadFollows`: an open breaker is met only by attempts after the one that
  opened it, of which at most `n - 2` have run; hence `BreakerShedsLoad`.
  The count looks at the breaker an invocation starts under: an edit session
  that a half-open breaker lets through is no load on an open one;
- `CostsFollow`: what is on the outcomes, and what the current result still
  has to report (`CostsAddUp`);
- `GatesPassed`: which gates the edits have passed at each label
  (`OnlyVerifiedLands`); `RejectedLeavesNothing` is inductive with the types.

### Checksum refresh

`ChecksumRefresh_proofs`, for any users, installers, scripts and any number of
refreshes and upstream changes. `RefreshInv` (theorem `RefreshInvariant`) says
what a refresh knows while host, checkout and ledger change under it:
`UsersSound` (its drifted pins differ from the file it read, whatever HEAD is;
its passed ones were tested), `CheckVerifies` (a check's refresh always
verifies), `IdsDiffer` and `OwnBranches` (branches with its id are its own, carry
its candidate of the file it read, and are on the remote exactly once the push
has succeeded), `PushHasBranch`. From it follows `BranchIsTested`: a candidate
differs from the file that was read only in tested pins. `OutcomesMatchRemote`
is a property of steps; it needs `OwnBranches` so that no other branch with the
same id can have been pushed, and `PushHasBranch` so that "applied" has a branch
behind it.

`BaselineSurvives` is about the ledger under the refreshes. That a verified
entry with its bytes is on disk is not inductive: `record` removes files before
it saves the index, so one must know what a refresh has in memory.
`LedgerInv` has the types of the ledger (`LedgerType`: an index lists a script
once and has at most `Keep` entries) and where a refresh is in its plan
(`Placing`), and, as long as refreshes have not overlapped and the ledger could
be written:

- `Alone`: at most one refresh uses the ledger;
- `Baseline`: on disk every verified entry has its bytes (`Backed`), and every
  marked installer has a verified entry;
- `Keeping`: the same of an index that is in memory, before a save; it still
  has the verified entries of the one it replaces; and what the refresh is to
  mark later has its bytes if it is still listed (`Recorded`).

The step that matters is `prune_index` (`OverflowFacts`, `RecordFacts`): an
index overflows by one entry at most and only when a script is new to it, the
new entry is then unverified, and an unverified entry goes first; so pruning
never takes a verified one. The assumptions are that there are scripts and
finitely many installers, as in `checksums.yaml`. With `Bounded` this also gives
`RefreshTypeCorrect`.

### Reports

`Reports_proofs`, for any number of runs, installers, categories and issues and
any retention, 0 (keep everything) included. `ReportsInv` (theorem
`ReportsInvariant`):

- `WholeFiles`, `FilesInOrder`: a file is there as a whole or not at all; the
  current run's file and, if two or more are kept, its older neighbour are
  never doomed. This gives `HistoryIsTrue` and the basis of the comparison;
- `Discipline`: who may be sending; without an overlap, not both;
- `Stages`: what a sender knows of the rolling issue at each request (before
  a create none is open, before a comment or a close its issue is).
  `OneIssueUndisturbed` is not inductive without it;
- `Messages`, `Tracks`: a notification says what its run's file says, and the
  issue tells the state of the newest announced run, or that run's failing set
  is owed. `IssueTracksLatest` holds only once a send is over; while a run is in
  its epilogue the issue speaks of the run before (`Announced`), and while
  something is being sent only if that tells nothing new (`Steady`). The step
  that matters is `on_change` deciding to stay silent: the neighbour it compares
  with must be the run the issue speaks of, which is `FilesInOrder` and fails
  for a retention of one. If the neighbour's failing set is owed, so is the
  silent run's, because they are the same.

### Assessment

`Assessment_proofs`, for texts of any size, any exit code, retention and
window:

- `RetryableIsTransient`: an error is retryable exactly when its text shows a
  network error or a held apt lock and nothing definitive. It follows from the
  order of the classifier's rules: what comes before the first transient rule
  is definitive;
- `DiffsExplained`: a case analysis over two entries of an installer;
- `RemediationsAreCounted` (property `RemediationsNotLost`), from `WindowInv`:
  a fresh snapshot has counted at least the window's runs whose remediation was
  saved, and when the snapshot is not fresh no run of the window was saved. The
  second half is what lets a new snapshot start from zero. With `Room` (a run
  that may still be counted has room below the bound) and `FilesInv` it gives
  `WindowTypeCorrect`.

`BrokenIsFailing` (property `BrokenMeansFailing`) and `BrokenStays` (property
`StaysBroken`) hold for histories of any length and any retention; the state
enters only through `FilesInv` (the files are entries, no more than are kept)
and `RunFollows` (a run that ends is appended, and none or the first is
dropped). The rest is about lists of runs:

- `OneScriptInSeries`: between two different hashes there is a change of
  script, so the series has one script;
- `LoopKnows`, the invariant `Knows` of the CUSUM loop: below the threshold
  unless it was crossed; once crossed, nothing has passed since; and one, two
  or three failures at the end put the statistic at 2, 4 or 6 halves at least.
  Hence three failures in a row always cross (`CrossedFacts`), whatever came
  before, and the streak named in `broken_since` has no pass (`StreakFacts`);
- `SeriesGoesOn`: one more failure with the same script extends the series,
  and whatever of the old one is still on disk stays in it;
- `StaysBrokenTwice`: two failures in a row and the new one are three, so the
  verdict stays, whatever was dropped;
- `SeriesKept`, `LoopShifts`: if the dropped run did not count, the series is
  the same one place further down, the loop repeats itself step by step, and
  the verdict names the same run (`StaysBrokenSince`).

An earlier form of `StaysBroken` left the dropped runs out; TLC found nothing
against it with five runs kept, the proof did not go through, and the example
under "Seen while modelling" is why.

### Induction

The library's induction theorems take an operator as a parameter, which the
provers cannot instantiate. Where a proof needs induction over a list or over a
loop, it is made from `WFMin` instead: the numbers for which the statement holds
form a set, a least number outside it does not exist (`NatInductionSet` in
`ChecksumRefresh_proofs` and `Assessment_proofs`). The recursive functions
(`At`, `Cusum`) are shown to exist the same way before their equations are used
(`TakingExists`, `LoopExists`).

### Only model-checked

Every invariant and every action property of the passing runs but one has a
theorem. What is left to TLC:

- Liveness (`EveryInstallerJudged`, `SequentialRunEnds`,
  `EveryFailureSettled`): needs fairness and ENABLED, which the prover does not
  reason about.
- `DigestTellsLatest`: what is owed in `daily_digest` depends on which lines of
  the queue parse, while a check and a `notify` overlap freely; TLC checks it for
  three runs.
- The four runs that end in a counterexample; `MutualExclusion` is proved
  where acquisitions do not overlap.

## Not modelled, and plan

Left out for good: argument parsing, output formats, logging, redaction,
regular expressions and prompts (text without state); the doctor, building
specs and configuration (data); the delay arithmetic of retries (a backoff
takes any time); duration statistics; telemetry; the watchdog, a ticker that
shares no state with a run; the metrics server, which only reads.

What could follow: the metrics that are sums over the window (durations, pass
rates), and a model of differing timeouts of concurrent commands on one host.
