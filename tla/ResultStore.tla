----------------------------- MODULE ResultStore -----------------------------
(***************************************************************************)
(* ResultPersister (reporting/jsonl.rs) and the History that reads it      *)
(* back (reporting/history.rs): one results file per run, written to a     *)
(* temporary name line by line, renamed into place, and pruned to a        *)
(* retention count.  Every file operation is a step of the one process     *)
(* that holds the run lock, and that process may be killed between them.   *)
(*                                                                         *)
(* Runs are numbered in the order they start; the header's start time and  *)
(* the time stamp in the file name both follow that order.  A file is as   *)
(* long as the lines that reached it: the header, one line per installer,  *)
(* the summary.  A line torn by a kill does not parse and is skipped by    *)
(* read_run_file, so it counts as not written.  A temporary file is never  *)
(* read: one that a kill leaves behind is not kept in the state.           *)
(***************************************************************************)
EXTENDS Integers, FiniteSets, FiniteSetsExt

CONSTANTS NumInstallers,   \* results of a run, in order
          Categories,      \* of failing results; the others count as passed
          Keep,            \* general.results_retention; 0 keeps everything
          MaxRuns          \* bound: runs of one behaviour

ASSUME StoreAssumption ==
    /\ NumInstallers \in Nat \ {0} /\ Keep \in Nat /\ MaxRuns \in Nat
    /\ "passed" \notin Categories

VARIABLES results,   \* what each run found
          tmp,       \* lines in the temporary file of the run in progress
          final,     \* lines in a run's results file
          doomed     \* files the prune under way has still to remove

storeVars == <<results, tmp, final, doomed>>

Runs == 1..MaxRuns
Installers == 1..NumInstallers
Outcomes == {"passed"} \cup Categories
NoFile == -1
WholeFile == NumInstallers + 2
NoResults == [i \in Installers |-> "passed"]

StoreTypeOK ==
    /\ results \in [Runs -> [Installers -> Outcomes]]
    /\ tmp \in NoFile..WholeFile
    /\ final \in [Runs -> NoFile..WholeFile]
    /\ doomed \in SUBSET Runs

StoreInit ==
    /\ results = [r \in Runs |-> NoResults]
    /\ tmp = NoFile
    /\ final = [r \in Runs |-> NoFile]
    /\ doomed = {}

-----------------------------------------------------------------------------
(* is_failure_status, of a result with its category.                       *)
is_failure_status(o) == o \in Categories

(* Installers of a set of results that failed, with their category.        *)
Failing(entries) ==
    {e \in entries : is_failure_status(e[2])}

(* read_run_file: what a file of a run yields with so many lines in it.    *)
read_run_file(r, lines) ==
    [header  |-> lines >= 1,
     entries |-> {<<i, results[r][i]>> : i \in {j \in Installers : j < lines}},
     summary |-> lines = WholeFile]

(* The file's run id: from the header, else from the summary.              *)
HasId(file) == file.header \/ file.summary

result_files == {r \in Runs : final[r] # NoFile}

(* History::load: every run that has a results file, as it reads now.      *)
Loaded(r) == read_run_file(r, final[r])

(* failing_set of a loaded run.                                            *)
failing_set(r) == Failing(Loaded(r).entries)

(* History::find, by run id.                                               *)
Found(r) == r \in result_files /\ HasId(Loaded(r))

(* History::latest: newest first by start time.                            *)
latest == Max(result_files)

Older(r) == {q \in result_files : q < r}

(* History::previous: the older neighbour of a run that can be found.      *)
HasPrevious(r) == Found(r) /\ Older(r) # {}
previous(r) == Max(Older(r))

-----------------------------------------------------------------------------
(* A run has its results.  What the runs without a file found is forgotten. *)
NewResults(r, found) ==
    /\ results' = [q \in Runs |-> IF q = r THEN found
                                   ELSE IF final[q] = NoFile THEN NoResults
                                   ELSE results[q]]
    /\ tmp' = NoFile
    /\ UNCHANGED <<final, doomed>>

(* File::create of the temporary file.                                     *)
CreateTmp ==
    /\ tmp = NoFile
    /\ tmp' = 0
    /\ UNCHANGED <<results, final, doomed>>

(* One more line reaches the temporary file: header, entry or summary.     *)
WriteLine ==
    /\ tmp \in 0..(WholeFile - 1)
    /\ tmp' = tmp + 1
    /\ UNCHANGED <<results, final, doomed>>

(* Mutant: the file appears under its final name before it is complete.    *)
RenameEarly(r) ==
    /\ tmp # NoFile
    /\ final' = [final EXCEPT ![r] = tmp]
    /\ tmp' = NoFile
    /\ UNCHANGED <<results, doomed>>

(* The atomic rename of the flushed file.                                  *)
Rename(r) ==
    /\ tmp = WholeFile
    /\ final' = [final EXCEPT ![r] = tmp]
    /\ tmp' = NoFile
    /\ UNCHANGED <<results, doomed>>

(* prune: list once, then every run beyond the newest Keep is to go.       *)
PlanPrune ==
    /\ doomed' = {r \in result_files :
                     Keep # 0 /\ Cardinality({q \in result_files : q > r}) >= Keep}
    /\ UNCHANGED <<results, tmp, final>>

(* remove_file, newest of the doomed first.                                *)
PruneOne ==
    /\ doomed # {}
    /\ LET r == Max(doomed) IN
         /\ final' = [final EXCEPT ![r] = NoFile]
         /\ doomed' = doomed \ {r}
    /\ UNCHANGED <<results, tmp>>

(* What persisting or pruning had under way is abandoned.                  *)
DropFiles ==
    /\ doomed' = {} /\ tmp' = NoFile
    /\ UNCHANGED <<results, final>>

-----------------------------------------------------------------------------
(* Whoever reads the results directory, at any moment, between any two     *)
(* file operations and after any kill, reads of every run it lists exactly *)
(* what that run found, header and summary included (jsonl.rs:322-328      *)
(* "Results are written atomically").                                      *)
HistoryIsTrue ==
    \A r \in result_files :
        /\ HasId(Loaded(r)) /\ Loaded(r).summary
        /\ Loaded(r).entries = {<<i, results[r][i]>> : i \in Installers}
=============================================================================
