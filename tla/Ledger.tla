-------------------------------- MODULE Ledger --------------------------------
(***************************************************************************)
(* checksums/ledger.rs: per installer, the scripts seen so far, stored by  *)
(* their hash, and an index of them that is read, changed and replaced as  *)
(* a whole.  No lock covers it: a process works on the index it has loaded *)
(* and saves it in a later step, between which others may save theirs, and *)
(* it may die there.  What record does before its save (the write of the   *)
(* script, the load, prune_index's removals) is one step.                  *)
(*                                                                         *)
(* A script stands for its hash.  An index is the sequence of its entries  *)
(* in the order of last_seen; a time stamp is taken with the load of the   *)
(* index it goes into, so it is later than every other one there.          *)
(***************************************************************************)
EXTENDS Naturals, Sequences, SequencesExt, FiniteSets

CONSTANTS Installers,   \* names in checksums.yaml, in order: 1..n
          Scripts,      \* versions of an installer script
          Keep,         \* KEEP_PER_INSTALLER
          Users         \* processes that use the ledger

ASSUME LedgerAssumption == Keep \in Nat \ {0}

VARIABLES index,    \* of each installer
          stored,   \* scripts whose bytes are on disk
          copy      \* the index a process has in memory

ledgerVars == <<index, stored, copy>>

Entries == [sha : Scripts, verified : BOOLEAN]

LedgerTypeOK ==
    /\ \A i \in Installers : index[i] \in Seq(Entries) /\ Len(index[i]) <= Keep
    /\ stored \in [Installers -> SUBSET Scripts]
    /\ \A u \in Users : copy[u] \in Seq(Entries)

LedgerInit ==
    /\ index = [i \in Installers |-> <<>>]
    /\ stored = [i \in Installers |-> {}]
    /\ copy = [u \in Users |-> <<>>]

Shas(entries) == {e.sha : e \in ToSet(entries)}

(* The entries at the given places, in order.                              *)
At(entries, places) ==
    LET taken[n \in 0..Len(entries)] ==
            IF n = 0 THEN <<>>
            ELSE IF n \in places THEN Append(taken[n - 1], entries[n])
            ELSE taken[n - 1]
    IN  taken[Len(entries)]

Verified(entries) == At(entries, {k \in DOMAIN entries : entries[k].verified})
Unverified(entries) == At(entries, {k \in DOMAIN entries : ~entries[k].verified})
Without(entries, shas) == At(entries, {k \in DOMAIN entries : entries[k].sha \notin shas})

(* The entry of a script becomes the one seen last.                        *)
Touched(entries, s, verified) ==
    Append(Without(entries, {s}), [sha |-> s, verified |-> verified])

-----------------------------------------------------------------------------
(* Mutant: by_age is sorted by age alone.                                  *)
OverflowByAge(entries) == SubSeq(entries, 1, Len(entries) - Keep)

(* by_age.take(excess): unverified entries before verified ones, each      *)
(* oldest first.                                                           *)
Overflow(entries) ==
    SubSeq(Unverified(entries) \o Verified(entries), 1, Len(entries) - Keep)

(* record, up to the save: the bytes are written if they are not there,    *)
(* the index is read and gets or keeps its entry of the script, and        *)
(* prune_index takes the scripts that overflow off the disk.               *)
RecordLoad(u, i, s) ==
    LET entries == Touched(index[i], s, [sha |-> s, verified |-> TRUE] \in ToSet(index[i]))
        gone == Shas(Overflow(entries))
    IN  /\ stored' = [stored EXCEPT ![i] = (@ \cup {s}) \ gone]
        /\ copy' = [copy EXCEPT ![u] = Without(entries, gone)]
        /\ UNCHANGED index

(* save_index: the whole file, atomically.                                 *)
SaveIndex(u, i) ==
    /\ index' = [index EXCEPT ![i] = copy[u]]
    /\ copy' = [copy EXCEPT ![u] = <<>>]
    /\ UNCHANGED stored

(* mark_verified, up to the save: a script without an entry stays so.      *)
Markable(i, s) == s \in Shas(index[i])

MarkLoad(u, i, s) ==
    /\ copy' = [copy EXCEPT ![u] = Touched(index[i], s, TRUE)]
    /\ UNCHANGED <<index, stored>>

(* What a process had in memory goes with it.                              *)
DropCopy(u) ==
    /\ copy' = [copy EXCEPT ![u] = <<>>]
    /\ UNCHANGED <<index, stored>>

(* get: the bytes of a hash.                                               *)
get(i, s) == s \in stored[i]

(* latest_verified: the verified entry seen last, if its bytes are there.  *)
HasLatestVerified(i) ==
    /\ Verified(index[i]) # <<>>
    /\ get(i, Last(Verified(index[i])).sha)
=============================================================================
