--------------------------- MODULE MCMetricsWindow ---------------------------
(* Small instances of MetricsWindow.                                       *)
EXTENDS MetricsWindow, TLC

CONSTANTS Shas   \* the hashes an installer may be pinned to

MCEntries ==
    [status : {"passed"}, category : {Missing}, sha : Shas]
    \cup [status : {"failed"}, category : {"network"}, sha : Shas]
    \cup {[status |-> "failed", category |-> "checksum", sha |-> Missing],
          [status |-> "cancelled", category |-> "cancelled", sha |-> Missing]}

MCSymmetry == Permutations(Shas)
=============================================================================
