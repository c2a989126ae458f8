------------------------------ MODULE MCRunLock ------------------------------
(* Small instances of RunLock.                                             *)
EXTENDS RunLock, TLC

MCSymmetry == Permutations(Procs)
=============================================================================
