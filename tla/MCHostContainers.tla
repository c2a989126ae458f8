--------------------------- MODULE MCHostContainers ---------------------------
(* Small instances of HostContainers.                                      *)
EXTENDS HostContainers, TLC

MCSymmetry == Permutations(Procs)
=============================================================================
