--------------------------- MODULE MCInstallerPool ---------------------------
(* Small instances of InstallerPool: what each installer is, by name.      *)
EXTENDS InstallerPool

CONSTANTS i1, i2, i3

MCRetryCounts == [i \in Installers |-> IF i = i1 THEN 2 ELSE 0]
=============================================================================
