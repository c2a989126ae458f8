-------------------------- MODULE MCSequentialCheck --------------------------
(* Small instances of SequentialCheck.                                     *)
EXTENDS SequentialCheck

CONSTANTS i1, i2, i3

MCRetryCounts == [i \in Installers |-> IF i = i1 THEN 2 ELSE 0]

MCOrder == <<i1, i2, i3>>
=============================================================================
