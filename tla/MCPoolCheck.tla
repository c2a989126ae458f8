----------------------------- MODULE MCPoolCheck -----------------------------
(* Small instances of PoolCheck.                                           *)
EXTENDS PoolCheck

CONSTANTS i1, i2

MCRetryCounts == [i \in Installers |-> IF i = i1 THEN 2 ELSE 0]
=============================================================================
