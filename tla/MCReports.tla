------------------------------- MODULE MCReports -------------------------------
(* Small instances of Reports.                                             *)
EXTENDS Reports, TLC

MCSenders == {Check, Notify}

(* No operator tells one failure category from another.                    *)
Alike == Permutations(Categories)
=============================================================================
