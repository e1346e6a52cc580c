------------------------------ MODULE MCAutoRepair ------------------------------
(***************************************************************************)
(* Small instances of AutoRepair for TLC.  Tasks are alike, except to the  *)
(* run that checks liveness.                                               *)
(***************************************************************************)
EXTENDS AutoRepair, TLC

CONSTANTS t1, t2, i1

Alike == Permutations(Tasks)
================================================================================
