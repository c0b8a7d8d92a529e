------------------------------ MODULE MCSched ------------------------------
(* Instances of Sched for TLC.  Processes other than the first are alike. *)
EXTENDS Sched, TLC

CONSTANTS c1, c2, p1, p2, p3

Interchangeable == Permutations(Procs \ ({InitProc} \cup NoPreemptUsers))
=============================================================================
