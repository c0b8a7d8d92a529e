---------------------------- MODULE MCProcesses ----------------------------
(***************************************************************************)
(* Processes for TLC: their slots, and the pipes that they inherit.  The   *)
(* two share no state: a behaviour is one of the part that it starts with. *)
(***************************************************************************)
EXTENDS MCLifecycle, Pipes

CONSTANTS p1, p2, p3

VARIABLE part

procVars == <<part, allVars, pipesVars>>

ProcInit == part \in {"slots", "pipes"} /\ LifeInit /\ PipeInit

\* Pipes whose bounds are used up may stop.
MayStop == part = "pipes" /\ UNCHANGED procVars

ProcNext ==
    \/ part = "slots" /\ LifeNext /\ UNCHANGED <<part, pipesVars>>
    \/ part = "pipes" /\ PipeNext /\ UNCHANGED <<part, allVars>>
    \/ MayStop

ProcSpec == ProcInit /\ [][ProcNext]_procVars
=============================================================================
