------------------------------ MODULE MCMemory ------------------------------
(* Instances of Memory for TLC. *)
EXTENDS Memory, TLC

CONSTANTS s1, s2, s3, v1, v2

\* Only the address spaces other than the first are alike.
ChildNames == Permutations(Spaces \ {InitSpace})
=============================================================================
