---------------------------- MODULE MCLifecycle ----------------------------
(* Instances of Lifecycle for TLC.  Address spaces are alike. *)
EXTENDS Lifecycle, TLC

CONSTANTS s1, s2, s3, s4

SpaceNames == Permutations(Spaces)
ThreeSlots == 1..3
TwoSlots == 1..2
NoSharing == {<<FALSE, FALSE>>}
ForkOnly == {}
Threads == {<<TRUE, TRUE>>}
=============================================================================
