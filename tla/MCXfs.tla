------------------------------- MODULE MCXfs -------------------------------
(* Instances of Xfs for TLC. *)
EXTENDS Xfs

CONSTANTS p1, p2

Symmetry == Permutations({p1, p2})

\* Two files in the root, a directory and a file in it.
MCPaths == {<<"a">>, <<"b">>, <<"d">>, <<"d", "b">>}
=============================================================================
