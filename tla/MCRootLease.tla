---------------------------- MODULE MCRootLease ----------------------------
(* A small instance of RootLease for TLC. *)
EXTENDS RootLease, TLC

CONSTANTS p1, p2, p3

ThreeProcs == {p1, p2, p3}
Symmetry == Permutations(ThreeProcs)
=============================================================================
