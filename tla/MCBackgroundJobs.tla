-------------------------- MODULE MCBackgroundJobs --------------------------
(* Small instances of BackgroundJobs for TLC. *)
EXTENDS BackgroundJobs

CONSTANTS p1, j1, j2

TwoJobs == {j1, j2}
Placed == [j \in Jobs |-> p1]
=============================================================================
