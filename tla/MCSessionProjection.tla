------------------------ MODULE MCSessionProjection ------------------------
(* Small instances of SessionProjection for TLC. *)
EXTENDS SessionProjection, TLC

CONSTANTS c1, c2

OneClient == {c1}
TwoClients == {c1, c2}
NoFaults == {}
Transient == {"NotCommitted"}

Symmetry == Permutations(Clients)
=============================================================================
