-------------------------- MODULE MCSessionJournal --------------------------
(* Small instances of SessionJournal for TLC. *)
EXTENDS SessionJournal, TLC

CONSTANTS c1, c2

OneClient == {c1}
TwoClients == {c1, c2}
None == {}
Transient == {"NotCommitted"}
AllFaults == {"NotCommitted", "Unknown"}

(* Clients are interchangeable when all of them, or none, may close. *)
Symmetry == Permutations(Clients)
=============================================================================
