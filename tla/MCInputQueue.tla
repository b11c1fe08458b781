--------------------------- MODULE MCInputQueue ---------------------------
(* Small instances of InputQueue for TLC. *)
EXTENDS InputQueue

CONSTANTS i1, i2

TwoInputs == {i1, i2}
=============================================================================
