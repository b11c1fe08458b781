--------------------------- MODULE MCTurnRecorder ---------------------------
(* Small instances of TurnRecorder for TLC. *)
EXTENDS TurnRecorder

CONSTANTS a, b, Read, Bash

TwoIds == {a, b}
TwoTools == {Read, Bash}

Call(id, tool) == [id |-> id, tool |-> tool]

(* A run with two calls at once and the answer to their results, and a     *)
(* short one after it.                                                     *)
CallsThenShort ==
    << <<{<<Call(a, Bash), Call(b, Read)>>}, {<<>>}>>,
       <<{<<>>}>> >>

(* One call of the same tool in each of two steps. *)
SameTool == << <<{<<Call(a, Bash)>>}, {<<Call(b, Bash)>>}, {<<>>}>> >>
=============================================================================
