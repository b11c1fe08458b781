---------------------------- MODULE MCScheduler ----------------------------
(* Small instances of Scheduler for TLC. *)
EXTENDS Scheduler

CONSTANTS r1, r2

OneRule == {r1}
TwoRules == {r1, r2}
None == {}

Periodic(first, period, runs) ==
    [kind |-> "every", at |-> first, every |-> period,
     runs |-> runs, tokens |-> 2 * runs, runTokens |-> 2]
Once(at, runs) ==
    [kind |-> "at", at |-> at, every |-> 1,
     runs |-> runs, tokens |-> 2 * runs, runTokens |-> 2]
OnJob ==
    [kind |-> "job", at |-> 0, every |-> 1,
     runs |-> 1, tokens |-> 2, runTokens |-> 2]

Capped == [kind |-> "every", at |-> 0, every |-> 1,
           runs |-> 3, tokens |-> 3, runTokens |-> 2]

(* One rule, with the specifications it is created with or edited to. *)
CappedOrJob == {<<r1, Capped>>, <<r1, OnJob>>}

(* Two rules. *)
Rivals == {<<r1, Periodic(0, 2, 2)>>, <<r2, Once(1, 2)>>}

(* Revisions: created, and confirmed, edited, paused or resumed. *)
FourTimes == [r \in Rules |-> 4]
PauseFirst == [r \in Rules |-> IF r = r1 THEN 3 ELSE 2]

OneRequest == {-1}
Free == {0}
Little == {1}
=============================================================================
