----------------------------- MODULE JobLedger -----------------------------
(***************************************************************************)
(* What the background jobs promise to a reader of the session journals:   *)
(* a command runs at most once and only after its registration is durable; *)
(* a registration gets at most one verdict; and a verdict that claims an   *)
(* outcome is the outcome.  "interrupted" and "restarted" claim nothing.    *)
(***************************************************************************)
EXTENDS Sequences

CONSTANT Jobs

VARIABLES
    ledger,     \* the durable records of each job, oldest first
    run         \* what became of its command

(* The fate of a command; "lost" is an end nobody observed.                *)
Fates == {"none", "running", "zero", "nonzero", "killed", "lost"}

(* The verdicts a command with this fate may be given.                     *)
Truthful(fate) ==
    {"interrupted", "restarted"} \cup
    CASE fate = "zero"    -> {"completed"}
      [] fate = "nonzero" -> {"failed"}
      [] fate = "killed"  -> {"killed"}
      [] fate = "none"    -> {"not_started"}
      [] OTHER            -> {}

Init == /\ ledger = [j \in Jobs |-> <<>>]
        /\ run = [j \in Jobs |-> "none"]

Register(j) ==
    /\ ledger[j] = <<>> /\ run[j] = "none"
    /\ ledger' = [ledger EXCEPT ![j] = <<"registered">>]
    /\ UNCHANGED run

(* The command starts; it may end before anybody has seen it running.      *)
Launch(j) ==
    /\ ledger[j] = <<"registered">> /\ run[j] = "none"
    /\ run' = [run EXCEPT ![j] = "running"] \/ run' = [run EXCEPT ![j] = "lost"]
    /\ UNCHANGED ledger

(* Any number of commands end: a crash ends them all.                      *)
Ends ==
    \A j \in Jobs : run'[j] # run[j] =>
       run[j] = "running" /\ run'[j] \in Fates \ {"none", "running"}
End == Ends /\ UNCHANGED ledger

(* A command may be stopped in the step that saves a verdict.              *)
Settle(j) ==
    /\ ledger[j] = <<"registered">>
    /\ \E v \in Truthful(run[j]) : ledger' = [ledger EXCEPT ![j] = Append(@, v)]
    /\ Ends

Next == End \/ \E j \in Jobs : Register(j) \/ Launch(j) \/ Settle(j)

Spec == Init /\ [][Next]_<<ledger, run>>
=============================================================================
