----------------------------- MODULE DurableLog -----------------------------
(***************************************************************************)
(* What a session journal promises, without threads, locks or retries: a   *)
(* log that only grows, fed in order by a queue of whole atomic groups.    *)
(* An entry is the group it belongs to; its position is its seq.           *)
(* SessionJournal is shown to implement this specification.                *)
(***************************************************************************)
EXTENDS Integers, Sequences

CONSTANTS
    Group,          \* what producers append
    Synthetic,      \* what recovery appends by itself
    MaxSize         \* bound: entries of one group

VARIABLES
    log,            \* durable entries, oldest first
    queue,          \* submitted entries not yet durable, oldest first
    acked           \* groups reported durable to their producer

vars == <<log, queue, acked>>

Init ==
    /\ log = <<>> /\ queue = <<>>
    /\ acked = {}

In(g, entries) == \E i \in DOMAIN entries : entries[i] = g

(* k entries of the queue end at the boundary of a group. *)
Boundary(k) ==
    k = 0 \/ k = Len(queue) \/ queue[k] # queue[k + 1]

(* A producer appends one atomic group, for the first time. *)
Submit(g) ==
    /\ g \in Synthetic \/ (~In(g, log) /\ ~In(g, queue))
    /\ \E n \in 1 .. MaxSize : queue' = queue \o [i \in 1 .. n |-> g]
    /\ UNCHANGED <<log, acked>>

(* The oldest groups become durable, each of them whole. *)
Commit ==
    /\ \E k \in 1 .. Len(queue) :
          /\ Boundary(k)
          /\ log' = log \o SubSeq(queue, 1, k)
          /\ queue' = SubSeq(queue, k + 1, Len(queue))
    /\ UNCHANGED acked

(* The youngest group is taken back, whole. *)
Withdraw ==
    /\ \E k \in 0 .. Len(queue) - 1 :
          /\ Boundary(k)
          /\ \A i \in k + 1 .. Len(queue) : queue[i] = queue[Len(queue)]
          /\ queue' = SubSeq(queue, 1, k)
    /\ UNCHANGED <<log, acked>>

(* A crash, an indeterminate append, a retirement that could not write or  *)
(* the repair after one of them, which may close the turn by a synthetic   *)
(* entry: some of the oldest entries are durable, some of the next ones    *)
(* may still be salvaged, the others are gone.                             *)
Tear ==
    /\ \E closers \in {<<>>} \cup {<<g>> : g \in Synthetic} :
          LET entries == queue \o closers IN
          \E k \in 0 .. Len(entries) : \E j \in 0 .. k :
             /\ log' = log \o SubSeq(entries, 1, j)
             /\ queue' = SubSeq(entries, j + 1, k)
    /\ UNCHANGED acked

(* Groups are acknowledged only when nothing of them is queued any more    *)
(* and they are durable.                                                   *)
Ack ==
    /\ \E S \in SUBSET Group :
          /\ \A g \in S : In(g, log) /\ ~In(g, queue)
          /\ acked' = acked \cup S
    /\ UNCHANGED <<log, queue>>

Next ==
    \/ \E g \in Group \cup Synthetic : Submit(g)
    \/ Commit \/ Withdraw \/ Tear \/ Ack

Spec == Init /\ [][Next]_vars
=============================================================================
