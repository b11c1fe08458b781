-------------------------- MODULE RootLeaseProofs --------------------------
(***************************************************************************)
(* What is proved of RootLease, for any set of processes and any depth of  *)
(* the root.  Whoever writes the root holds the lock of the root itself,   *)
(* wherever its lease began: a package command because it knew that the    *)
(* root exists when its lease was granted, an initialiser because it       *)
(* covered the root, an upgrade because a legacy root has existed all      *)
(* along.  Locks exclude each other; the rest is the order of the writes.  *)
(***************************************************************************)
EXTENDS RootLease, TLAPS

Owning == Writing \cup {"upgrade"}

Exclusive == \A p, q \in Procs : p # q => held[p] \cap held[q] = {}
OwnersHold ==
    \A p \in Procs :
        /\ pc[p] \in Owning => Depth \in held[p]
        /\ pc[p] = "check" => target[p] \in held[p]
SureSaw == \A p \in Procs : sure[p] => exists = Depth
LegacyOwned ==
    sentinel = "old" \/ database = "live" =>
        /\ exists = Depth
        /\ \A p \in Procs : pc[p] = "classify" => Depth \in held[p]
Ordered ==
    /\ published = IF sentinel = "current" THEN 1 ELSE 0
    /\ family => sentinel = "current"
    /\ sentinel = "current" => database # "live"
Prepared ==
    \A p \in Procs :
        /\ pc[p] \in {"own", "publish", "replace"} => database # "live"
        /\ pc[p] = "create" /\ role[p] # "store" => database # "live"
        /\ pc[p] \in {"rename", "replace"} => sentinel # "current"

IInv == /\ TypeOK /\ Exclusive /\ OwnersHold /\ SureSaw
        /\ LegacyOwned /\ Ordered /\ Prepared

LEMMA InitInv == Init => IInv
  BY DepthAssumption
  DEF Init, IInv, TypeOK, Exclusive, OwnersHold, SureSaw, LegacyOwned, Ordered,
      Prepared, Owning, Writing, Places, Roles, Levels, Status

(* The steps that carry the argument are <1>3 and <1>10, <1>16 (a lock is  *)
(* taken only if nobody has it), <1>5 (whoever knows that the root exists  *)
(* is granted the root's own lock), and <1>11, <1>13, <1>14 (the only      *)
(* writer of the sentinel and the database is the holder of that lock).    *)
LEMMA NextInv == IInv /\ [Next]_vars => IInv'
<1> SUFFICES ASSUME IInv, [Next]_vars PROVE IInv'
  OBVIOUS
<1> USE DepthAssumption
    DEF IInv, TypeOK, Exclusive, OwnersHold, SureSaw, LegacyOwned, Ordered,
        Prepared, Owning, Writing, Places, Levels
<1>1. ASSUME NEW p \in Procs, NEW r \in Roles, Start(p, r) PROVE IInv'
  BY <1>1 DEF Start, Goto, rootVars
<1>2. ASSUME NEW p \in Procs, Probe(p) PROVE IInv'
  BY <1>2 DEF Probe, Goto, rootVars
<1>3. ASSUME NEW p \in Procs, TryLock(p) PROVE IInv'
  BY <1>3 DEF TryLock, Lock, Free, Goto, rootVars
<1>4. ASSUME NEW p \in Procs, Deeper(p) PROVE IInv'
  BY <1>4 DEF Deeper, Goto, rootVars, leaseVars
<1>5. ASSUME NEW p \in Procs, Granted(p) PROVE IInv'
  BY <1>5 DEF Granted, Goto, rootVars, leaseVars, Roles
<1>6. ASSUME NEW p \in Procs, Classify(p) PROVE IInv'
  BY <1>6 DEF Classify, Status, Goto, rootVars, leaseVars
<1>7. ASSUME NEW p \in Procs, Initialize(p) PROVE IInv'
  BY <1>7 DEF Initialize, Status, Goto, rootVars, leaseVars
<1>8. ASSUME NEW p \in Procs, CreateDir(p) PROVE IInv'
  BY <1>8 DEF CreateDir, leaseVars
<1>9. ASSUME NEW p \in Procs, Created(p) PROVE IInv'
  BY <1>9 DEF Created, Goto, rootVars
<1>10. ASSUME NEW p \in Procs, OwnRoot(p) PROVE IInv'
  BY <1>10 DEF OwnRoot, Cover, Lock, Free, Goto, rootVars
<1>11. ASSUME NEW p \in Procs, Publish(p) PROVE IInv'
  BY <1>11 DEF Publish, Goto, leaseVars
<1>12. ASSUME NEW p \in Procs, Upgrade(p) PROVE IInv'
  BY <1>12 DEF Upgrade, Status, Goto, rootVars, leaseVars
<1>13. ASSUME NEW p \in Procs, RenameDatabase(p) PROVE IInv'
  BY <1>13 DEF RenameDatabase, Goto, leaseVars
<1>14. ASSUME NEW p \in Procs, Replace(p) PROVE IInv'
  BY <1>14 DEF Replace, Goto, leaseVars
<1>15. ASSUME NEW p \in Procs, Verify(p) PROVE IInv'
  BY <1>15 DEF Verify, Goto, rootVars, leaseVars
<1>16. ASSUME NEW p \in Procs, CoverRoot(p) PROVE IInv'
  BY <1>16 DEF CoverRoot, Cover, Lock, Free, Goto, rootVars
<1>17. ASSUME NEW p \in Procs, Load(p) PROVE IInv'
  BY <1>17 DEF Load, Status, Goto, leaseVars
<1>18. ASSUME NEW p \in Procs, Leave(p) PROVE IInv'
  BY <1>18 DEF Leave, Goto, rootVars, leaseVars
<1>19. ASSUME NEW p \in Procs, Release(p) PROVE IInv'
  BY <1>19 DEF Release, rootVars
<1>20. CASE MakeDir
  BY <1>20 DEF MakeDir, leaseVars
<1>21. CASE UNCHANGED vars
  BY <1>21 DEF vars, rootVars, leaseVars
<1> QED
  BY <1>1, <1>2, <1>3, <1>4, <1>5, <1>6, <1>7, <1>8, <1>9, <1>10, <1>11,
     <1>12, <1>13, <1>14, <1>15, <1>16, <1>17, <1>18, <1>19, <1>20, <1>21
  DEF Next, Open

LEMMA Invariant == Spec => []IInv
<1> QED
  BY InitInv, NextInv, PTL DEF Spec

(* The variables keep their types, and the depth of what exists is never   *)
(* more than the root's.                                                   *)
THEOREM TypeCorrect == Spec => []TypeOK
<1>1. IInv => TypeOK
  BY DEF IInv
<1> QED
  BY <1>1, Invariant, PTL

(* Two writers would both hold the lock of the root.                       *)
THEOREM SingleWriter == Spec => []OneWriter
<1>1. IInv => OneWriter
  BY DEF IInv, OneWriter, OwnersHold, Exclusive, Owning
<1> QED
  BY <1>1, Invariant, PTL

(* A root gets its identity once.                                          *)
THEOREM IdentityOnce == Spec => []PublishedOnce
<1>1. IInv => PublishedOnce
  BY DEF IInv, PublishedOnce, Ordered
<1> QED
  BY <1>1, Invariant, PTL

(* Nothing a process leaves behind makes the root unusable.                *)
THEOREM AlwaysUsable == Spec => []NeverStranded
<1>1. IInv => NeverStranded
  BY DEF IInv, NeverStranded, Ordered, Status
<1> QED
  BY <1>1, Invariant, PTL
=============================================================================
