------------------------------ MODULE RootLease ------------------------------
(***************************************************************************)
(* Who may write a storage root: the kernel lease                          *)
(* (src/session/root_lease.rs), the hosts and package commands that open   *)
(* the root under it (src/application/host_storage.rs,                     *)
(* src/plugin/store.rs), and the sentinel file that says what the root     *)
(* holds (src/control_storage/sentinel.rs).                                *)
(*                                                                         *)
(* The root may not exist yet, so a process locks the deepest directory    *)
(* that does.  Directories are levels: 0 always exists, Depth is the root  *)
(* and level n exists if n <= exists; nobody removes one.  A lock belongs  *)
(* to an open file, so a process that opens a directory again is refused   *)
(* its own lock.  The kernel releases the locks of a process that ends.    *)
(* Every system call is an action.                                         *)
(***************************************************************************)
EXTENDS Integers, FiniteSets

CONSTANTS
    Procs,          \* processes; each may end and start again
    Depth           \* level of the root

ASSUME DepthAssumption == Depth \in Nat

Levels == 0 .. Depth
Roles == {"host", "authorized", "store", "launcher"}

VARIABLES
    exists,         \* the deepest directory of the root's path that exists
    sentinel,       \* config.json: "none", "old" version or "current"
    database,       \* clat.db of version 4: "none", "live", or "kept" as .bak
    family,         \* the current control files exist
    published,      \* how often a current sentinel was published
    pc, role,       \* where a process is, and what it came for
    held,           \* levels a process has locked
    target,         \* the directory it is about to lock
    sure            \* it has seen that the root exists

rootVars  == <<exists, sentinel, database, family, published>>
leaseVars == <<held, target, sure>>
vars == <<rootVars, leaseVars, pc, role>>

(* ControlPlaneStatus.  An unreadable sentinel is never initialised over.  *)
Status ==
    IF sentinel = "current"
    THEN IF database = "live" THEN "Inconsistent" ELSE "Ready"
    ELSE IF family THEN "Inconsistent"
    ELSE IF database = "live" THEN "LegacySQLite"
    ELSE IF sentinel = "old" THEN "LegacyConfigOnly" ELSE "Fresh"

Init ==
    /\ exists \in Levels
    /\ sentinel \in {"none", "old", "current"}
    /\ database \in {"none", "live"}
    /\ family \in BOOLEAN
    /\ exists # Depth => sentinel = "none" /\ database = "none" /\ ~family
    /\ Status # "Inconsistent"
    /\ published = IF sentinel = "current" THEN 1 ELSE 0
    /\ pc = [p \in Procs |-> "out"]
    /\ role = [p \in Procs |-> "host"]
    /\ held = [p \in Procs |-> {}]
    /\ target = [p \in Procs |-> 0]
    /\ sure = [p \in Procs |-> FALSE]

-----------------------------------------------------------------------------
(* The lease.                                                              *)
Goto(p, where) == pc' = [pc EXCEPT ![p] = where]
Free(n) == \A q \in Procs : n \notin held[q]
Lock(p, n) == held' = [held EXCEPT ![p] = @ \cup {n}]

(* A process begins to open the root.  A package command looks first       *)
(* whether the root exists.                                                *)
Start(p, r) ==
    /\ pc[p] = "out" /\ held[p] = {}
    /\ role' = [role EXCEPT ![p] = r]
    /\ sure' = [sure EXCEPT ![p] = r = "store" /\ exists = Depth]
    /\ Goto(p, "probe")
    /\ UNCHANGED <<rootVars, held, target>>

(* try_acquire: find the deepest existing directory, *)
Probe(p) ==
    /\ pc[p] = "probe"
    /\ target' = [target EXCEPT ![p] = exists]
    /\ Goto(p, "lock")
    /\ UNCHANGED <<rootVars, held, sure, role>>

(* lock it, *)
TryLock(p) ==
    /\ pc[p] = "lock" /\ Free(target[p])
    /\ Lock(p, target[p])
    /\ Goto(p, "check")
    /\ UNCHANGED <<rootVars, target, sure, role>>

(* and look again: a deeper one has to be locked as well.                  *)
Deeper(p) ==
    /\ pc[p] = "check" /\ exists # target[p]
    /\ Goto(p, "probe")
    /\ UNCHANGED <<rootVars, leaseVars, role>>

(* The lease is granted.  A launcher only wanted to know; a package        *)
(* command that found no root creates it and takes a second lease.         *)
Granted(p) ==
    /\ pc[p] = "check" /\ exists = target[p]
    /\ Goto(p, IF role[p] = "store" THEN IF sure[p] THEN "open" ELSE "create"
               ELSE IF role[p] = "launcher" THEN "probed" ELSE "classify")
    /\ UNCHANGED <<rootVars, leaseVars, role>>

(* Mutant: the guard of a fresh root is its ancestor's lock alone. *)
CoverForgotten(p, next) ==
    /\ Goto(p, next)
    /\ UNCHANGED <<rootVars, leaseVars, role>>

(* cover_initialized_root. *)
Cover(p, next) ==
    /\ exists = Depth
    /\ Depth \in held[p] \/ Free(Depth)
    /\ Lock(p, Depth)
    /\ Goto(p, next)
    /\ UNCHANGED <<rootVars, target, sure, role>>

(* The process closes the root, fails or is killed: a lock that is taken,  *)
(* a status it refuses, a preflight or any other call that reports an      *)
(* error.  Its files are closed one by one.                                *)
Leave(p) ==
    /\ pc[p] # "out"
    /\ Goto(p, "out")
    /\ UNCHANGED <<rootVars, leaseVars, role>>
Release(p) ==
    /\ pc[p] = "out"
    /\ \E n \in held[p] : held' = [held EXCEPT ![p] = @ \ {n}]
    /\ UNCHANGED <<rootVars, target, sure, role, pc>>

-----------------------------------------------------------------------------
(* Opening a host: HostStorage::open.                                      *)

(* classify, before anything is written.  Any other status is refused, and *)
(* so is a fresh root without authorization.                               *)
Classify(p) ==
    /\ pc[p] = "classify"
    /\ \/ Status = "Fresh" /\ role[p] = "authorized" /\ Goto(p, "fresh")
       \/ Status \in {"LegacySQLite", "LegacyConfigOnly"} /\ Goto(p, "upgrade")
       \/ Status = "Ready" /\ Goto(p, "verify")
    /\ UNCHANGED <<rootVars, leaseVars, role>>

(* initialize_guarded: classify again, create the directories, own the     *)
(* root, publish the sentinel.                                             *)
Initialize(p) ==
    /\ pc[p] = "fresh" /\ Status = "Fresh"
    /\ Goto(p, "create")
    /\ UNCHANGED <<rootVars, leaseVars, role>>

(* Mutant: the last directory is created although it exists. *)
CreateDirPast(p) ==
    /\ pc[p] = "create"
    /\ exists' = exists + 1
    /\ UNCHANGED <<sentinel, database, family, published, leaseVars, pc, role>>

(* create_dir_all, one directory at a time. *)
CreateDir(p) ==
    /\ pc[p] = "create" /\ exists < Depth
    /\ exists' = exists + 1
    /\ UNCHANGED <<sentinel, database, family, published, leaseVars, pc, role>>
Created(p) ==
    /\ pc[p] = "create" /\ exists = Depth
    /\ sure' = [sure EXCEPT ![p] = TRUE]
    /\ Goto(p, IF role[p] = "store" THEN "probe" ELSE "own")
    /\ UNCHANGED <<rootVars, held, target, role>>

OwnRoot(p) == pc[p] = "own" /\ Cover(p, "publish")

(* Mutant: the sentinel is renamed into place. *)
PublishOver(p) ==
    /\ pc[p] = "publish"
    /\ sentinel' = "current" /\ published' = published + 1
    /\ Goto(p, "verify")
    /\ UNCHANGED <<exists, database, family, leaseVars, role>>

(* publish_config_fresh: a link that never replaces a file. *)
Publish(p) ==
    /\ pc[p] = "publish" /\ sentinel = "none"
    /\ sentinel' = "current" /\ published' = published + 1
    /\ Goto(p, "verify")
    /\ UNCHANGED <<exists, database, family, leaseVars, role>>

(* Mutant: the new sentinel is written before the database is moved. *)
UpgradeReversed(p) ==
    /\ pc[p] = "upgrade"
    /\ \/ /\ Status = "LegacySQLite"
          /\ sentinel' = "current" /\ published' = published + 1
          /\ Goto(p, "rename")
       \/ /\ Status = "LegacyConfigOnly" /\ Goto(p, "replace")
          /\ UNCHANGED <<sentinel, published>>
    /\ UNCHANGED <<exists, database, family, leaseVars, role>>

(* complete_upgrade: classify again, move the old database away, replace   *)
(* the sentinel.  It would also return for a root that has become ready,   *)
(* but nobody else can have upgraded it: a legacy root exists, so its      *)
(* lease is the root's own.                                                *)
Upgrade(p) ==
    /\ pc[p] = "upgrade"
    /\ \/ Status = "LegacySQLite" /\ Goto(p, "rename")
       \/ Status = "LegacyConfigOnly" /\ Goto(p, "replace")
    /\ UNCHANGED <<rootVars, leaseVars, role>>

RenameDatabase(p) ==
    /\ pc[p] = "rename" /\ database = "live"
    /\ database' = "kept"
    /\ Goto(p, "replace")
    /\ UNCHANGED <<exists, sentinel, family, published, leaseVars, role>>

Replace(p) ==
    /\ pc[p] = "replace"
    /\ sentinel' = "current" /\ published' = published + 1
    /\ Goto(p, "verify")
    /\ UNCHANGED <<exists, database, family, leaseVars, role>>

(* The root must be ready by now; then it is owned, and loaded.            *)
Verify(p) ==
    /\ pc[p] = "verify" /\ Status = "Ready"
    /\ Goto(p, "cover")
    /\ UNCHANGED <<rootVars, leaseVars, role>>

CoverRoot(p) == pc[p] = "cover" /\ Cover(p, "load")

(* cleanup_market_downloads and open_ready, which creates storages/.       *)
Load(p) ==
    /\ pc[p] = "load" /\ Status = "Ready"
    /\ family' = TRUE
    /\ Goto(p, "open")
    /\ UNCHANGED <<exists, sentinel, database, published, leaseVars, role>>

-----------------------------------------------------------------------------
(* Any other program may create a directory of the path. *)
MakeDir ==
    /\ exists < Depth
    /\ exists' = exists + 1
    /\ UNCHANGED <<sentinel, database, family, published, leaseVars, pc, role>>

Open(p) ==
    \/ \E r \in Roles : Start(p, r)
    \/ Probe(p) \/ TryLock(p) \/ Deeper(p) \/ Granted(p)
    \/ Classify(p)
    \/ Initialize(p) \/ CreateDir(p) \/ Created(p) \/ OwnRoot(p) \/ Publish(p)
    \/ Upgrade(p) \/ RenameDatabase(p) \/ Replace(p)
    \/ Verify(p) \/ CoverRoot(p) \/ Load(p)

Next == MakeDir \/ \E p \in Procs : Open(p) \/ Leave(p) \/ Release(p)
Spec == Init /\ [][Next]_vars

-----------------------------------------------------------------------------
Places == {"out", "probe", "lock", "check", "probed", "classify", "fresh",
           "create", "own", "publish", "upgrade", "rename", "replace",
           "verify", "cover", "load", "open"}
Writing == {"publish", "rename", "replace", "load", "open"}

(* Types, and that no directory below the root is created for it. *)
TypeOK ==
    /\ exists \in Levels
    /\ sentinel \in {"none", "old", "current"}
    /\ database \in {"none", "live", "kept"}
    /\ family \in BOOLEAN /\ published \in Nat
    /\ pc \in [Procs -> Places] /\ role \in [Procs -> Roles]
    /\ held \in [Procs -> SUBSET Levels]
    /\ target \in [Procs -> Levels] /\ sure \in [Procs -> BOOLEAN]

(* At most one process writes the root: it publishes or replaces the       *)
(* sentinel, moves the old database, loads the control files or has the    *)
(* root open.  This is so although two processes may hold leases at the    *)
(* same time, on different ancestors of a root that did not exist.         *)
OneWriter ==
    \A p, q \in Procs : pc[p] \in Writing /\ pc[q] \in Writing => p = q

(* The identity of a root is published once: a process that classified the *)
(* root as fresh before another initialised, used and closed it does not   *)
(* put its own sentinel over the first.                                    *)
PublishedOnce == published <= 1

(* Wherever a process stops, what it leaves can be opened or initialised   *)
(* again: never control files without a sentinel, never the old database   *)
(* beside the current sentinel.                                            *)
NeverStranded == Status # "Inconsistent"
=============================================================================
