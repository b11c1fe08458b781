------------------------ MODULE BackgroundJobsProofs ------------------------
(***************************************************************************)
(* Proofs about BackgroundJobs, for any projects, any finite set of jobs,  *)
(* any limits and any bounds.                                              *)
(***************************************************************************)
EXTENDS BackgroundJobs, FiniteSetTheorems, SequenceTheorems, TLAPS

-----------------------------------------------------------------------------
(* The inductive invariant *)

(* The steps at which no entry exists, those of the start, of the monitor, *)
(* and of finish.                                                          *)
Absent   == {"new", "refused", "gone"}
Starting == {"registered", "spawn"}
Watching == {"watch", "closing"}
Ending   == {"save", "release", "finish"}

(* Who holds an entry at each step, and what the registry allows then.     *)
OwnerInv(j) ==
    /\ step[j] \in Absent => holders[j] = {}
    /\ step[j] = "prepared" => holders[j] = {"starter"}
    /\ step[j] \in Starting => {"map", "starter"} \subseteq holders[j]
    /\ step[j] \in Watching => {"map", "monitor"} \subseteq holders[j]
    /\ step[j] \in Ending => /\ "map" \in holders[j]
                             /\ "starter" \in holders[j] \/ "monitor" \in holders[j]
    /\ step[j] = "done" => "starter" \notin holders[j] /\ "monitor" \notin holders[j]
    /\ "starter" \in holders[j] => admission[ProjectOf[j]] = "start"
    /\ step[j] \notin Absent \cup {"done"} =>
          mount[ProjectOf[j]] \in {"ready", "unavailable"}
    /\ step[j] \notin {"refused", "gone", "done"} => ~finished[j]
    /\ step[j] = "done" => /\ finished[j]
                           /\ mount[ProjectOf[j]] \notin {"down", "recovering"}

(* One start at a time holds the admission lock of a project.              *)
OneStarter ==
    \A j, k \in Jobs : /\ "starter" \in holders[j] /\ "starter" \in holders[k]
                       /\ ProjectOf[j] = ProjectOf[k]
                       => j = k

(* What the journal says of a job at each step; a verdict that is not yet  *)
(* saved is true.                                                          *)
Registered(j) == records[j] = <<"registered">>
RecordInv(j) ==
    /\ records[j] \in {<<>>, <<"registered">>} \cup {<<"registered", v>> : v \in Verdicts}
    /\ step[j] \in {"new", "prepared"} => records[j] = <<>> /\ run[j] = "none"
    /\ step[j] = "registered" => Registered(j) /\ run[j] = "none"
    /\ step[j] \in {"spawn", "watch", "closing", "save"} => Registered(j)
    /\ step[j] \in {"spawn", "watch"} =>
          run[j] \in {"running", "zero", "nonzero", "killed"}
    /\ step[j] \in {"release", "finish", "done"} =>
          \/ Registered(j) /\ saveErr[j]
          \/ records[j] = <<"registered", state[j]>>
    /\ step[j] \in {"closing", "save", "release", "finish"} \/ saveErr[j] =>
          state[j] \in Ledger!Truthful(run[j])
    /\ saveErr[j] => step[j] \in {"release", "finish", "done"} /\ "map" \in holders[j]
    /\ step[j] = "refused" /\ records[j] # <<>> => j \in doubted
    /\ step[j] = "gone" /\ Registered(j) =>
          mount[ProjectOf[j]] \notin {"restoring", "ready"} \/ j \in doubted

(* Where the rows that recover still has to restore are.                   *)
TodoInv(p) ==
    mount[p] = "restoring" =>
       \A j \in todo[p] :
          ProjectOf[j] = p /\ Settled(j) /\ step[j] \in Absent

(* A running command has an entry, and one that outlives its monitor has   *)
(* left a cleanup error.                                                   *)
RunInv(j) ==
    run[j] = "running" =>
       /\ "map" \in holders[j]
       /\ \/ step[j] \in {"spawn", "watch", "closing"}
          \/ step[j] \in Ending \cup {"done"} /\ cleanErr[j]

IInv ==
    /\ TypeOK /\ PermitsBalance /\ OneStarter
    /\ \A j \in Jobs : OwnerInv(j) /\ RecordInv(j) /\ RunInv(j)
    /\ \A p \in Projects : TodoInv(p)

-----------------------------------------------------------------------------
(* Types *)

Steps   == {"new", "refused", "gone", "done", "prepared", "registered", "spawn",
            "watch", "closing", "save", "release", "finish"}
Records == Seq({"registered"} \cup Verdicts)

(* The parts of TypeOK; the counters are typed by what they count.         *)
WorldType ==
    /\ records \in [Jobs -> Records]
    /\ run \in [Jobs -> {"none", "running", "zero", "nonzero", "killed", "lost"}]
    /\ dirty \in [Jobs -> BOOLEAN]
HostType ==
    /\ mount \in [Projects -> {"down", "recovering", "restoring", "ready", "unavailable"}]
    /\ admission \in [Projects -> {"free", "start", "close"}]
    /\ closed \in [Projects -> BOOLEAN] /\ closeErr \in [Projects -> BOOLEAN]
    /\ todo \in [Projects -> SUBSET Jobs]
OwnerType ==
    /\ step \in [Jobs -> Steps]
    /\ holders \in [Jobs -> SUBSET Owners]
    /\ permit \in [Jobs -> {"none", "active", "settled"}]
ViewType ==
    /\ kernel \in [Jobs -> {"none", "open", "closed"}]
    /\ joinTaken \in [Jobs -> BOOLEAN]
    /\ state \in [Jobs -> Verdicts \cup {"registered", "running"}]
    /\ cancel \in [Jobs -> BOOLEAN] /\ saveErr \in [Jobs -> BOOLEAN]
    /\ cleanErr \in [Jobs -> BOOLEAN] /\ finished \in [Jobs -> BOOLEAN]
BoundType ==
    /\ doubted \subseteq Jobs
    /\ faults \in 0 .. MaxFaults /\ crashes \in 0 .. MaxCrashes

LEMMA TypeParts ==
    TypeOK <=> /\ WorldType /\ HostType /\ OwnerType /\ ViewType /\ BoundType
               /\ counts \in [active : Nat, retained : Nat]
BY DEF TypeOK, WorldType, HostType, OwnerType, ViewType, BoundType, Steps, Idle,
   Records

(* An entry that gets no new holder keeps its types.                       *)
LEMMA HoldTypes ==
    ASSUME OwnerType, NEW held \in [Jobs -> SUBSET Owners], Hold(held)
    PROVE  /\ holders' \in [Jobs -> SUBSET Owners]
           /\ permit' \in [Jobs -> {"none", "active", "settled"}]
BY DEF OwnerType, Hold

(* A commit leaves the records typed, whatever comes of it.                *)
LEMMA CommitTypes ==
    ASSUME WorldType, BoundType, NEW j \in Jobs,
           NEW r \in {"registered"} \cup Verdicts,
           Commit(j, r) \/ CommitFails(j, r)
    PROVE  records' \in [Jobs -> Records] /\ faults' \in 0 .. MaxFaults
<1>1. Added(j, r) \in [Jobs -> Records]
  <2>1. Append(records[j], r) \in Records
    BY AppendProperties DEF WorldType, Records
  <2> QED BY <2>1 DEF Added, WorldType
<1>2. records' \in [Jobs -> Records]
  BY <1>1 DEF Commit, CommitFails, WorldType
<1>3. faults' \in 0 .. MaxFaults
  BY LimitAssumption DEF Commit, CommitFails, Fault, NoFault, BoundType
<1> QED BY <1>2, <1>3

LEMMA KernelTypes ==
    ASSUME WorldType, ViewType, NEW j \in Jobs,
           KernelCloses(j) \/ KernelCloseFails(j)
    PROVE  /\ run' \in [Jobs -> {"none", "running", "zero", "nonzero", "killed", "lost"}]
           /\ dirty' \in [Jobs -> BOOLEAN]
           /\ kernel' \in [Jobs -> {"none", "open", "closed"}]
<1>1. Stopped(j) \in [Jobs -> {"none", "running", "zero", "nonzero", "killed", "lost"}]
  BY DEF Stopped, WorldType
<1> QED BY <1>1 DEF KernelCloses, KernelCloseFails, WorldType, ViewType

(* What a verdict may be told of: a running command may end in any way.    *)
LEMMA TruthfulVerdicts ==
    ASSUME NEW fate
    PROVE  /\ Ledger!Truthful(fate) \subseteq Verdicts
           /\ {"interrupted", "restarted"} \subseteq Ledger!Truthful(fate)
           /\ Ledger!Truthful("running") = {"interrupted", "restarted"}
           /\ Ledger!Truthful("none") =
                 {"interrupted", "restarted", "not_started"}
           /\ fate \in {"zero", "nonzero", "killed"} =>
                 Observation(fate) \in Ledger!Truthful(fate)
BY DEF Ledger!Truthful, Verdicts, Observation

(* Every step leaves the variables typed but for the counters, which are   *)
(* typed by what they count.                                               *)
LEMMA StartTypes ==
    ASSUME TypeOK, NEW j \in Jobs, StartStep(j)
    PROVE  WorldType' /\ HostType' /\ OwnerType' /\ ViewType' /\ BoundType'
<1> USE TypeParts
<1>a. ProjectOf[j] \in Projects
  BY ProjectAssumption
<1>1. CASE Prepare(j)
  <2>1. WorldType' /\ ViewType' /\ BoundType'
    BY <1>1 DEF Prepare, WorldType, ViewType, BoundType, worldVars, boundVars
  <2>2. \A js : Evict(js) \in [Jobs -> SUBSET Owners]
    BY DEF Evict, OwnerType
  <2>3. CASE Hold(Evict(Evictable(ProjectOf[j]))) /\ UNCHANGED <<step, admission>>
    <3>1. OwnerType'
      BY <2>2, <2>3, HoldTypes DEF OwnerType
    <3> QED BY <2>1, <2>3, <3>1, <1>1 DEF Prepare, HostType
  <2>4. ASSUME NEW js, Hold(Evict(js)) /\ UNCHANGED <<step, admission>>
        PROVE  OwnerType' /\ HostType'
    <3>1. OwnerType'
      BY <2>2, <2>4, HoldTypes DEF OwnerType
    <3> QED BY <2>4, <3>1, <1>1 DEF Prepare, HostType
  <2>5. ASSUME NEW js,
               holders' = [Evict(js) EXCEPT ![j] = {"starter"}],
               permit' = [k \in Jobs |->
                  IF k = j THEN "active"
                  ELSE IF k \in Dropped(Evict(js)) THEN "none" ELSE permit[k]],
               step' = [step EXCEPT ![j] = "prepared"],
               admission' = [admission EXCEPT ![ProjectOf[j]] = "start"]
        PROVE  OwnerType' /\ HostType'
    <3>1. OwnerType'
      BY <2>2, <2>5 DEF OwnerType, Steps, Owners
    <3>2. HostType'
      BY <2>5, <1>1 DEF Prepare, HostType
    <3> QED BY <3>1, <3>2
  <2> QED BY <2>1, <2>3, <2>4, <2>5, <1>1 DEF Prepare
<1>2. CASE Register(j)
  <2>1. WorldType' /\ faults' \in 0 .. MaxFaults
    BY <1>2, CommitTypes DEF Register, WorldType
  <2>2. ViewType' /\ BoundType' /\ HostType'
    BY <1>2, <2>1 DEF Register, ViewType, BoundType, HostType
  <2>3. /\ [holders EXCEPT ![j] = @ \cup {"map"}] \in [Jobs -> SUBSET Owners]
        /\ Lose(j, "starter") \in [Jobs -> SUBSET Owners]
    BY DEF OwnerType, Lose, Owners
  <2>4. OwnerType'
    BY <1>2, <2>3, HoldTypes DEF Register, OwnerType, Steps
  <2> QED BY <2>1, <2>2, <2>4
<1>3. CASE Launch(j)
  <2>1. WorldType'
    BY <1>3 DEF Launch, WorldType
  <2>2. HostType' /\ OwnerType'
    BY <1>3 DEF Launch, Ended, HostType, OwnerType, Steps, hostVars
  <2>3. ViewType'
    BY <1>3 DEF Launch, Ended, ViewType, Verdicts
  <2>4. BoundType'
    BY <1>3, LimitAssumption DEF Launch, BoundType, Fault, NoFault
  <2> QED BY <2>1, <2>2, <2>3, <2>4
<1>4. CASE Spawn(j)
  <2>1. [holders EXCEPT ![j] = (@ \ {"starter"}) \cup {"monitor"}]
           \in [Jobs -> SUBSET Owners]
    BY DEF OwnerType, Owners
  <2>2. OwnerType'
    BY <1>4, <2>1, HoldTypes DEF Spawn, Ended, OwnerType, Steps
  <2>3. WorldType' /\ kernel' \in [Jobs -> {"none", "open", "closed"}]
    BY <1>4, KernelTypes DEF Spawn, WorldType, ViewType
  <2>4. ViewType'
    BY <1>4, <2>3 DEF Spawn, Ended, ViewType, Verdicts
  <2>5. HostType' /\ BoundType'
    BY <1>4, LimitAssumption DEF Spawn, HostType, BoundType, Fault
  <2> QED BY <2>2, <2>3, <2>4, <2>5
<1> QED BY <1>1, <1>2, <1>3, <1>4 DEF StartStep

LEMMA MonitorTypes ==
    ASSUME TypeOK, NEW j \in Jobs, RecordInv(j),
           Exit(j) \/ MonitorStep(j) \/ FinishStep(j)
    PROVE  WorldType' /\ HostType' /\ OwnerType' /\ ViewType' /\ BoundType'
<1> USE TypeParts
<1>a. ProjectOf[j] \in Projects
  BY ProjectAssumption
<1>1. CASE Exit(j)
  BY <1>1 DEF Exit, WorldType, HostType, OwnerType, ViewType, BoundType, hostVars,
     entryVars, boundVars
<1>2. CASE Observe(j)
  <2>1. Observation(run[j]) \in Verdicts
    BY DEF Observation, Verdicts
  <2> QED BY <1>2, <2>1 DEF Observe, WorldType, HostType, OwnerType, ViewType,
     BoundType, worldVars, hostVars, boundVars, Steps
<1>3. CASE LoseSight(j)
  <2>1. faults' \in 0 .. MaxFaults
    BY <1>3, LimitAssumption DEF LoseSight, Fault, NoFault, BoundType
  <2>2. WorldType' /\ HostType' /\ BoundType'
    BY <1>3, <2>1 DEF LoseSight, WorldType, HostType, BoundType, worldVars, hostVars
  <2>3. OwnerType'
    BY <1>3 DEF LoseSight, OwnerType, Steps
  <2>4. ViewType'
    BY <1>3 DEF LoseSight, ViewType, Verdicts
  <2> QED BY <2>2, <2>3, <2>4
<1>4. CASE CloseKernel(j)
  <2>1. faults' \in 0 .. MaxFaults
    BY <1>4, LimitAssumption DEF CloseKernel, Fault, NoFault, BoundType
  <2>2. WorldType' /\ kernel' \in [Jobs -> {"none", "open", "closed"}]
    BY <1>4, KernelTypes DEF CloseKernel, WorldType
  <2>3. HostType' /\ BoundType'
    BY <1>4, <2>1 DEF CloseKernel, HostType, BoundType, hostVars
  <2>4. OwnerType'
    BY <1>4 DEF CloseKernel, OwnerType, Steps
  <2>5. ViewType'
    BY <1>4, <2>2 DEF CloseKernel, ViewType
  <2> QED BY <2>2, <2>3, <2>4, <2>5
<1>5. CASE SaveVerdict(j)
  <2>1. state[j] \in Verdicts
    BY <1>5, TruthfulVerdicts DEF SaveVerdict, RecordInv
  <2>2. records' \in [Jobs -> Records] /\ faults' \in 0 .. MaxFaults
    BY <1>5, <2>1, CommitTypes DEF SaveVerdict
  <2>3. WorldType' /\ HostType' /\ BoundType'
    BY <1>5, <2>2 DEF SaveVerdict, WorldType, HostType, BoundType, hostVars
  <2>4. OwnerType'
    BY <1>5 DEF SaveVerdict, OwnerType, Steps
  <2>5. ViewType'
    BY <1>5 DEF SaveVerdict, ViewType
  <2> QED BY <2>3, <2>4, <2>5
<1>6. CASE SettlePermit(j)
  BY <1>6 DEF SettlePermit, WorldType, HostType, OwnerType, ViewType, BoundType,
     worldVars, boundVars, Steps
<1>7. CASE Finish(j)
  <2>1. [holders EXCEPT ![j] = @ \ {"starter", "monitor"}] \in [Jobs -> SUBSET Owners]
    BY DEF OwnerType
  <2>2. OwnerType'
    BY <1>7, <2>1, HoldTypes DEF Finish, OwnerType, Steps
  <2>3. HostType'
    BY <1>7, <1>a DEF Finish, HostType
  <2> QED BY <1>7, <2>2, <2>3 DEF Finish, WorldType, ViewType, BoundType, worldVars,
     boundVars
<1> QED BY <1>1, <1>2, <1>3, <1>4, <1>5, <1>6, <1>7 DEF MonitorStep, FinishStep

(* A retry changes nothing but the records, the command and the errors.    *)
LEMMA RetryTypes ==
    ASSUME WorldType, ViewType, BoundType, NEW j \in Jobs, RecordInv(j),
           RetryEntry(j)
    PROVE  /\ WorldType' /\ faults' \in 0 .. MaxFaults
           /\ kernel' \in [Jobs -> {"none", "open", "closed"}]
           /\ cleanErr' \in [Jobs -> BOOLEAN] /\ saveErr' \in [Jobs -> BOOLEAN]
<1>1. /\ run' \in [Jobs -> {"none", "running", "zero", "nonzero", "killed", "lost"}]
      /\ dirty' \in [Jobs -> BOOLEAN]
      /\ kernel' \in [Jobs -> {"none", "open", "closed"}]
  BY KernelTypes DEF RetryEntry, WorldType, ViewType
<1>2. records' \in [Jobs -> Records] /\ faults' \in 0 .. MaxFaults
  <2>1. saveErr[j] => state[j] \in Verdicts
    BY TruthfulVerdicts DEF RecordInv
  <2>2. CASE saveErr[j] /\ (Commit(j, state[j]) \/ CommitFails(j, state[j]))
    BY <2>1, <2>2, CommitTypes
  <2>3. CASE UNCHANGED records /\ (Fault \/ NoFault)
    BY <2>3, LimitAssumption DEF WorldType, BoundType, Fault, NoFault
  <2> QED BY <2>2, <2>3 DEF RetryEntry
<1>3. cleanErr' \in [Jobs -> BOOLEAN] /\ saveErr' \in [Jobs -> BOOLEAN]
  BY DEF RetryEntry, ViewType
<1> QED BY <1>1, <1>2, <1>3 DEF WorldType

LEMMA UserTypes ==
    ASSUME TypeOK, NEW j \in Jobs, RecordInv(j), UserStep(j)
    PROVE  WorldType' /\ HostType' /\ OwnerType' /\ ViewType' /\ BoundType'
<1> USE TypeParts
<1>1. CASE Kill(j)
  BY <1>1 DEF Kill, WorldType, HostType, OwnerType, ViewType, BoundType, worldVars,
     hostVars, boundVars
<1>2. CASE Read(j) \/ ReadEnd(j)
  <2>1. /\ [holders EXCEPT ![j] = @ \cup {"reader"}] \in [Jobs -> SUBSET Owners]
        /\ Lose(j, "reader") \in [Jobs -> SUBSET Owners]
    BY DEF OwnerType, Lose, Owners
  <2>2. OwnerType'
    BY <1>2, <2>1, HoldTypes DEF Read, ReadEnd, OwnerType
  <2> QED BY <1>2, <2>2 DEF Read, ReadEnd, WorldType, HostType, ViewType, BoundType,
     worldVars, boundVars
<1>3. CASE Retry(j)
  <2>1. /\ WorldType' /\ faults' \in 0 .. MaxFaults
        /\ kernel' \in [Jobs -> {"none", "open", "closed"}]
        /\ cleanErr' \in [Jobs -> BOOLEAN] /\ saveErr' \in [Jobs -> BOOLEAN]
    BY <1>3, RetryTypes DEF Retry
  <2> QED BY <1>3, <2>1 DEF Retry, HostType, OwnerType, ViewType, BoundType, hostVars
<1> QED BY <1>1, <1>2, <1>3 DEF UserStep

LEMMA CloseTypes ==
    ASSUME TypeOK, NEW p \in Projects, \A j \in Jobs : RecordInv(j), CloseStep(p)
    PROVE  WorldType' /\ HostType' /\ OwnerType' /\ ViewType' /\ BoundType'
<1> USE TypeParts
<1>1. CASE CloseBegin(p)
  <2>1. HostType' /\ ViewType'
    BY <1>1 DEF CloseBegin, Entries, JobsOf, HostType, ViewType
  <2> QED BY <1>1, <2>1 DEF CloseBegin, WorldType, OwnerType, BoundType, worldVars,
     boundVars
<1>2. CASE CloseEntry(p)
  <2>1. PICK j \in todo[p] : CloseEntry(p)!(j)
    BY <1>2 DEF CloseEntry
  <2>2. j \in Jobs
    BY DEF HostType
  <2>3. /\ WorldType' /\ faults' \in 0 .. MaxFaults
        /\ kernel' \in [Jobs -> {"none", "open", "closed"}]
        /\ cleanErr' \in [Jobs -> BOOLEAN] /\ saveErr' \in [Jobs -> BOOLEAN]
    <3>1. CASE RetryEntry(j)
      BY <3>1, <2>2, RetryTypes
    <3>2. CASE /\ Fault /\ (KernelCloses(j) \/ KernelCloseFails(j))
               /\ UNCHANGED <<records, cleanErr, saveErr>>
      BY <3>2, <2>2, KernelTypes, LimitAssumption
      DEF WorldType, ViewType, BoundType, Fault
    <3>3. CASE NoFault /\ UNCHANGED <<worldVars, kernel, cleanErr, saveErr>>
      BY <3>3 DEF WorldType, ViewType, BoundType, NoFault, worldVars
    <3> QED BY <2>1, <3>1, <3>2, <3>3
  <2>4. closeErr' \in [Projects -> BOOLEAN]
    BY <2>1, <2>2, <2>3 DEF HostType, ViewType
  <2> QED BY <2>1, <2>2, <2>3, <2>4 DEF HostType, OwnerType, ViewType, BoundType
<1>3. CASE CloseEnd(p)
  BY <1>3 DEF CloseEnd, WorldType, HostType, OwnerType, ViewType, BoundType,
     worldVars, entryVars, boundVars
<1>4. CASE Unmount(p)
  <2>1. Evict(Entries(p)) \in [Jobs -> SUBSET Owners]
    BY DEF Evict, OwnerType
  <2>2. OwnerType'
    BY <1>4, <2>1, HoldTypes DEF Unmount, OwnerType, Steps
  <2> QED BY <1>4, <2>2 DEF Unmount, WorldType, HostType, ViewType, BoundType,
     worldVars, boundVars
<1> QED BY <1>1, <1>2, <1>3, <1>4 DEF CloseStep

LEMMA MountTypes ==
    ASSUME TypeOK, NEW p \in Projects, \A j \in Jobs : RecordInv(j),
           TodoInv(p), MountStep(p)
    PROVE  WorldType' /\ HostType' /\ OwnerType' /\ ViewType' /\ BoundType'
<1> USE TypeParts
<1>1. CASE Mount(p) \/ Ready(p)
  BY <1>1 DEF Mount, Ready, WorldType, HostType, OwnerType, ViewType, BoundType,
     worldVars, entryVars, boundVars
<1>2. CASE RecoverRow(p)
  <2>1. PICK j \in Unfinished(p) : RecoverRow(p)!(j)
    BY <1>2 DEF RecoverRow
  <2>2. j \in Jobs
    BY DEF Unfinished, JobsOf
  <2>3. records' \in [Jobs -> Records] /\ faults' \in 0 .. MaxFaults
    BY <2>1, <2>2, CommitTypes DEF Verdicts
  <2> QED BY <2>1, <2>3 DEF WorldType, HostType, OwnerType, ViewType, BoundType,
     entryVars
<1>3. CASE RecoverDone(p)
  <2>1. todo' \in [Projects -> SUBSET Jobs]
    BY <1>3 DEF RecoverDone, HostType, JobsOf
  <2> QED BY <1>3, <2>1 DEF RecoverDone, WorldType, HostType, OwnerType, ViewType,
     BoundType, worldVars, entryVars, boundVars
<1>4. CASE Restore(p)
  <2>1. PICK j \in todo[p] : Restore(p)!(j)
    BY <1>4 DEF Restore
  <2>2. j \in Jobs
    BY DEF HostType
  <2>3. records[j][2] \in Verdicts
    BY <2>1, <2>2 DEF TodoInv, RecordInv, Settled
  <2>4. OwnerType'
    BY <2>1, <2>2 DEF OwnerType, Steps, Owners
  <2>5. ViewType'
    BY <2>1, <2>2, <2>3 DEF ViewType
  <2>6. HostType'
    BY <2>1 DEF HostType
  <2> QED BY <2>1, <2>4, <2>5, <2>6 DEF WorldType, BoundType, worldVars, boundVars
<1> QED BY <1>1, <1>2, <1>3, <1>4 DEF MountStep

LEMMA CrashTypes ==
    ASSUME TypeOK, Crash
    PROVE  WorldType' /\ HostType' /\ OwnerType' /\ ViewType' /\ BoundType'
<1> USE TypeParts
<1>1. BoundType'
  BY LimitAssumption DEF Crash, BoundType
<1>2. WorldType' /\ HostType'
  BY DEF Crash, WorldType, HostType
<1>3. OwnerType' /\ ViewType'
  BY DEF Crash, OwnerType, ViewType, Steps
<1> QED BY <1>1, <1>2, <1>3

-----------------------------------------------------------------------------
(* The counters *)

Actives(prm) == {k \in Jobs : prm[k] = "active"}
Kept(prm)    == {k \in Jobs : prm[k] # "none"}
Matches(prm, held) == \A k \in Jobs : prm[k] = "none" <=> held[k] = {}
Counted(c, prm) ==
    /\ c \in [active : Nat, retained : Nat]
    /\ c.active = Cardinality(Actives(prm)) /\ c.retained = Cardinality(Kept(prm))
Balanced(c, prm, held) ==
    Counted(c, prm) /\ Matches(prm, held)
    /\ c.active <= MaxActive /\ c.retained <= MaxRetained

LEMMA BalancedNow ==
    ASSUME TypeOK
    PROVE  PermitsBalance <=> Balanced(counts, permit, holders)
BY DEF TypeOK, PermitsBalance, Balanced, Counted, Matches, Actives, Kept

LEMMA BalancedNext ==
    ASSUME Balanced(counts', permit', holders')
    PROVE  PermitsBalance' /\ (counts \in [active : Nat, retained : Nat])'
BY DEF PermitsBalance, Balanced, Counted, Matches, Actives, Kept

(* The sets the counters count are finite.                                 *)
LEMMA KeptFinite ==
    ASSUME NEW prm
    PROVE  IsFiniteSet(Actives(prm)) /\ IsFiniteSet(Kept(prm))
BY JobsAssumption, FS_Subset DEF Actives, Kept

(* Entries that get no new holder: the permits of those that lose the last *)
(* one are given back.                                                     *)
After(held) == [k \in Jobs |-> IF k \in Dropped(held) THEN "none" ELSE permit[k]]
LEMMA HoldBalanced ==
    ASSUME TypeOK, PermitsBalance, NEW held \in [Jobs -> SUBSET Owners],
           \A k \in Jobs : held[k] # {} => holders[k] # {}
    PROVE  /\ Balanced(Without(held), After(held), held)
           /\ \A k \in Jobs : held[k] # {} => permit[k] = After(held)[k]
<1> DEFINE gone == Dropped(held)
           A == Actives(permit)  K == Kept(permit)
           B == {k \in gone : permit[k] = "active"}
<1>1. Balanced(counts, permit, holders)
  BY BalancedNow
<1>2. B \subseteq A /\ gone \subseteq K /\ IsFiniteSet(A) /\ IsFiniteSet(K)
  BY <1>1, KeptFinite DEF Balanced, Matches, Dropped, Actives, Kept
<1>3. Actives(After(held)) = A \ B /\ Kept(After(held)) = K \ gone
  BY DEF After, Actives, Kept, Dropped
<1>4. IsFiniteSet(B) /\ IsFiniteSet(gone)
  BY <1>2, FS_Subset
<1>5. /\ Cardinality(A \ B) = Cardinality(A) - Cardinality(A \cap B)
      /\ Cardinality(K \ gone) = Cardinality(K) - Cardinality(K \cap gone)
  BY <1>2, FS_Difference
<1>6. A \cap B = B /\ K \cap gone = gone
  BY <1>2
<1>7. /\ Cardinality(A \ B) \in Nat /\ Cardinality(K \ gone) \in Nat
      /\ Cardinality(B) \in Nat /\ Cardinality(gone) \in Nat
  BY <1>2, <1>4, FS_Difference, FS_CardinalityType
<1>8. Counted(Without(held), After(held))
  BY <1>1, <1>3, <1>5, <1>6, <1>7 DEF Counted, Balanced, Without
<1>9. Without(held).active <= counts.active /\ Without(held).retained <= counts.retained
  BY <1>1, <1>7 DEF Without, Balanced, Counted
<1>10. Matches(After(held), held)
  BY <1>1 DEF Balanced, Matches, After, Dropped
<1>11. \A k \in Jobs : held[k] # {} => permit[k] = After(held)[k]
  BY DEF After, Dropped
<1> QED BY <1>1, <1>8, <1>9, <1>10, <1>11, LimitAssumption DEF Balanced, Counted

(* A new entry takes a permit.                                             *)
LEMMA AcquireBalanced ==
    ASSUME NEW c, NEW prm \in [Jobs -> {"none", "active", "settled"}],
           NEW held \in [Jobs -> SUBSET Owners], Balanced(c, prm, held),
           NEW j \in Jobs, held[j] = {}, NEW owner \in Owners,
           CanAcquire(c)
    PROVE  /\ Balanced([active |-> c.active + 1, retained |-> c.retained + 1],
                       [prm EXCEPT ![j] = "active"], [held EXCEPT ![j] = {owner}])
           /\ Balanced([c EXCEPT !.retained = @ + 1],
                       [prm EXCEPT ![j] = "settled"], [held EXCEPT ![j] = {owner}])
<1>1. prm[j] = "none" /\ j \notin Actives(prm) /\ j \notin Kept(prm)
  BY DEF Balanced, Matches, Actives, Kept
<1>2. /\ Actives([prm EXCEPT ![j] = "active"]) = Actives(prm) \cup {j}
      /\ Kept([prm EXCEPT ![j] = "active"]) = Kept(prm) \cup {j}
      /\ Actives([prm EXCEPT ![j] = "settled"]) = Actives(prm)
      /\ Kept([prm EXCEPT ![j] = "settled"]) = Kept(prm) \cup {j}
  BY <1>1 DEF Actives, Kept
<1>3. /\ Cardinality(Actives(prm) \cup {j}) = Cardinality(Actives(prm)) + 1
      /\ Cardinality(Kept(prm) \cup {j}) = Cardinality(Kept(prm)) + 1
  BY <1>1, KeptFinite, FS_AddElement
<1>4. /\ Matches([prm EXCEPT ![j] = "active"], [held EXCEPT ![j] = {owner}])
      /\ Matches([prm EXCEPT ![j] = "settled"], [held EXCEPT ![j] = {owner}])
  BY DEF Balanced, Matches
<1>5. c \in [active : Nat, retained : Nat]
  BY DEF Balanced, Counted
<1>6. c.active \in Nat /\ c.retained \in Nat
      /\ c.active < MaxActive /\ c.retained < MaxRetained
  BY <1>5 DEF CanAcquire
<1> DEFINE taken == [prm EXCEPT ![j] = "active"]
           again == [prm EXCEPT ![j] = "settled"]
<1>0. /\ c.active = Cardinality(Actives(prm)) /\ c.retained = Cardinality(Kept(prm))
      /\ Cardinality(Actives(taken)) = c.active + 1
      /\ Cardinality(Kept(taken)) = c.retained + 1
      /\ Cardinality(Actives(again)) = c.active
      /\ Cardinality(Kept(again)) = c.retained + 1
  BY <1>2, <1>3 DEF Balanced, Counted
<1> HIDE DEF taken, again
<1>7. Counted([active |-> c.active + 1, retained |-> c.retained + 1], taken)
  BY <1>0, <1>6 DEF Counted
<1>8. [c EXCEPT !.retained = @ + 1]
         = [active |-> c.active, retained |-> c.retained + 1]
  BY <1>5
<1>9. Counted([active |-> c.active, retained |-> c.retained + 1], again)
  BY <1>0, <1>6 DEF Counted
<1> QED BY <1>4, <1>6, <1>7, <1>8, <1>9, LimitAssumption DEF Balanced, taken, again

(* Settling a permit gives its active part back once.                      *)
LEMMA SettleBalanced ==
    ASSUME TypeOK, PermitsBalance, NEW j \in Jobs, holders[j] # {}, SettlePermit(j)
    PROVE  Balanced(counts', permit', holders')
<1>1. Balanced(counts, permit, holders) /\ permit[j] # "none"
  BY BalancedNow DEF Balanced, Matches
<1>2. /\ permit' = [permit EXCEPT ![j] = "settled"] /\ holders' = holders
      /\ permit \in [Jobs -> {"none", "active", "settled"}]
      /\ counts \in [active : Nat, retained : Nat]
  BY DEF SettlePermit, TypeOK
<1>3. Kept(permit') = Kept(permit) /\ Actives(permit') = Actives(permit) \ {j}
  BY <1>1, <1>2 DEF Kept, Actives
<1>4. Matches(permit', holders')
  BY <1>1, <1>2 DEF Balanced, Matches
<1>5. CASE permit[j] = "active"
  <2>1. counts' = [counts EXCEPT !.active = @ - 1]
    BY <1>5 DEF SettlePermit
  <2>2. j \in Actives(permit)
    BY <1>5 DEF Actives
  <2>3. /\ Cardinality(Actives(permit) \ {j}) = Cardinality(Actives(permit)) - 1
        /\ Cardinality(Actives(permit) \ {j}) \in Nat
    BY <2>2, KeptFinite, FS_RemoveElement, FS_CardinalityType
  <2>4. counts' = [active |-> counts.active - 1, retained |-> counts.retained]
    BY <2>1, <1>2
  <2>5. counts.active \in Nat /\ counts.retained \in Nat
    BY <1>2
  <2>6. Counted(counts', permit')
    BY <1>1, <1>3, <2>3, <2>4, <2>5 DEF Balanced, Counted
  <2> QED BY <1>1, <1>4, <2>4, <2>5, <2>6, LimitAssumption DEF Balanced
<1>6. CASE permit[j] # "active"
  <2>1. counts' = counts
    BY <1>2, <1>6 DEF SettlePermit
  <2>2. Actives(permit') = Actives(permit)
    BY <1>3, <1>6 DEF Actives
  <2> QED BY <1>1, <1>3, <1>4, <2>1, <2>2 DEF Balanced, Counted
<1> QED BY <1>5, <1>6

(* No step creates a permit, loses one, or gives one back twice.           *)
LEMMA BalanceStep ==
    ASSUME IInv, Next
    PROVE  Balanced(counts', permit', holders')
<1>1. TypeOK /\ PermitsBalance
  BY DEF IInv
<1>2. /\ Balanced(counts, permit, holders)
      /\ holders \in [Jobs -> SUBSET Owners] /\ permit \in [Jobs -> {"none", "active", "settled"}]
  BY <1>1, BalancedNow DEF TypeOK
<1>3. CASE UNCHANGED <<counts, permit, holders>>
  BY <1>2, <1>3
<1>4. ASSUME NEW held \in [Jobs -> SUBSET Owners], Hold(held),
             \A k \in Jobs : held[k] # {} => holders[k] # {}
      PROVE  Balanced(counts', permit', holders')
  BY <1>1, <1>4, HoldBalanced DEF Hold, After
<1>5. ASSUME NEW j \in Jobs, Prepare(j) PROVE Balanced(counts', permit', holders')
  <2>1. \A js : /\ Evict(js) \in [Jobs -> SUBSET Owners]
                /\ \A k \in Jobs : Evict(js)[k] # {} => holders[k] # {}
    BY <1>2 DEF Evict
  <2>2. ASSUME NEW js, Hold(Evict(js)) PROVE Balanced(counts', permit', holders')
    BY <2>1, <2>2, <1>4
  <2>3. ASSUME NEW js, CanAcquire(Without(Evict(js))),
               holders' = [Evict(js) EXCEPT ![j] = {"starter"}],
               counts' = [active |-> Without(Evict(js)).active + 1,
                          retained |-> Without(Evict(js)).retained + 1],
               permit' = [k \in Jobs |->
                   IF k = j THEN "active"
                   ELSE IF k \in Dropped(Evict(js)) THEN "none" ELSE permit[k]]
        PROVE  Balanced(counts', permit', holders')
    <3>1. Balanced(Without(Evict(js)), After(Evict(js)), Evict(js))
      BY <1>1, <2>1, HoldBalanced
    <3>2. After(Evict(js)) \in [Jobs -> {"none", "active", "settled"}]
      BY <1>2 DEF After
    <3>3. Evict(js)[j] = {}
      BY <1>5 DEF Prepare, Evict, IInv, OwnerInv, Absent
    <3>4. permit' = [After(Evict(js)) EXCEPT ![j] = "active"]
      BY <2>3 DEF After
    <3>5. "starter" \in Owners
      BY DEF Owners
    <3>6. Balanced([active |-> Without(Evict(js)).active + 1,
                    retained |-> Without(Evict(js)).retained + 1],
                   [After(Evict(js)) EXCEPT ![j] = "active"],
                   [Evict(js) EXCEPT ![j] = {"starter"}])
      BY <2>1, <2>3, <3>1, <3>2, <3>3, <3>5, AcquireBalanced
    <3> QED BY <2>3, <3>4, <3>6
  <2> QED BY <1>5, <2>2, <2>3 DEF Prepare
<1>6. ASSUME NEW j \in Jobs, Register(j) PROVE Balanced(counts', permit', holders')
  <2>1. holders[j] = {"starter"}
    BY <1>6 DEF Register, IInv, OwnerInv
  <2>2. /\ [holders EXCEPT ![j] = @ \cup {"map"}] \in [Jobs -> SUBSET Owners]
        /\ Lose(j, "starter") \in [Jobs -> SUBSET Owners]
    BY <1>2 DEF Owners, Lose
  <2> QED BY <1>2, <1>4, <1>6, <2>1, <2>2 DEF Register, Lose
<1>7. ASSUME NEW j \in Jobs, Spawn(j) PROVE Balanced(counts', permit', holders')
  <2>1. "starter" \in holders[j]
    BY <1>7 DEF Spawn, IInv, OwnerInv, Starting
  <2>2. [holders EXCEPT ![j] = (@ \ {"starter"}) \cup {"monitor"}]
           \in [Jobs -> SUBSET Owners]
    BY <1>2 DEF Owners
  <2> QED BY <1>2, <1>3, <1>4, <1>7, <2>1, <2>2 DEF Spawn
<1>8. ASSUME NEW j \in Jobs, SettlePermit(j) PROVE Balanced(counts', permit', holders')
  <2>1. holders[j] # {}
    BY <1>8 DEF SettlePermit, IInv, OwnerInv, Ending
  <2> QED BY <1>1, <1>8, <2>1, SettleBalanced
<1>9. ASSUME NEW j \in Jobs, Finish(j) PROVE Balanced(counts', permit', holders')
  BY <1>2, <1>4, <1>9 DEF Finish
<1>10. ASSUME NEW j \in Jobs, Read(j) \/ ReadEnd(j)
       PROVE Balanced(counts', permit', holders')
  <2>1. /\ [holders EXCEPT ![j] = @ \cup {"reader"}] \in [Jobs -> SUBSET Owners]
        /\ Lose(j, "reader") \in [Jobs -> SUBSET Owners]
    BY <1>2 DEF Owners, Lose
  <2> QED BY <1>2, <1>4, <1>10, <2>1 DEF Read, ReadEnd, Lose
<1>11. ASSUME NEW p \in Projects, Unmount(p) PROVE Balanced(counts', permit', holders')
  <2>1. /\ Evict(Entries(p)) \in [Jobs -> SUBSET Owners]
        /\ \A k \in Jobs : Evict(Entries(p))[k] # {} => holders[k] # {}
    BY <1>2 DEF Evict
  <2> QED BY <2>1, <1>4, <1>11 DEF Unmount
<1>12. ASSUME NEW p \in Projects, Restore(p) PROVE Balanced(counts', permit', holders')
  <2>1. PICK j \in todo[p] : Restore(p)!(j)
    BY <1>12 DEF Restore
  <2>2. j \in Jobs
    BY <1>1 DEF TypeOK
  <2>3. holders[j] = {}
    BY <2>1, <2>2 DEF IInv, TodoInv, OwnerInv
  <2>4. "map" \in Owners
    BY DEF Owners
  <2>5. CASE CanAcquire(counts)
    <3>1. Balanced([counts EXCEPT !.retained = @ + 1],
                   [permit EXCEPT ![j] = "settled"], [holders EXCEPT ![j] = {"map"}])
      BY <1>2, <2>2, <2>3, <2>4, <2>5, AcquireBalanced
    <3> QED BY <2>1, <2>5, <3>1
  <2> QED BY <1>3, <2>1, <2>5
<1>13. CASE Crash
  <2>1. Actives(permit') = {} /\ Kept(permit') = {}
    BY <1>13 DEF Crash, Actives, Kept
  <2>2. Counted(counts', permit')
    BY <2>1, <1>13, FS_EmptySet DEF Crash, Counted
  <2>3. Matches(permit', holders')
    BY <1>13 DEF Crash, Matches
  <2> QED BY <1>13, <2>2, <2>3, LimitAssumption DEF Balanced, Crash
<1>14. ASSUME NEW j \in Jobs,
              Launch(j) \/ Exit(j) \/ MonitorStep(j) \/ SaveVerdict(j)
                 \/ Kill(j) \/ Retry(j)
       PROVE  UNCHANGED <<counts, permit, holders>>
  BY <1>14 DEF Launch, Exit, MonitorStep, Observe, LoseSight, CloseKernel,
     SaveVerdict, Kill, Retry, hostVars, entryVars
<1>15. ASSUME NEW p \in Projects,
              CloseBegin(p) \/ CloseEntry(p) \/ CloseEnd(p) \/ Mount(p)
                 \/ RecoverRow(p) \/ RecoverDone(p) \/ Ready(p)
       PROVE  UNCHANGED <<counts, permit, holders>>
  BY <1>15 DEF CloseBegin, CloseEntry, CloseEnd, Mount, RecoverRow, RecoverDone,
     Ready, entryVars
<1>16. ASSUME NEW j \in Jobs,
              StartStep(j) \/ Exit(j) \/ MonitorStep(j) \/ FinishStep(j) \/ UserStep(j)
       PROVE  Balanced(counts', permit', holders')
  BY <1>3, <1>5, <1>6, <1>7, <1>8, <1>9, <1>10, <1>14, <1>16
  DEF StartStep, FinishStep, UserStep
<1>17. ASSUME NEW p \in Projects, CloseStep(p) \/ MountStep(p)
       PROVE  Balanced(counts', permit', holders')
  BY <1>3, <1>11, <1>12, <1>15, <1>17 DEF CloseStep, MountStep
<1> QED BY <1>13, <1>16, <1>17 DEF Next

-----------------------------------------------------------------------------
(* The entries *)

EntryInv(k) == OwnerInv(k) /\ RecordInv(k) /\ RunInv(k)

(* An entry is not touched by a step that changes none of its fields, and  *)
(* not the admission lock its start may hold.                              *)
Fields(k) == <<records[k], run[k], step[k], holders[k], state[k], saveErr[k],
               cleanErr[k], finished[k], mount[ProjectOf[k]]>>
LEMMA Untouched ==
    ASSUME NEW k \in Jobs, EntryInv(k), Fields(k)' = Fields(k),
           "starter" \in holders[k] => admission'[ProjectOf[k]] = "start",
           doubted \subseteq doubted'
    PROVE  EntryInv(k)'
<1> USE DEF Fields
<1>1. OwnerInv(k)'
  BY DEF EntryInv, OwnerInv
<1>2. RecordInv(k)'
  BY DEF EntryInv, RecordInv, Registered
<1>3. RunInv(k)'
  BY DEF EntryInv, RunInv
<1> QED BY <1>1, <1>2, <1>3 DEF EntryInv

(* The types the steps below need.                                         *)
LEMMA Domains ==
    ASSUME TypeOK
    PROVE  /\ step \in [Jobs -> Steps] /\ holders \in [Jobs -> SUBSET Owners]
           /\ state \in [Jobs -> Verdicts \cup {"registered", "running"}]
           /\ records \in [Jobs -> Records]
           /\ run \in [Jobs -> {"none", "running", "zero", "nonzero", "killed", "lost"}]
           /\ saveErr \in [Jobs -> BOOLEAN] /\ cleanErr \in [Jobs -> BOOLEAN]
           /\ finished \in [Jobs -> BOOLEAN]
           /\ admission \in [Projects -> {"free", "start", "close"}]
           /\ mount \in [Projects -> {"down", "recovering", "restoring", "ready",
                                      "unavailable"}]
           /\ todo \in [Projects -> SUBSET Jobs] /\ doubted \subseteq Jobs
           /\ kernel \in [Jobs -> {"none", "open", "closed"}]
           /\ permit \in [Jobs -> {"none", "active", "settled"}]
           /\ dirty \in [Jobs -> BOOLEAN] /\ closed \in [Projects -> BOOLEAN]
           /\ ProjectOf \in [Jobs -> Projects]
BY TypeParts, ProjectAssumption DEF WorldType, HostType, OwnerType, ViewType, BoundType

(* An entry that may be evicted is done.                                   *)
LEMMA EvictableDone ==
    ASSUME NEW k \in Jobs, EntryInv(k), "map" \in holders[k], ~Unresolved(k)
    PROVE  step[k] = "done" /\ ~saveErr[k] /\ ~cleanErr[k] /\ run[k] # "running"
BY DEF EntryInv, OwnerInv, RunInv, Unresolved, Absent, Ending

(* Evicting entries that may be evicted keeps the others and them.         *)
LEMMA EvictEntries ==
    ASSUME TypeOK, NEW p \in Projects, NEW js \in SUBSET Evictable(p),
           NEW k \in Jobs, EntryInv(k), holders'[k] = Evict(js)[k],
           Fields(k)' = [Fields(k) EXCEPT ![4] = Evict(js)[k]],
           "starter" \in holders[k] => admission'[ProjectOf[k]] = "start",
           doubted \subseteq doubted'
    PROVE  EntryInv(k)'
<1>1. CASE k \notin js
  <2>1. Fields(k)' = Fields(k)
    BY <1>1 DEF Fields, Evict
  <2> QED BY <2>1, Untouched
<1>2. CASE k \in js
  <2>1. step[k] = "done" /\ ~saveErr[k] /\ run[k] # "running"
    BY <1>2, EvictableDone DEF Evictable, Entries
  <2>2. /\ step'[k] = step[k] /\ run'[k] = run[k] /\ records'[k] = records[k]
        /\ state'[k] = state[k] /\ saveErr'[k] = saveErr[k]
        /\ cleanErr'[k] = cleanErr[k] /\ finished'[k] = finished[k]
        /\ mount'[ProjectOf[k]] = mount[ProjectOf[k]]
        /\ holders'[k] = holders[k] \ {"map"}
    BY <1>2 DEF Fields, Evict
  <2>3. OwnerInv(k)'
    BY <2>1, <2>2 DEF EntryInv, OwnerInv, Absent, Starting, Watching, Ending
  <2>4. RecordInv(k)'
    BY <2>1, <2>2 DEF EntryInv, RecordInv, Registered
  <2>5. RunInv(k)'
    BY <2>1, <2>2 DEF RunInv
  <2> QED BY <2>3, <2>4, <2>5 DEF EntryInv
<1> QED BY <1>1, <1>2

(* Every entry is evictable that Prepare evicts.                           *)
LEMMA EvictedEvictable ==
    ASSUME NEW p \in Projects, NEW js \in Evicted(p)
    PROVE  js \in SUBSET Evictable(p)
<1>1. PICK base \in Evictions(p, Surplus(p)) :
         js \in IF CanAcquire(Without(Evict(base))) THEN {base}
                ELSE {base \cup more : more \in
                        IF Evictable(p) = base THEN {{}}
                        ELSE {{k} : k \in Evictable(p) \ base}}
  BY DEF Evicted
<1>2. base \in SUBSET Evictable(p)
  BY DEF Evictions
<1>3. CASE js = base
  BY <1>2, <1>3
<1>4. CASE js # base
  <2>1. PICK more \in IF Evictable(p) = base THEN {{}}
                      ELSE {{k} : k \in Evictable(p) \ base} : js = base \cup more
    BY <1>1, <1>4
  <2> QED BY <1>2, <2>1
<1> QED BY <1>3, <1>4

LEMMA PrepareEntries ==
    ASSUME TypeOK, \A k \in Jobs : EntryInv(k), NEW j \in Jobs, Prepare(j)
    PROVE  \A k \in Jobs : EntryInv(k)'
<1> DEFINE p == ProjectOf[j]
<1>a. p \in Projects
  BY ProjectAssumption
<1>1. /\ admission[p] = "free" /\ mount[p] = "ready" /\ step[j] = "new"
      /\ UNCHANGED <<records, run, mount, state, saveErr, cleanErr, finished, doubted>>
  BY DEF Prepare, worldVars, boundVars
<1>2. ASSUME NEW js \in SUBSET Evictable(p), Hold(Evict(js)), UNCHANGED <<step, admission>>,
             NEW k \in Jobs
      PROVE  EntryInv(k)'
  <2>1. "starter" \in holders[k] => admission'[ProjectOf[k]] = "start"
    BY <1>2 DEF EntryInv, OwnerInv
  <2>2. holders'[k] = Evict(js)[k]
    BY <1>2 DEF Hold
  <2>3. Fields(k)' = [Fields(k) EXCEPT ![4] = Evict(js)[k]]
    BY <1>1, <1>2, <2>2 DEF Fields
  <2> QED BY <1>1, <1>a, <1>2, <2>1, <2>2, <2>3, EvictEntries
<1>3. ASSUME NEW js \in SUBSET Evictable(p),
             holders' = [Evict(js) EXCEPT ![j] = {"starter"}],
             step' = [step EXCEPT ![j] = "prepared"],
             admission' = [admission EXCEPT ![p] = "start"],
             NEW k \in Jobs
      PROVE  EntryInv(k)'
  <2>1. CASE k # j
    <3>1. "starter" \in holders[k] => admission'[ProjectOf[k]] = "start"
      BY <1>3, <1>1, <1>a, Domains DEF EntryInv, OwnerInv
    <3>2. holders'[k] = Evict(js)[k]
      BY <1>3, <2>1 DEF Evict
    <3>3. Fields(k)' = [Fields(k) EXCEPT ![4] = Evict(js)[k]]
      BY <1>1, <1>3, <2>1, <3>2 DEF Fields
    <3> QED BY <1>1, <1>a, <1>3, <3>1, <3>2, <3>3, EvictEntries
  <2>2. CASE k = j
    <3>1. step'[j] = "prepared" /\ holders'[j] = {"starter"} /\ admission'[p] = "start"
      BY <1>3, <1>a, Domains DEF Evict
    <3>2. OwnerInv(j)'
      BY <1>1, <3>1 DEF EntryInv, OwnerInv, Absent, Starting, Watching, Ending
    <3>3. RecordInv(j)' /\ RunInv(j)'
      BY <1>1, <3>1 DEF EntryInv, RecordInv, RunInv, Registered
    <3> QED BY <2>2, <3>2, <3>3 DEF EntryInv
  <2> QED BY <2>1, <2>2
<1>4. Evictable(p) \in SUBSET Evictable(p) /\ \A js \in Evicted(p) : js \in SUBSET Evictable(p)
  BY <1>a, EvictedEvictable
<1>5. CASE Hold(Evict(Evictable(p))) /\ UNCHANGED <<step, admission>>
  BY <1>2, <1>4, <1>5
<1>6. ASSUME NEW js \in Evicted(p),
             IF CanAcquire(Without(Evict(js)))
             THEN /\ holders' = [Evict(js) EXCEPT ![j] = {"starter"}]
                  /\ step' = [step EXCEPT ![j] = "prepared"]
                  /\ admission' = [admission EXCEPT ![p] = "start"]
             ELSE Hold(Evict(js)) /\ UNCHANGED <<step, admission>>
      PROVE  \A k \in Jobs : EntryInv(k)'
  BY <1>2, <1>3, <1>4, <1>6
<1> QED BY <1>5, <1>6 DEF Prepare

(* A step on the entry of j leaves the others alone; it may give up the    *)
(* admission lock only if j holds it.                                      *)
LEMMA OthersKept ==
    ASSUME TypeOK, OneStarter, \A k \in Jobs : EntryInv(k), NEW j \in Jobs,
           \A k \in Jobs \ {j} : Fields(k)' = Fields(k),
           \/ admission' = admission
           \/ "starter" \in holders[j] /\ admission' = [admission EXCEPT ![ProjectOf[j]] = "free"],
           doubted \subseteq doubted', EntryInv(j)'
    PROVE  \A k \in Jobs : EntryInv(k)'
<1> SUFFICES ASSUME NEW k \in Jobs \ {j} PROVE EntryInv(k)'
  OBVIOUS
<1>1. "starter" \in holders[k] => admission[ProjectOf[k]] = "start"
  BY DEF EntryInv, OwnerInv
<1>2. CASE admission' = admission
  BY <1>1, <1>2, Untouched
<1>3. CASE "starter" \in holders[j] /\ admission' = [admission EXCEPT ![ProjectOf[j]] = "free"]
  <2>1. "starter" \in holders[k] => ProjectOf[k] # ProjectOf[j]
    BY <1>3 DEF OneStarter
  <2>2. "starter" \in holders[k] => admission'[ProjectOf[k]] = "start"
    BY <1>1, <1>3, <2>1, Domains
  <2> QED BY <2>2, Untouched
<1> QED BY <1>2, <1>3

(* Appending to a sequence of one.                                         *)
LEMMA AppendToOne ==
    ASSUME NEW e, NEW r
    PROVE  Append(<<e>>, r) = <<e, r>>
<1> DEFINE S == {e, r}
           s == Append(<<e>>, r)
<1>1. <<e>> \in Seq(S) /\ r \in S /\ <<e, r>> \in Seq(S)
  OBVIOUS
<1>2. /\ Len(<<e>>) = 1 /\ <<e>>[1] = e
      /\ Len(<<e, r>>) = 2 /\ <<e, r>>[1] = e /\ <<e, r>>[2] = r
  OBVIOUS
<1> HIDE DEF S
<1>3. /\ s \in Seq(S) /\ Len(s) = Len(<<e>>) + 1
      /\ \A i \in 1 .. Len(<<e>>) : s[i] = <<e>>[i]
      /\ s[Len(<<e>>) + 1] = r
  BY <1>1, AppendProperties
<1> HIDE DEF s
<1>4. Len(s) = 2 /\ s[1] = e /\ s[2] = r
  BY <1>2, <1>3
<1>5. \A i \in 1 .. Len(s) : s[i] = <<e, r>>[i]
  BY <1>2, <1>4
<1>6. s = <<e, r>>
  BY <1>1, <1>2, <1>3, <1>4, <1>5, SeqEqual
<1> QED BY <1>6 DEF s

(* What a commit on the records of j does to them.                         *)
LEMMA CommitRecords ==
    ASSUME TypeOK, NEW j \in Jobs, NEW r \in {"registered"} \cup Verdicts,
           Commit(j, r) \/ CommitFails(j, r)
    PROVE  /\ \A k \in Jobs \ {j} : records'[k] = records[k]
           /\ Commit(j, r) =>
                 /\ records[j] = <<>> => records'[j] = <<r>>
                 /\ \A e : records[j] = <<e>> /\ e # r => records'[j] = <<e, r>>
                 /\ \A e : records[j] = <<e, r>> => records'[j] = records[j]
           /\ CommitFails(j, r) =>
                 /\ records[j] = <<>> => records'[j] \in {<<>>, <<r>>}
                 /\ \A e : records[j] = <<e>> /\ e # r =>
                       records'[j] \in {<<e>>, <<e, r>>}
                 /\ \A e : records[j] = <<e, r>> => records'[j] = records[j]
<1> records \in [Jobs -> Records]
  BY Domains
<1>1. /\ \A k \in Jobs \ {j} : Added(j, r)[k] = records[k]
      /\ records[j] = <<>> => Added(j, r)[j] = <<r>>
      /\ \A e : records[j] = <<e>> /\ e # r => Added(j, r)[j] = <<e, r>>
      /\ \A e : records[j] = <<e, r>> => Added(j, r)[j] = records[j]
  <2>1. \A k \in Jobs \ {j} : Added(j, r)[k] = records[k]
    BY DEF Added
  <2>2. ASSUME records[j] = <<>> PROVE Added(j, r)[j] = <<r>>
    BY <2>2 DEF Added
  <2>3. ASSUME NEW e, records[j] = <<e>>, e # r PROVE Added(j, r)[j] = <<e, r>>
    <3>1. Append(<<e>>, r) = <<e, r>>
      BY AppendToOne
    <3>2. \A i \in DOMAIN <<e>> : <<e>>[i] = e
      OBVIOUS
    <3>3. ~ \E i \in DOMAIN records[j] : records[j][i] = r
      BY <2>3, <3>2
    <3> QED BY <2>3, <3>1, <3>3 DEF Added
  <2>4. ASSUME NEW e, records[j] = <<e, r>> PROVE Added(j, r)[j] = records[j]
    <3>1. 2 \in DOMAIN records[j] /\ records[j][2] = r
      BY <2>4
    <3> QED BY <3>1 DEF Added
  <2> QED BY <2>1, <2>2, <2>3, <2>4
<1> QED BY <1>1 DEF Commit, CommitFails

LEMMA RegisterEntries ==
    ASSUME TypeOK, OneStarter, \A k \in Jobs : EntryInv(k), NEW j \in Jobs, Register(j)
    PROVE  \A k \in Jobs : EntryInv(k)'
<1>1. /\ step[j] = "prepared" /\ holders[j] = {"starter"} /\ records[j] = <<>>
      /\ run[j] = "none" /\ ~finished[j] /\ ~saveErr[j]
      /\ admission[ProjectOf[j]] = "start"
      /\ mount[ProjectOf[j]] \in {"ready", "unavailable"}
  BY Domains DEF Register, EntryInv, OwnerInv, RecordInv, Absent
<1>2. UNCHANGED <<run, mount, state, saveErr, cleanErr, finished>>
  BY DEF Register
<1>3. \A k \in Jobs \ {j} : records'[k] = records[k]
  BY CommitRecords DEF Register
<1>4. CASE /\ Commit(j, "registered")
           /\ Hold([holders EXCEPT ![j] = @ \cup {"map"}])
           /\ step' = [step EXCEPT ![j] = "registered"]
           /\ UNCHANGED <<admission, doubted>>
  <2>1. /\ records'[j] = <<"registered">> /\ step'[j] = "registered"
        /\ holders'[j] = {"starter", "map"}
    BY <1>1, <1>4, CommitRecords, Domains DEF Hold
  <2>2. EntryInv(j)'
    BY <1>1, <1>2, <1>4, <2>1 DEF EntryInv, OwnerInv, RecordInv, RunInv, Registered,
       Absent, Starting, Watching, Ending
  <2>3. \A k \in Jobs \ {j} : Fields(k)' = Fields(k)
    BY <1>2, <1>3, <1>4 DEF Fields, Hold
  <2> QED BY <1>4, <2>2, <2>3, OthersKept
<1>5. CASE /\ CommitFails(j, "registered")
           /\ Hold(Lose(j, "starter"))
           /\ step' = [step EXCEPT ![j] = "refused"]
           /\ admission' = [admission EXCEPT ![ProjectOf[j]] = "free"]
           /\ doubted' = doubted \cup {j}
  <2>1. /\ records'[j] \in {<<>>, <<"registered">>} /\ step'[j] = "refused"
        /\ holders'[j] = {}
    BY <1>1, <1>5, CommitRecords, Domains DEF Hold, Lose
  <2>2. OwnerInv(j)' /\ RunInv(j)'
    BY <1>1, <1>2, <2>1 DEF OwnerInv, RunInv, Absent, Starting, Watching, Ending
  <2>3. RecordInv(j)'
    BY <1>1, <1>2, <1>5, <2>1 DEF RecordInv, Registered
  <2>4. \A k \in Jobs \ {j} : Fields(k)' = Fields(k)
    BY <1>2, <1>3, <1>5 DEF Fields, Hold, Lose
  <2> QED BY <1>1, <1>5, <2>2, <2>3, <2>4, OthersKept DEF EntryInv
<1> QED BY <1>4, <1>5 DEF Register

LEMMA LaunchEntries ==
    ASSUME TypeOK, OneStarter, \A k \in Jobs : EntryInv(k), NEW j \in Jobs, Launch(j)
    PROVE  \A k \in Jobs : EntryInv(k)'
<1>1. /\ step[j] = "registered" /\ {"map", "starter"} \subseteq holders[j]
      /\ records[j] = <<"registered">> /\ run[j] = "none" /\ ~finished[j] /\ ~saveErr[j]
  BY Domains DEF Launch, EntryInv, OwnerInv, RecordInv, Absent, Starting, Registered
<1>2. UNCHANGED <<records, mount, saveErr, cleanErr, finished, holders, admission,
                  doubted>>
  BY DEF Launch, hostVars
<1>3. \/ step'[j] = "spawn" /\ run'[j] = "running"
      \/ step'[j] = "save" /\ state'[j] = "not_started" /\ run'[j] = "none"
      \/ step'[j] = "save" /\ state'[j] = "interrupted" /\ run'[j] \in {"none", "lost"}
  BY <1>1, Domains DEF Launch, Ended
<1>4. OwnerInv(j)' /\ RunInv(j)'
  BY <1>1, <1>2, <1>3 DEF EntryInv, OwnerInv, RunInv, Absent, Starting, Watching, Ending
<1>5. RecordInv(j)'
  <2>1. step'[j] = "save" => state'[j] \in Ledger!Truthful(run'[j])
    BY <1>3, TruthfulVerdicts
  <2> QED BY <1>1, <1>2, <1>3, <2>1 DEF EntryInv, RecordInv, Registered
<1>6. \A k \in Jobs \ {j} : Fields(k)' = Fields(k)
  <2>1. \A k \in Jobs \ {j} : step'[k] = step[k] /\ state'[k] = state[k]
    BY Domains DEF Launch, Ended
  <2>2. \A k \in Jobs \ {j} : run'[k] = run[k]
    BY Domains DEF Launch
  <2> QED BY <1>2, <2>1, <2>2 DEF Fields
<1> QED BY <1>2, <1>4, <1>5, <1>6, OthersKept DEF EntryInv

(* Closing a process service stops the command or leaves it; only j's.     *)
LEMMA KernelEnds ==
    ASSUME TypeOK, NEW j \in Jobs, KernelCloses(j) \/ KernelCloseFails(j)
    PROVE  /\ \A k \in Jobs \ {j} : run'[k] = run[k]
           /\ run'[j] = run[j] \/ (run[j] = "running" /\ run'[j] = "killed")
           /\ KernelCloses(j) => run'[j] # "running"
           /\ \A v : v \in Ledger!Truthful(run[j]) => v \in Ledger!Truthful(run'[j])
<1>1. /\ \A k \in Jobs \ {j} : run'[k] = run[k]
      /\ run'[j] = run[j] \/ (run[j] = "running" /\ run'[j] = "killed")
      /\ KernelCloses(j) => run'[j] # "running"
  BY Domains DEF KernelCloses, KernelCloseFails, Stopped
<1> QED BY <1>1, TruthfulVerdicts

LEMMA SpawnEntries ==
    ASSUME TypeOK, OneStarter, \A k \in Jobs : EntryInv(k), NEW j \in Jobs, Spawn(j)
    PROVE  \A k \in Jobs : EntryInv(k)'
<1>1. /\ step[j] = "spawn" /\ {"map", "starter"} \subseteq holders[j]
      /\ records[j] = <<"registered">> /\ ~finished[j] /\ ~saveErr[j]
      /\ run[j] \in {"running", "zero", "nonzero", "killed"}
      /\ admission[ProjectOf[j]] = "start"
      /\ mount[ProjectOf[j]] \in {"ready", "unavailable"}
  BY Domains DEF Spawn, EntryInv, OwnerInv, RecordInv, Absent, Starting, Registered
<1>2. UNCHANGED <<records, mount, saveErr, finished, doubted>>
  BY DEF Spawn
<1>3. CASE /\ Hold([holders EXCEPT ![j] = (@ \ {"starter"}) \cup {"monitor"}])
           /\ step' = [step EXCEPT ![j] = "watch"]
           /\ admission' = [admission EXCEPT ![ProjectOf[j]] = "free"]
           /\ UNCHANGED <<run, dirty, kernel, cleanErr, cancel, state, faults>>
  <2>1. step'[j] = "watch" /\ holders'[j] = (holders[j] \ {"starter"}) \cup {"monitor"}
    BY <1>3, Domains DEF Hold
  <2>2. EntryInv(j)'
    BY <1>1, <1>2, <1>3, <2>1 DEF EntryInv, OwnerInv, RecordInv, RunInv, Registered,
       Absent, Starting, Watching, Ending
  <2>3. \A k \in Jobs \ {j} : Fields(k)' = Fields(k)
    BY <1>2, <1>3 DEF Fields, Hold
  <2> QED BY <1>1, <1>2, <1>3, <2>2, <2>3, OthersKept
<1>4. CASE /\ Ended(j, "interrupted")
           /\ \/ KernelCloses(j) /\ UNCHANGED cleanErr
              \/ KernelCloseFails(j) /\ cleanErr' = [cleanErr EXCEPT ![j] = TRUE]
           /\ UNCHANGED <<holders, admission>>
  <2>1. step'[j] = "save" /\ state'[j] = "interrupted"
    BY <1>4, Domains DEF Ended
  <2>2. run'[j] = "running" => cleanErr'[j]
    BY <1>4, KernelEnds, Domains
  <2>3. OwnerInv(j)' /\ RunInv(j)'
    BY <1>1, <1>2, <1>4, <2>1, <2>2
    DEF EntryInv, OwnerInv, RunInv, Absent, Starting, Watching, Ending
  <2>4. RecordInv(j)'
    BY <1>1, <1>2, <2>1, TruthfulVerdicts DEF RecordInv, Registered
  <2>5. \A k \in Jobs \ {j} : Fields(k)' = Fields(k)
    <3>1. \A k \in Jobs \ {j} : run'[k] = run[k]
      BY <1>4, KernelEnds
    <3>2. \A k \in Jobs \ {j} : cleanErr'[k] = cleanErr[k]
      BY <1>4, Domains
    <3> QED BY <1>2, <1>4, <3>1, <3>2 DEF Ended, Fields
  <2> QED BY <1>2, <1>4, <2>3, <2>4, <2>5, OthersKept DEF EntryInv
<1> QED BY <1>3, <1>4 DEF Spawn

LEMMA MonitorEntries ==
    ASSUME TypeOK, OneStarter, \A k \in Jobs : EntryInv(k), NEW j \in Jobs,
           Exit(j) \/ MonitorStep(j)
    PROVE  \A k \in Jobs : EntryInv(k)'
<1>1. UNCHANGED <<records, mount, holders, admission, finished, doubted, saveErr>>
  BY DEF Exit, MonitorStep, Observe, LoseSight, CloseKernel, worldVars, hostVars,
     entryVars, boundVars
<1>2. ASSUME EntryInv(j)', \A k \in Jobs \ {j} : Fields(k)' = Fields(k)
      PROVE  \A k \in Jobs : EntryInv(k)'
  BY <1>1, <1>2, OthersKept
<1>3. CASE Exit(j)
  <2>1. /\ run[j] = "running" /\ run'[j] \in {"zero", "nonzero", "killed"}
        /\ UNCHANGED <<step, state, cleanErr>>
    BY <1>3, Domains DEF Exit, entryVars
  <2>2. OwnerInv(j)' /\ RunInv(j)'
    BY <1>1, <2>1 DEF EntryInv, OwnerInv, RunInv
  <2>3. RecordInv(j)'
    <3>1. \A v : v \in Ledger!Truthful(run[j]) => v \in Ledger!Truthful(run'[j])
      BY <2>1, TruthfulVerdicts
    <3> QED BY <1>1, <2>1, <3>1 DEF EntryInv, RecordInv, Registered
  <2>4. \A k \in Jobs \ {j} : Fields(k)' = Fields(k)
    BY <1>1, <1>3, <2>1 DEF Exit, Fields
  <2> QED BY <1>2, <2>2, <2>3, <2>4 DEF EntryInv
<1>4. CASE Observe(j) \/ LoseSight(j)
  <2>1. /\ step[j] = "watch" /\ step'[j] = "closing"
        /\ UNCHANGED <<run, cleanErr>>
        /\ \/ run[j] # "running" /\ state'[j] = Observation(run[j])
           \/ state'[j] = "interrupted"
    BY <1>4, Domains DEF Observe, LoseSight, worldVars
  <2>2. OwnerInv(j)' /\ RunInv(j)'
    BY <1>1, <2>1
    DEF EntryInv, OwnerInv, RunInv, Absent, Starting, Watching, Ending
  <2>3. RecordInv(j)'
    <3>1. run[j] \in {"running", "zero", "nonzero", "killed"}
      BY <2>1 DEF EntryInv, RecordInv
    <3>2. state'[j] \in Ledger!Truthful(run'[j])
      BY <2>1, <3>1, TruthfulVerdicts
    <3> QED BY <1>1, <2>1, <3>2 DEF EntryInv, RecordInv, Registered
  <2>4. \A k \in Jobs \ {j} : step'[k] = step[k] /\ state'[k] = state[k]
    BY <1>4, Domains DEF Observe, LoseSight
  <2>5. \A k \in Jobs \ {j} : Fields(k)' = Fields(k)
    BY <1>1, <2>1, <2>4 DEF Fields
  <2> QED BY <1>2, <2>2, <2>3, <2>5 DEF EntryInv
<1>5. CASE CloseKernel(j)
  <2>1. step[j] = "closing" /\ step'[j] = "save" /\ UNCHANGED state
    BY <1>5, Domains DEF CloseKernel
  <2>2. /\ \A k \in Jobs \ {j} : run'[k] = run[k] /\ cleanErr'[k] = cleanErr[k]
        /\ run'[j] = "running" => cleanErr'[j]
        /\ \A v : v \in Ledger!Truthful(run[j]) => v \in Ledger!Truthful(run'[j])
    BY <1>5, KernelEnds, Domains DEF CloseKernel
  <2>3. OwnerInv(j)' /\ RunInv(j)'
    BY <1>1, <2>1, <2>2
    DEF EntryInv, OwnerInv, RunInv, Absent, Starting, Watching, Ending
  <2>4. RecordInv(j)'
    BY <1>1, <2>1, <2>2 DEF EntryInv, RecordInv, Registered
  <2>5. \A k \in Jobs \ {j} : Fields(k)' = Fields(k)
    BY <1>1, <1>5, <2>2 DEF CloseKernel, Fields
  <2> QED BY <1>2, <2>3, <2>4, <2>5 DEF EntryInv
<1> QED BY <1>3, <1>4, <1>5 DEF MonitorStep

LEMMA FinishEntries ==
    ASSUME TypeOK, OneStarter, \A k \in Jobs : EntryInv(k), NEW j \in Jobs, FinishStep(j)
    PROVE  \A k \in Jobs : EntryInv(k)'
<1>1. UNCHANGED <<run, state, mount, cleanErr, doubted>>
  BY DEF FinishStep, SaveVerdict, SettlePermit, Finish, worldVars, hostVars, boundVars
<1>2. CASE SaveVerdict(j)
  <2>1. /\ step[j] = "save" /\ step'[j] = "release" /\ records[j] = <<"registered">>
        /\ state[j] \in Ledger!Truthful(run[j]) /\ "map" \in holders[j]
        /\ UNCHANGED <<holders, admission, finished>>
    BY <1>2, Domains
    DEF SaveVerdict, EntryInv, OwnerInv, RecordInv, Registered, Ending, hostVars
  <2>2. state[j] \in Verdicts /\ state[j] # "registered"
    BY <2>1, TruthfulVerdicts DEF Verdicts
  <2>3. /\ \A k \in Jobs \ {j} : records'[k] = records[k] /\ saveErr'[k] = saveErr[k]
        /\ \/ records'[j] = <<"registered", state[j]>>
           \/ records'[j] = <<"registered">> /\ saveErr'[j]
    <3>1. CASE Commit(j, state[j]) /\ UNCHANGED saveErr
      BY <2>1, <2>2, <3>1, CommitRecords
    <3>2. CASE CommitFails(j, state[j]) /\ saveErr' = [saveErr EXCEPT ![j] = TRUE]
      <4>1. saveErr'[j] /\ \A k \in Jobs \ {j} : saveErr'[k] = saveErr[k]
        BY <3>2, Domains
      <4>2. /\ \A k \in Jobs \ {j} : records'[k] = records[k]
            /\ records'[j] \in {<<"registered">>, <<"registered", state[j]>>}
        BY <2>1, <2>2, <3>2, CommitRecords
      <4> QED BY <4>1, <4>2
    <3> QED BY <1>2, <3>1, <3>2 DEF SaveVerdict
  <2>4. OwnerInv(j)' /\ RunInv(j)'
    BY <1>1, <2>1 DEF EntryInv, OwnerInv, RunInv, Absent, Starting, Watching, Ending
  <2>5. RecordInv(j)'
    BY <1>1, <2>1, <2>2, <2>3 DEF EntryInv, RecordInv, Registered
  <2>6. \A k \in Jobs \ {j} : Fields(k)' = Fields(k)
    BY <1>1, <1>2, <2>1, <2>3 DEF SaveVerdict, Fields
  <2> QED BY <1>1, <2>1, <2>4, <2>5, <2>6, OthersKept DEF EntryInv
<1>3. CASE SettlePermit(j)
  <2>1. /\ step[j] = "release" /\ step'[j] = "finish"
        /\ UNCHANGED <<records, holders, admission, finished, saveErr>>
    BY <1>3, Domains DEF SettlePermit, worldVars
  <2>2. OwnerInv(j)' /\ RunInv(j)'
    BY <1>1, <2>1 DEF EntryInv, OwnerInv, RunInv, Absent, Starting, Watching, Ending
  <2>3. RecordInv(j)'
    BY <1>1, <2>1 DEF EntryInv, RecordInv, Registered
  <2>4. \A k \in Jobs \ {j} : Fields(k)' = Fields(k)
    BY <1>1, <1>3, <2>1 DEF SettlePermit, Fields
  <2> QED BY <1>1, <2>1, <2>2, <2>3, <2>4, OthersKept DEF EntryInv
<1>4. CASE Finish(j)
  <2>1. /\ step[j] = "finish" /\ step'[j] = "done" /\ finished'[j]
        /\ holders'[j] = holders[j] \ {"starter", "monitor"} /\ "map" \in holders[j]
        /\ mount[ProjectOf[j]] \in {"ready", "unavailable"}
        /\ UNCHANGED <<records, saveErr>>
    BY <1>4, Domains DEF Finish, Hold, EntryInv, OwnerInv, Absent, Ending, worldVars
  <2>2. OwnerInv(j)'
    BY <1>1, <2>1 DEF OwnerInv, Absent, Starting, Watching, Ending
  <2>3. RecordInv(j)' /\ RunInv(j)'
    BY <1>1, <2>1 DEF EntryInv, RecordInv, RunInv, Registered, Ending
  <2>4. \A k \in Jobs \ {j} : Fields(k)' = Fields(k)
    BY <1>1, <1>4, <2>1 DEF Finish, Hold, Fields
  <2> QED BY <1>1, <1>4, <2>2, <2>3, <2>4, OthersKept DEF EntryInv, Finish
<1> QED BY <1>2, <1>3, <1>4 DEF FinishStep

(* A retry on the entry of j, of the user or of a close.                   *)
LEMMA RetryEffect ==
    ASSUME TypeOK, NEW j \in Jobs, EntryInv(j), RetryEntry(j),
           UNCHANGED <<step, holders, state, finished>>,
           mount' = mount, admission' = admission, doubted' = doubted
    PROVE  EntryInv(j)' /\ \A k \in Jobs \ {j} : Fields(k)' = Fields(k)
<1>1. /\ \A k \in Jobs \ {j} : run'[k] = run[k]
      /\ run'[j] = run[j] \/ (run[j] = "running" /\ run'[j] = "killed")
      /\ \A v : v \in Ledger!Truthful(run[j]) => v \in Ledger!Truthful(run'[j])
      /\ run'[j] = "running" => cleanErr'[j] = cleanErr[j]
  <2>1. CASE KernelCloseFails(j) /\ UNCHANGED cleanErr
    BY <2>1, KernelEnds
  <2>2. CASE cleanErr[j] /\ KernelCloses(j)
    BY <2>2, KernelEnds
  <2>3. CASE ~cleanErr[j] /\ run' = run /\ cleanErr' = [cleanErr EXCEPT ![j] = FALSE]
    BY <2>3, Domains
  <2> QED BY <2>1, <2>2, <2>3 DEF RetryEntry
<1>2. saveErr[j] => /\ step[j] = "done" /\ state[j] \in Verdicts
                    /\ records[j] \in {<<"registered">>, <<"registered", state[j]>>}
  BY TruthfulVerdicts
  DEF RetryEntry, EntryInv, OwnerInv, RecordInv, Absent, Registered
<1>3. /\ \A k \in Jobs \ {j} : /\ records'[k] = records[k] /\ saveErr'[k] = saveErr[k]
                                /\ cleanErr'[k] = cleanErr[k]
      /\ \/ records'[j] = records[j] /\ saveErr'[j] = saveErr[j]
         \/ saveErr[j] /\ ~saveErr'[j] /\ records'[j] = <<"registered", state[j]>>
         \/ /\ saveErr[j] /\ saveErr'[j]
            /\ records'[j] \in {records[j], <<"registered", state[j]>>}
  <2>0. \A k \in Jobs \ {j} : cleanErr'[k] = cleanErr[k]
    BY Domains DEF RetryEntry
  <2>1. CASE UNCHANGED <<records, saveErr>>
    BY <2>0, <2>1
  <2>2. ASSUME saveErr[j] PROVE "registered" # state[j]
    BY <1>2, <2>2 DEF Verdicts
  <2>3. CASE /\ saveErr[j] /\ Commit(j, state[j])
             /\ saveErr' = [saveErr EXCEPT ![j] = FALSE]
    <3>1. ~saveErr'[j] /\ \A k \in Jobs \ {j} : saveErr'[k] = saveErr[k]
      BY <2>3, Domains
    <3>2. /\ \A k \in Jobs \ {j} : records'[k] = records[k]
          /\ records'[j] = <<"registered", state[j]>>
      BY <1>2, <2>2, <2>3, CommitRecords
    <3> QED BY <2>0, <2>3, <3>1, <3>2
  <2>4. CASE saveErr[j] /\ CommitFails(j, state[j]) /\ UNCHANGED saveErr
    <3>1. /\ \A k \in Jobs \ {j} : records'[k] = records[k]
          /\ records'[j] \in {records[j], <<"registered", state[j]>>}
      BY <1>2, <2>2, <2>4, CommitRecords
    <3> QED BY <2>0, <2>4, <3>1
  <2> QED BY <2>1, <2>3, <2>4 DEF RetryEntry
<1>4. OwnerInv(j)'
  BY DEF EntryInv, OwnerInv
<1>5. RunInv(j)'
  BY <1>1 DEF EntryInv, RunInv
<1>6. RecordInv(j)'
  <2>1. CASE records'[j] = records[j] /\ saveErr'[j] = saveErr[j]
    BY <1>1, <2>1 DEF EntryInv, RecordInv, Registered
  <2>2. CASE /\ saveErr[j] /\ records'[j] \in {records[j], <<"registered", state[j]>>}
             /\ saveErr'[j] \/ records'[j] = <<"registered", state[j]>>
    <3>1. /\ state'[j] \in Ledger!Truthful(run'[j]) /\ step'[j] = "done"
          /\ saveErr'[j] => "map" \in holders'[j]
          /\ state'[j] \in Verdicts
      BY <1>1, <1>2, <2>2 DEF EntryInv, RecordInv
    <3> QED BY <1>2, <2>2, <3>1 DEF RecordInv, Registered
  <2> QED BY <1>3, <2>1, <2>2
<1>7. \A k \in Jobs \ {j} : Fields(k)' = Fields(k)
  BY <1>1, <1>3 DEF Fields
<1> QED BY <1>4, <1>5, <1>6, <1>7 DEF EntryInv

LEMMA UserEntries ==
    ASSUME TypeOK, OneStarter, \A k \in Jobs : EntryInv(k), NEW j \in Jobs, UserStep(j)
    PROVE  \A k \in Jobs : EntryInv(k)'
<1>1. CASE Kill(j)
  <2>1. /\ \A k \in Jobs : Fields(k)' = Fields(k)
        /\ admission' = admission /\ doubted' = doubted
    BY <1>1 DEF Kill, worldVars, hostVars, boundVars, Fields
  <2> QED BY <2>1, Untouched DEF EntryInv, OwnerInv
<1>2. CASE Read(j) \/ ReadEnd(j)
  <2>1. /\ UNCHANGED <<records, run, step, state, saveErr, cleanErr, finished, mount,
                       admission, doubted>>
        /\ \A k \in Jobs \ {j} : holders'[k] = holders[k]
        /\ holders'[j] \ {"reader"} = holders[j] \ {"reader"}
        /\ "reader" \in holders[j] \/ "map" \in holders[j]
    BY <1>2, Domains DEF Read, ReadEnd, Hold, Lose, worldVars, boundVars
  <2>2. step[j] \notin Absent \cup {"prepared"}
    BY <2>1 DEF EntryInv, OwnerInv
  <2>3. \A o \in {"map", "starter", "monitor"} : o \in holders'[j] <=> o \in holders[j]
    BY <2>1
  <2>4. OwnerInv(j)'
    BY <2>1, <2>2, <2>3
    DEF EntryInv, OwnerInv, Absent, Starting, Watching, Ending
  <2>5. RecordInv(j)' /\ RunInv(j)'
    BY <2>1, <2>3 DEF EntryInv, RecordInv, RunInv, Registered
  <2>6. \A k \in Jobs \ {j} : Fields(k)' = Fields(k)
    BY <2>1 DEF Fields
  <2> QED BY <2>1, <2>4, <2>5, <2>6, OthersKept DEF EntryInv
<1>3. CASE Retry(j)
  <2>1. EntryInv(j)' /\ \A k \in Jobs \ {j} : Fields(k)' = Fields(k)
    BY <1>3, RetryEffect DEF Retry, hostVars
  <2> QED BY <1>3, <2>1, OthersKept DEF Retry, hostVars
<1> QED BY <1>1, <1>2, <1>3 DEF UserStep

LEMMA CloseEntries ==
    ASSUME TypeOK, OneStarter, \A k \in Jobs : EntryInv(k), PermitsBalance,
           NEW p \in Projects, CloseStep(p)
    PROVE  \A k \in Jobs : EntryInv(k)'
<1>1. CASE CloseBegin(p)
  <2> SUFFICES ASSUME NEW k \in Jobs PROVE EntryInv(k)'
    OBVIOUS
  <2>1. Fields(k)' = Fields(k) /\ doubted' = doubted
    BY <1>1 DEF CloseBegin, worldVars, boundVars, Fields
  <2>2. "starter" \in holders[k] => admission'[ProjectOf[k]] = "start"
    BY <1>1, Domains DEF CloseBegin, EntryInv, OwnerInv
  <2> QED BY <2>1, <2>2, Untouched
<1>2. CASE CloseEnd(p)
  <2> SUFFICES ASSUME NEW k \in Jobs PROVE EntryInv(k)'
    OBVIOUS
  <2>1. Fields(k)' = Fields(k) /\ doubted' = doubted
    BY <1>2 DEF CloseEnd, worldVars, entryVars, boundVars, Fields
  <2>2. "starter" \in holders[k] => admission'[ProjectOf[k]] = "start"
    BY <1>2, Domains DEF CloseEnd, EntryInv, OwnerInv
  <2> QED BY <2>1, <2>2, Untouched
<1>3. CASE CloseEntry(p)
  <2>1. PICK j \in todo[p] : CloseEntry(p)!(j)
    BY <1>3 DEF CloseEntry
  <2>2. j \in Jobs
    BY Domains
  <2>3. UNCHANGED <<mount, admission, step, holders, state, finished, doubted>>
    BY <2>1
  <2>4. CASE RetryEntry(j)
    <3>1. EntryInv(j)' /\ \A k \in Jobs \ {j} : Fields(k)' = Fields(k)
      BY <2>2, <2>3, <2>4, RetryEffect
    <3> QED BY <2>2, <2>3, <3>1, OthersKept
  <2>5. CASE NoFault /\ UNCHANGED <<worldVars, kernel, cleanErr, saveErr>>
    <3>1. \A k \in Jobs : Fields(k)' = Fields(k)
      BY <2>3, <2>5 DEF worldVars, Fields
    <3> QED BY <2>3, <3>1, Untouched DEF EntryInv, OwnerInv
  <2>6. CASE /\ Monitored(j) /\ (KernelCloses(j) \/ KernelCloseFails(j))
             /\ UNCHANGED <<records, cleanErr, saveErr>>
    <3>1. /\ \A k \in Jobs \ {j} : run'[k] = run[k]
          /\ run'[j] = run[j] \/ (run[j] = "running" /\ run'[j] = "killed")
          /\ \A v : v \in Ledger!Truthful(run[j]) => v \in Ledger!Truthful(run'[j])
      BY <2>2, <2>6, KernelEnds
    <3>2. OwnerInv(j)' /\ RunInv(j)'
      BY <2>2, <2>3, <2>6, <3>1 DEF EntryInv, OwnerInv, RunInv
    <3>3. RecordInv(j)'
      BY <2>2, <2>3, <2>6, <3>1 DEF EntryInv, RecordInv, Registered
    <3>4. \A k \in Jobs \ {j} : Fields(k)' = Fields(k)
      BY <2>3, <2>6, <3>1 DEF Fields
    <3> QED BY <2>2, <2>3, <3>2, <3>3, <3>4, OthersKept DEF EntryInv
  <2> QED BY <2>1, <2>4, <2>5, <2>6
<1>4. CASE Unmount(p)
  <2> SUFFICES ASSUME NEW k \in Jobs PROVE EntryInv(k)'
    OBVIOUS
  <2>1. /\ mount[p] = "ready" /\ mount' = [mount EXCEPT ![p] = "down"]
        /\ holders' = Evict(Entries(p))
        /\ step'[k] = IF ProjectOf[k] = p /\ step[k] = "done" THEN "gone" ELSE step[k]
        /\ UNCHANGED <<records, run, state, saveErr, cleanErr, finished, doubted, admission>>
    BY <1>4 DEF Unmount, Hold, worldVars, boundVars
  <2>2. CASE ProjectOf[k] # p
    <3>1. Fields(k)' = Fields(k)
      BY <2>1, <2>2, Domains DEF Fields, Evict, Entries, JobsOf
    <3> QED BY <2>1, <3>1, Untouched DEF EntryInv, OwnerInv
  <2>3. CASE ProjectOf[k] = p
    <3>1. "map" \in holders[k] => ~Unresolved(k)
      BY <1>4, <2>3 DEF Unmount, HasActive, Entries, JobsOf
    <3>2. "reader" \notin holders[k] /\ admission[p] = "free"
      BY <1>4, <2>3 DEF Unmount, JobsOf
    <3>3. step[k] \in Absent \cup {"done"}
      <4>1. "starter" \notin holders[k]
        BY <2>3, <3>2 DEF EntryInv, OwnerInv
      <4>2. CASE "map" \in holders[k]
        BY <3>1, <4>2, EvictableDone
      <4>3. CASE "map" \notin holders[k]
        BY <4>1, <4>3, Domains
        DEF EntryInv, OwnerInv, Steps, Absent, Starting, Watching, Ending
      <4> QED BY <4>2, <4>3
    <3>4. step'[k] \in Absent /\ holders'[k] = {} /\ (step[k] = "new" <=> step'[k] = "new")
          /\ (step[k] = "refused" <=> step'[k] = "refused")
      <4>1. holders[k] \subseteq {"map"}
        BY <3>2, <3>3, Domains DEF EntryInv, OwnerInv, Owners
      <4>2. holders'[k] = {}
        BY <2>1, <2>3, <4>1 DEF Evict, Entries, JobsOf
      <4> QED BY <2>1, <2>3, <3>3, <4>2 DEF Absent
    <3>5. ~saveErr[k] /\ run[k] # "running"
      BY <3>1, EvictableDone DEF EntryInv, RecordInv, RunInv
    <3>6. mount'[ProjectOf[k]] = "down"
      BY <2>1, <2>3, Domains
    <3>7. OwnerInv(k)' /\ RunInv(k)'
      BY <2>1, <3>4, <3>5, <3>6
      DEF EntryInv, OwnerInv, RunInv, Absent, Starting, Watching, Ending
    <3>8. RecordInv(k)'
      BY <2>1, <3>4, <3>5, <3>6 DEF EntryInv, RecordInv, Registered, Absent
    <3> QED BY <3>7, <3>8 DEF EntryInv
  <2> QED BY <2>2, <2>3
<1> QED BY <1>1, <1>2, <1>3, <1>4 DEF CloseStep

(* While a project is not served, no entry of it is in use.                *)
LEMMA NoEntries ==
    ASSUME NEW k \in Jobs, EntryInv(k), step \in [Jobs -> Steps],
           mount[ProjectOf[k]] \in {"down", "recovering"}
    PROVE  step[k] \in Absent /\ holders[k] = {} /\ ~saveErr[k] /\ run[k] # "running"
<1>1. step[k] \in Absent /\ holders[k] = {}
  BY DEF EntryInv, OwnerInv, Steps, Absent
<1> QED BY <1>1 DEF EntryInv, RecordInv, RunInv, Absent

LEMMA MountEntries ==
    ASSUME TypeOK, \A k \in Jobs : EntryInv(k), NEW p \in Projects, TodoInv(p),
           MountStep(p)
    PROVE  \A k \in Jobs : EntryInv(k)'
<1> SUFFICES ASSUME NEW k \in Jobs PROVE EntryInv(k)'
  OBVIOUS
<1>a. ProjectOf[k] \in Projects
  BY Domains
<1>1. CASE Mount(p) \/ RecoverDone(p) \/ Ready(p)
  <2>1. /\ UNCHANGED <<records, run, step, holders, state, saveErr, cleanErr, finished,
                       admission, doubted>>
        /\ \A q \in Projects \ {p} : mount'[q] = mount[q]
    BY <1>1, Domains DEF Mount, RecoverDone, Ready, worldVars, entryVars, boundVars
  <2>2. CASE ProjectOf[k] # p
    <3>1. Fields(k)' = Fields(k)
      BY <1>a, <2>1, <2>2 DEF Fields
    <3> QED BY <2>1, <3>1, Untouched DEF EntryInv, OwnerInv
  <2>3. CASE ProjectOf[k] = p /\ (Mount(p) \/ RecoverDone(p))
    <3>1. /\ step[k] \in Absent /\ holders[k] = {} /\ ~saveErr[k] /\ run[k] # "running"
      BY <2>3, NoEntries, Domains DEF Mount, RecoverDone
    <3>2. Registered(k) => mount'[p] = "recovering"
      <4>1. CASE Mount(p)
        BY <4>1, Domains DEF Mount
      <4>2. CASE RecoverDone(p)
        <5>1. ASSUME Registered(k) PROVE k \in Unfinished(p)
          <6>1. Len(records[k]) = 1
            BY <5>1 DEF Registered
          <6>2. Recorded(k) /\ ~Settled(k)
            BY <6>1 DEF Recorded, Settled
          <6> QED BY <2>3, <6>2, Zenon DEF Unfinished, JobsOf
        <5>2. Unfinished(p) = {}
          BY <4>2 DEF RecoverDone
        <5> QED BY <5>1, <5>2
      <4> QED BY <2>3, <4>1, <4>2
    <3>3. OwnerInv(k)' /\ RunInv(k)'
      BY <2>1, <3>1 DEF EntryInv, OwnerInv, RunInv, Absent, Starting, Watching, Ending
    <3>4. RecordInv(k)'
      BY <2>1, <2>3, <3>1, <3>2 DEF EntryInv, RecordInv, Registered, Absent
    <3> QED BY <3>3, <3>4 DEF EntryInv
  <2>4. CASE ProjectOf[k] = p /\ Ready(p)
    <3>1. mount[p] = "restoring" /\ mount'[p] = "ready"
      BY <2>4, Domains DEF Ready
    <3>2. OwnerInv(k)' /\ RunInv(k)'
      BY <2>1, <2>4, <3>1 DEF EntryInv, OwnerInv, RunInv
    <3>3. RecordInv(k)'
      BY <2>1, <2>4, <3>1 DEF EntryInv, RecordInv, Registered
    <3> QED BY <3>2, <3>3 DEF EntryInv
  <2> QED BY <1>1, <2>2, <2>3, <2>4
<1>2. CASE RecoverRow(p)
  <2>1. PICK j \in Unfinished(p) : RecoverRow(p)!(j)
    BY <1>2 DEF RecoverRow
  <2>2. j \in Jobs /\ ProjectOf[j] = p /\ records[j] = <<"registered">>
    BY DEF Unfinished, JobsOf, Recorded, Settled, EntryInv, RecordInv
  <2>3. /\ mount[p] = "recovering" /\ mount'[p] \in {"recovering", "unavailable"}
        /\ \A q \in Projects \ {p} : mount'[q] = mount[q]
        /\ UNCHANGED <<run, step, holders, state, saveErr, cleanErr, finished, admission,
                       doubted>>
    BY <2>1, Domains DEF entryVars
  <2>4. "restarted" \in Verdicts /\ "restarted" # "registered"
    BY DEF Verdicts
  <2>5. /\ \A i \in Jobs \ {j} : records'[i] = records[i]
        /\ records'[j] \in {<<"registered">>, <<"registered", "restarted">>}
    <3>1. CASE Commit(j, "restarted")
      BY <2>2, <2>4, <3>1, CommitRecords
    <3>2. CASE CommitFails(j, "restarted")
      BY <2>2, <2>4, <3>2, CommitRecords
    <3> QED BY <2>1, <3>1, <3>2
  <2>6. CASE ProjectOf[k] # p
    <3>1. Fields(k)' = Fields(k)
      BY <1>a, <2>2, <2>3, <2>5, <2>6 DEF Fields
    <3> QED BY <2>3, <3>1, Untouched DEF EntryInv, OwnerInv
  <2>7. CASE ProjectOf[k] = p
    <3>1. /\ step[k] \in Absent /\ holders[k] = {} /\ ~saveErr[k] /\ run[k] # "running"
      BY <2>3, <2>7, NoEntries, Domains
    <3>2. OwnerInv(k)' /\ RunInv(k)'
      BY <2>3, <3>1 DEF EntryInv, OwnerInv, RunInv, Absent, Starting, Watching, Ending
    <3>3. CASE k = j
      <4>1. step[j] # "new"
        BY <2>2, <2>7 DEF EntryInv, RecordInv
      <4> QED BY <2>2, <2>3, <2>4, <2>5, <3>1, <3>2, <3>3, <4>1
          DEF EntryInv, RecordInv, Registered, Absent
    <3>4. CASE k # j
      BY <2>3, <2>5, <2>7, <3>1, <3>2, <3>4 DEF EntryInv, RecordInv, Registered, Absent
    <3> QED BY <3>3, <3>4
  <2> QED BY <2>6, <2>7
<1>3. CASE Restore(p)
  <2>1. PICK j \in todo[p] : Restore(p)!(j)
    BY <1>3 DEF Restore
  <2>2. /\ j \in Jobs /\ ProjectOf[j] = p /\ Settled(j) /\ step[j] \in Absent
        /\ mount[p] = "restoring"
    BY <2>1, Domains DEF TodoInv
  <2>3. UNCHANGED <<records, run, mount, admission, saveErr, cleanErr, doubted>>
    BY <2>1 DEF worldVars, boundVars
  <2>4. CASE k # j \/ ~CanAcquire(counts)
    <3>1. /\ holders'[k] = holders[k] /\ step'[k] = step[k]
          /\ finished'[k] = finished[k] /\ state'[k] = state[k]
      BY <2>1, <2>2, <2>4, Domains
    <3>2. Fields(k)' = Fields(k)
      BY <2>3, <3>1 DEF Fields
    <3> QED BY <2>3, <3>2, Untouched DEF EntryInv, OwnerInv
  <2>5. CASE k = j /\ CanAcquire(counts)
    <3>1. /\ holders'[j] = {"map"} /\ step'[j] = "done" /\ finished'[j]
          /\ state'[j] = records[j][2]
      BY <2>1, <2>2, <2>5, Domains
    <3>2. ~saveErr[j] /\ run[j] # "running"
      BY <2>2 DEF EntryInv, RecordInv, RunInv, OwnerInv, Absent
    <3>3. records[j] = <<"registered", state'[j]>> /\ state'[j] \in Verdicts
      BY <2>2, <3>1 DEF Settled, EntryInv, RecordInv
    <3>4. OwnerInv(j)' /\ RunInv(j)'
      BY <2>2, <2>3, <3>1, <3>2 DEF OwnerInv, RunInv, Absent, Starting, Watching, Ending
    <3>5. RecordInv(j)'
      BY <2>2, <2>3, <3>1, <3>2, <3>3 DEF RecordInv, Registered
    <3> QED BY <2>5, <3>4, <3>5 DEF EntryInv
  <2> QED BY <2>4, <2>5
<1> QED BY <1>1, <1>2, <1>3 DEF MountStep

LEMMA CrashEntries ==
    ASSUME TypeOK, \A k \in Jobs : EntryInv(k), Crash
    PROVE  \A k \in Jobs : EntryInv(k)'
<1> SUFFICES ASSUME NEW k \in Jobs PROVE EntryInv(k)'
  OBVIOUS
<1>1. /\ step'[k] = IF step[k] \in {"new", "refused"} THEN step[k] ELSE "gone"
      /\ holders'[k] = {} /\ ~saveErr'[k] /\ ~finished'[k] /\ run'[k] # "running"
      /\ run[k] = "none" => run'[k] = "none"
      /\ mount'[ProjectOf[k]] = "down" /\ records' = records /\ doubted' = doubted
  BY Domains DEF Crash
<1>2. OwnerInv(k)' /\ RunInv(k)'
  BY <1>1 DEF OwnerInv, RunInv, Absent, Starting, Watching, Ending
<1>3. RecordInv(k)'
  BY <1>1 DEF EntryInv, RecordInv, Registered
<1> QED BY <1>2, <1>3 DEF EntryInv

-----------------------------------------------------------------------------
(* The starters and the rows to restore *)

(* Only Prepare makes a starter, and only when the lock is free.           *)
LEMMA StarterStep ==
    ASSUME IInv, Next, \A k \in Jobs : EntryInv(k)'
    PROVE  OneStarter'
<1> DEFINE Starts(j) == "starter" \in holders[j]
<1>1. TypeOK /\ OneStarter /\ \A k \in Jobs : OwnerInv(k)
  BY DEF IInv
<1>2. CASE \A k \in Jobs : "starter" \in holders'[k] => "starter" \in holders[k]
  BY <1>1, <1>2 DEF OneStarter
<1>3. ASSUME NEW j \in Jobs, Prepare(j) PROVE OneStarter'
  <2>1. admission[ProjectOf[j]] = "free" /\ ProjectOf[j] \in Projects
    BY <1>1, <1>3, Domains DEF Prepare
  <2>2. \A k \in Jobs : ProjectOf[k] = ProjectOf[j] => "starter" \notin holders[k]
    BY <1>1, <2>1 DEF OwnerInv
  <2>3. \A k \in Jobs \ {j} : holders'[k] \subseteq holders[k]
    <3>1. ASSUME NEW js PROVE \A k \in Jobs : Evict(js)[k] \subseteq holders[k]
      BY DEF Evict
    <3>2. ASSUME NEW js, holders' = [Evict(js) EXCEPT ![j] = {"starter"}]
          PROVE  \A k \in Jobs \ {j} : holders'[k] = Evict(js)[k]
      BY <3>2 DEF Evict
    <3>3. \/ \E js : holders' = Evict(js)
          \/ \E js : holders' = [Evict(js) EXCEPT ![j] = {"starter"}]
      <4>1. CASE Hold(Evict(Evictable(ProjectOf[j])))
        BY <4>1 DEF Hold
      <4>2. ASSUME NEW js,
                   \/ Hold(Evict(js))
                   \/ holders' = [Evict(js) EXCEPT ![j] = {"starter"}]
            PROVE  \/ holders' = Evict(js)
                   \/ holders' = [Evict(js) EXCEPT ![j] = {"starter"}]
        BY <4>2 DEF Hold
      <4> QED BY <1>3, <4>1, <4>2 DEF Prepare
    <3> QED BY <3>1, <3>2, <3>3
  <2> QED BY <1>1, <2>2, <2>3 DEF OneStarter
<1>4. ASSUME NEW j \in Jobs,
             Register(j) \/ Launch(j) \/ Spawn(j) \/ Exit(j) \/ MonitorStep(j)
                \/ FinishStep(j) \/ UserStep(j)
      PROVE  \A k \in Jobs : "starter" \in holders'[k] => "starter" \in holders[k]
  <2>1. CASE Register(j)
    BY <2>1, <1>1, Domains DEF Register, Hold, Lose
  <2>2. CASE Spawn(j)
    BY <2>2, <1>1, Domains DEF Spawn, Hold
  <2>3. CASE FinishStep(j)
    BY <2>3, <1>1, Domains DEF FinishStep, SaveVerdict, SettlePermit, Finish, Hold
  <2>4. CASE UserStep(j)
    BY <2>4, <1>1, Domains DEF UserStep, Kill, Read, ReadEnd, Retry, Hold, Lose
  <2>5. CASE Launch(j) \/ Exit(j) \/ MonitorStep(j)
    BY <2>5 DEF Launch, Exit, MonitorStep, Observe, LoseSight, CloseKernel, entryVars
  <2> QED BY <1>4, <2>1, <2>2, <2>3, <2>4, <2>5
<1>5. ASSUME NEW p \in Projects, CloseStep(p) \/ MountStep(p)
      PROVE  \A k \in Jobs : "starter" \in holders'[k] => "starter" \in holders[k]
  <2>1. CASE Unmount(p)
    BY <2>1 DEF Unmount, Hold, Evict
  <2>2. CASE Restore(p)
    BY <2>2, <1>1, Domains DEF Restore
  <2>3. CASE CloseBegin(p) \/ CloseEntry(p) \/ CloseEnd(p) \/ Mount(p)
                \/ RecoverRow(p) \/ RecoverDone(p) \/ Ready(p)
    BY <2>3 DEF CloseBegin, CloseEntry, CloseEnd, Mount, RecoverRow, RecoverDone,
       Ready, entryVars
  <2> QED BY <1>5, <2>1, <2>2, <2>3 DEF CloseStep, MountStep
<1>6. CASE Crash
  BY <1>6 DEF Crash, OneStarter
<1> QED BY <1>2, <1>3, <1>4, <1>5, <1>6 DEF Next, StartStep

(* The rows still to restore are settled, and nobody uses them.            *)
LEMMA TodoStep ==
    ASSUME IInv, Next, \A k \in Jobs : EntryInv(k)', NEW p \in Projects
    PROVE  TodoInv(p)'
<1>1. /\ TypeOK /\ TodoInv(p)
      /\ \A k \in Jobs : EntryInv(k)
  BY DEF IInv, EntryInv
<1> SUFFICES ASSUME mount'[p] = "restoring", NEW k \in todo'[p]
             PROVE  ProjectOf[k] = p /\ Settled(k)' /\ step'[k] \in Absent
  BY DEF TodoInv
<1>2. CASE /\ mount[p] = "restoring" /\ k \in todo[p] /\ records'[k] = records[k]
           /\ step'[k] = step[k]
  BY <1>1, <1>2 DEF TodoInv, Settled
<1>3. ASSUME NEW j \in Jobs,
             StartStep(j) \/ Exit(j) \/ MonitorStep(j) \/ FinishStep(j) \/ UserStep(j)
      PROVE  ProjectOf[k] = p /\ Settled(k)' /\ step'[k] \in Absent
  <2>1. mount' = mount /\ todo' = todo
    BY <1>3 DEF StartStep, Prepare, Register, Launch, Spawn, Exit, MonitorStep, Observe,
       LoseSight, CloseKernel, FinishStep, SaveVerdict, SettlePermit, Finish, UserStep,
       Kill, Read, ReadEnd, Retry, hostVars
  <2>2. k \in Jobs /\ ProjectOf[k] = p /\ Settled(k) /\ step[k] \in Absent
    BY <1>1, <2>1, Domains DEF TodoInv
  <2>3. CASE k = j
    <3>1. holders[j] = {} /\ run[j] # "running" /\ mount[ProjectOf[j]] # "ready"
      BY <1>1, <2>1, <2>2, <2>3 DEF EntryInv, OwnerInv, RunInv
    <3> QED BY <1>3, <2>2, <2>3, <3>1
        DEF StartStep, Prepare, Register, Launch, Spawn, Exit, MonitorStep, Observe,
            LoseSight, CloseKernel, FinishStep, SaveVerdict, SettlePermit, Finish,
            UserStep, Kill, Read, ReadEnd, Retry, Absent
  <2>4. CASE k # j
    <3>1. step'[k] = step[k]
      BY <1>1, <1>3, <2>2, <2>4, Domains
      DEF StartStep, Prepare, Register, Launch, Spawn, Ended, Exit, MonitorStep, Observe,
          LoseSight, CloseKernel, FinishStep, SaveVerdict, SettlePermit, Finish,
          UserStep, Kill, Read, ReadEnd, Retry, entryVars
    <3>2. records'[k] = records[k]
      BY <1>1, <1>3, <2>2, <2>4, Domains
      DEF StartStep, Prepare, Register, Launch, Spawn, Exit, MonitorStep, Observe,
          LoseSight, CloseKernel, FinishStep, SaveVerdict, SettlePermit, Finish,
          UserStep, Kill, Read, ReadEnd, Retry, RetryEntry, Commit, CommitFails, Added,
          worldVars
    <3> QED BY <2>2, <3>1, <3>2 DEF Settled
  <2> QED BY <2>3, <2>4
<1>4. ASSUME NEW q \in Projects, CloseStep(q)
      PROVE  ProjectOf[k] = p /\ Settled(k)' /\ step'[k] \in Absent
  <2>1. mount'[p] = mount[p] /\ todo'[p] \subseteq todo[p]
    <3>1. CASE CloseBegin(q)
      BY <3>1, <1>1, Domains DEF CloseBegin
    <3>2. CASE CloseEntry(q)
      BY <3>2, <1>1, Domains DEF CloseEntry
    <3>3. CASE CloseEnd(q)
      BY <3>3 DEF CloseEnd
    <3>4. CASE Unmount(q)
      BY <3>4, <1>1, Domains DEF Unmount
    <3> QED BY <1>4, <3>1, <3>2, <3>3, <3>4 DEF CloseStep
  <2>2. k \in Jobs /\ ProjectOf[k] = p /\ Settled(k) /\ step[k] \in Absent
    BY <1>1, <2>1, Domains DEF TodoInv
  <2>3. ~saveErr[k]
    BY <1>1, <2>2 DEF EntryInv, RecordInv, Absent
  <2>4. records'[k] = records[k]
    <3>1. CASE CloseEntry(q)
      <4>1. PICK j \in todo[q] : CloseEntry(q)!(j)
        BY <3>1 DEF CloseEntry
      <4>2. j \in Jobs
        BY <1>1, Domains
      <4>3. CASE RetryEntry(j)
        <5>1. CASE records' = records
          BY <5>1
        <5>2. CASE j # k /\ (Commit(j, state[j]) \/ CommitFails(j, state[j]))
          BY <2>2, <4>2, <5>2, <1>1, Domains DEF Commit, CommitFails, Added
        <5> QED BY <2>3, <4>3, <5>1, <5>2 DEF RetryEntry
      <4> QED BY <4>1, <4>3 DEF worldVars
    <3>2. CASE ~CloseEntry(q)
      BY <1>4, <3>2 DEF CloseStep, CloseBegin, CloseEnd, Unmount, worldVars
    <3> QED BY <3>1, <3>2
  <2>5. step'[k] = step[k]
    BY <1>4, <2>2 DEF CloseStep, CloseBegin, CloseEntry, CloseEnd, Unmount, entryVars,
       Absent
  <2> QED BY <2>2, <2>4, <2>5 DEF Settled
<1>5. ASSUME NEW q \in Projects, MountStep(q)
      PROVE  ProjectOf[k] = p /\ Settled(k)' /\ step'[k] \in Absent
  <2>1. CASE Mount(q) \/ Ready(q)
    <3>1. mount'[p] = mount[p] /\ UNCHANGED <<todo, records, step>>
      BY <2>1, <1>1, Domains DEF Mount, Ready, worldVars, entryVars
    <3> QED BY <1>2, <3>1
  <2>2. CASE RecoverRow(q)
    <3>1. PICK j \in Unfinished(q) : RecoverRow(q)!(j)
      BY <2>2 DEF RecoverRow
    <3>2. mount'[p] = mount[p] /\ UNCHANGED <<todo, step>>
      BY <3>1, <1>1, Domains DEF entryVars
    <3>3. k \in Jobs /\ Settled(k)
      BY <1>1, <3>2, Domains DEF TodoInv
    <3>4. k # j /\ j \in Jobs
      BY <3>3 DEF Unfinished, JobsOf
    <3>5. records'[k] = records[k]
      BY <3>1, <3>3, <3>4, <1>1, Domains DEF Commit, CommitFails, Added
    <3> QED BY <1>2, <3>2, <3>5
  <2>3. CASE RecoverDone(q)
    <3>1. CASE p = q
      <4>1. k \in JobsOf(p) /\ Settled(k) /\ mount[p] = "recovering"
        BY <2>3, <3>1, <1>1, Domains DEF RecoverDone
      <4>2. k \in Jobs /\ ProjectOf[k] = p
        BY <4>1 DEF JobsOf
      <4>3. step[k] \in Absent
        BY <1>1, <4>1, <4>2, NoEntries, Domains
      <4> QED BY <2>3, <4>1, <4>2, <4>3 DEF RecoverDone, worldVars, entryVars, Settled
    <3>2. CASE p # q
      <4>1. /\ mount'[p] = mount[p] /\ todo'[p] = todo[p]
            /\ UNCHANGED <<records, step>>
        BY <2>3, <3>2, <1>1, Domains DEF RecoverDone, worldVars, entryVars
      <4> QED BY <1>2, <4>1
    <3> QED BY <3>1, <3>2
  <2>4. CASE Restore(q)
    <3>1. PICK j \in todo[q] : Restore(q)!(j)
      BY <2>4 DEF Restore
    <3>2. /\ mount' = mount /\ records' = records /\ k \in todo[p]
          /\ p = q => k # j
      BY <3>1, <1>1, Domains DEF worldVars
    <3>3. k \in Jobs /\ ProjectOf[k] = p /\ ProjectOf[j] = q
      BY <1>1, <3>1, <3>2, Domains DEF IInv, TodoInv
    <3>4. step'[k] = step[k]
      BY <3>1, <3>2, <3>3, <1>1, Domains
    <3> QED BY <1>2, <3>2, <3>4
  <2> QED BY <1>5, <2>1, <2>2, <2>3, <2>4 DEF MountStep
<1>6. ~Crash
  BY <1>1, Domains DEF Crash
<1> QED BY <1>3, <1>4, <1>5, <1>6 DEF Next

-----------------------------------------------------------------------------
(* The theorems *)

LEMMA InvInit == Init => IInv
<1> SUFFICES ASSUME Init PROVE IInv
  OBVIOUS
<1>1. TypeOK
  BY LimitAssumption DEF Init, TypeOK, Idle
<1>2. PermitsBalance
  <2>1. /\ {j \in Jobs : permit[j] = "active"} = {}
        /\ {j \in Jobs : permit[j] # "none"} = {}
    BY DEF Init
  <2>2. counts.active = 0 /\ counts.retained = 0
    BY DEF Init
  <2>3. \A j \in Jobs : permit[j] = "none" /\ holders[j] = {}
    BY DEF Init
  <2>4. Cardinality({}) = 0
    BY FS_EmptySet
  <2>5. 0 <= MaxActive /\ 0 <= MaxRetained
    BY LimitAssumption
  <2> QED BY <2>1, <2>2, <2>3, <2>4, <2>5 DEF PermitsBalance
<1>3. OneStarter
  BY DEF Init, OneStarter
<1>4. ASSUME NEW j \in Jobs PROVE OwnerInv(j) /\ RecordInv(j) /\ RunInv(j)
  BY DEF Init, OwnerInv, RecordInv, RunInv, Registered, Absent, Starting, Watching,
     Ending
<1>5. ASSUME NEW p \in Projects PROVE TodoInv(p)
  BY DEF Init, TodoInv
<1> QED BY <1>1, <1>2, <1>3, <1>4, <1>5 DEF IInv

LEMMA InvStep == IInv /\ [Next]_vars => IInv'
<1>1. ASSUME IInv, Next PROVE IInv'
  <2>1. /\ TypeOK /\ PermitsBalance /\ OneStarter
        /\ \A k \in Jobs : EntryInv(k) /\ RecordInv(k)
        /\ \A p \in Projects : TodoInv(p)
    BY <1>1 DEF IInv, EntryInv
  <2>2. PermitsBalance' /\ (counts \in [active : Nat, retained : Nat])'
    BY <1>1, BalanceStep, BalancedNext
  <2>3. WorldType' /\ HostType' /\ OwnerType' /\ ViewType' /\ BoundType'
    BY <1>1, <2>1, StartTypes, MonitorTypes, UserTypes, CloseTypes, MountTypes,
       CrashTypes DEF Next
  <2>4. TypeOK'
    BY <2>2, <2>3 DEF TypeOK, WorldType, HostType, OwnerType, ViewType, BoundType,
       Steps, Idle, Records
  <2>5. \A k \in Jobs : EntryInv(k)'
    <3>1. ASSUME NEW j \in Jobs, StartStep(j) PROVE \A k \in Jobs : EntryInv(k)'
      BY <2>1, <3>1, PrepareEntries, RegisterEntries, LaunchEntries, SpawnEntries
      DEF StartStep
    <3>2. ASSUME NEW j \in Jobs, Exit(j) \/ MonitorStep(j) \/ FinishStep(j) \/ UserStep(j)
          PROVE  \A k \in Jobs : EntryInv(k)'
      BY <2>1, <3>2, MonitorEntries, FinishEntries, UserEntries
    <3>3. ASSUME NEW p \in Projects, CloseStep(p) \/ MountStep(p)
          PROVE  \A k \in Jobs : EntryInv(k)'
      BY <2>1, <3>3, CloseEntries, MountEntries
    <3>4. CASE Crash
      BY <2>1, <3>4, CrashEntries
    <3> QED BY <1>1, <3>1, <3>2, <3>3, <3>4 DEF Next
  <2>6. OneStarter'
    BY <1>1, <2>5, StarterStep
  <2>7. \A p \in Projects : TodoInv(p)'
    BY <1>1, <2>5, TodoStep
  <2> QED BY <2>2, <2>4, <2>5, <2>6, <2>7 DEF IInv, EntryInv
<1>2. ASSUME IInv, UNCHANGED vars PROVE IInv'
  BY <1>2 DEF IInv, TypeOK, PermitsBalance, OneStarter, OwnerInv, RecordInv, RunInv,
     TodoInv, Registered, Settled, vars, worldVars, hostVars, entryVars, boundVars
<1> QED BY <1>1, <1>2

(* Every behaviour keeps the invariant.                                    *)
THEOREM Invariant == Spec => []IInv
BY InvInit, InvStep, PTL DEF Spec

(* Every variable of the jobs keeps its type, in every reachable state.    *)
THEOREM TypeCorrect == Spec => []TypeOK
<1>1. IInv => TypeOK
  BY DEF IInv
<1> QED BY <1>1, Invariant, PTL

(* JobCapacity counts exactly the permits that live entries hold, for any  *)
(* number of projects and jobs: none is leaked and none given back twice.  *)
THEOREM PermitsCorrect == Spec => []PermitsBalance
<1>1. IInv => PermitsBalance
  BY DEF IInv
<1> QED BY <1>1, Invariant, PTL

(* A registered job without a verdict, and a command that runs, keep the   *)
(* project busy until the verdict is durable, whatever failed.             *)
LEMMA ActiveNow == IInv => WorkIsActive
<1> SUFFICES ASSUME IInv, NEW j \in Jobs
             PROVE  /\ mount[ProjectOf[j]] \in {"ready", "unavailable"}
                       /\ Recorded(j) /\ ~Settled(j) /\ j \notin doubted
                       => HasActive(ProjectOf[j])
                    /\ run[j] = "running" => HasActive(ProjectOf[j])
  BY DEF WorkIsActive, Unverdicted
<1>1. OwnerInv(j) /\ RecordInv(j) /\ RunInv(j) /\ step[j] \in Steps
  BY Domains DEF IInv
<1>2. ASSUME "map" \in holders[j], Unresolved(j) PROVE HasActive(ProjectOf[j])
  BY <1>2 DEF HasActive, Entries, JobsOf
<1>3. ASSUME mount[ProjectOf[j]] = "ready", Recorded(j), ~Settled(j), j \notin doubted
      PROVE  HasActive(ProjectOf[j])
  <2>1. Registered(j)
    BY <1>1, <1>3 DEF RecordInv, Recorded, Settled, Registered
  <2>2. step[j] \notin Absent \cup {"prepared"}
    BY <1>1, <1>3, <2>1 DEF RecordInv, Registered, Absent
  <2>3. CASE step[j] = "done"
    BY <1>1, <1>2, <2>1, <2>3 DEF RecordInv, Registered, Unresolved
  <2>4. CASE step[j] # "done"
    BY <1>1, <1>2, <2>2, <2>4
    DEF OwnerInv, Unresolved, Steps, Absent, Starting, Watching, Ending
  <2> QED BY <2>3, <2>4
<1>4. ASSUME run[j] = "running" PROVE HasActive(ProjectOf[j])
  BY <1>1, <1>2, <1>4 DEF OwnerInv, RunInv, Unresolved, Ending
<1> QED BY <1>3, <1>4 DEF HasActive

(* Unfinished work is never out of its registry's sight.                   *)
THEOREM WorkActive == Spec => []WorkIsActive
BY ActiveNow, Invariant, PTL

-----------------------------------------------------------------------------
(* The refinement *)

(* The commit of a truthful verdict is the ledger's, or changes nothing.   *)
LEMMA SettleStep ==
    ASSUME TypeOK, NEW j \in Jobs, NEW v \in Ledger!Truthful(run[j]),
           records[j] \in {<<"registered">>, <<"registered", v>>},
           Commit(j, v) \/ CommitFails(j, v), Ledger!Ends
    PROVE  [Ledger!Next]_<<records, run>>
<1>1. v # "registered"
  BY TruthfulVerdicts DEF Verdicts
<1>2. CASE records' = records
  BY <1>2 DEF Ledger!Next, Ledger!End
<1>3. CASE records[j] = <<"registered">> /\ records' = [records EXCEPT ![j] = Append(@, v)]
  BY <1>3 DEF Ledger!Next, Ledger!Settle
<1>4. CASE records[j] = <<"registered", v>>
  <2>1. 2 \in DOMAIN records[j] /\ records[j][2] = v
    BY <1>4
  <2>2. Added(j, v) = records
    BY <2>1 DEF Added
  <2> QED BY <1>2, <2>2 DEF Commit, CommitFails
<1>5. CASE records[j] = <<"registered">>
  <2>1. records' \in {records, Added(j, v)}
    BY DEF Commit, CommitFails
  <2> QED BY <1>2, <1>3, <1>5, <2>1 DEF Added
<1> QED BY <1>4, <1>5

(* Commands that end, in any way, are an end of the ledger.                *)
LEMMA EndStep ==
    ASSUME Ledger!Ends, UNCHANGED records
    PROVE  [Ledger!Next]_<<records, run>>
BY DEF Ledger!Next, Ledger!End

LEMMA KernelIsEnd ==
    ASSUME TypeOK, NEW j \in Jobs, KernelCloses(j) \/ KernelCloseFails(j)
    PROVE  Ledger!Ends
BY KernelEnds DEF Ledger!Ends, Ledger!Fates

LEMMA StayIsEnd ==
    ASSUME UNCHANGED run
    PROVE  Ledger!Ends
BY DEF Ledger!Ends

LEMMA RetryRefines ==
    ASSUME TypeOK, NEW j \in Jobs, EntryInv(j), RetryEntry(j)
    PROVE  [Ledger!Next]_<<records, run>>
<1>1. Ledger!Ends
  BY KernelIsEnd, StayIsEnd DEF RetryEntry
<1>2. CASE UNCHANGED records
  BY <1>1, <1>2, EndStep
<1>3. CASE saveErr[j] /\ (Commit(j, state[j]) \/ CommitFails(j, state[j]))
  <2>1. /\ state[j] \in Ledger!Truthful(run[j])
        /\ records[j] \in {<<"registered">>, <<"registered", state[j]>>}
    BY <1>3 DEF RetryEntry, EntryInv, OwnerInv, RecordInv, Absent, Registered
  <2> QED BY <1>1, <1>3, <2>1, SettleStep
<1> QED BY <1>2, <1>3 DEF RetryEntry

LEMMA RegisterRefines ==
    ASSUME TypeOK, NEW j \in Jobs, EntryInv(j), Register(j)
    PROVE  [Ledger!Next]_<<records, run>>
<1>1. records[j] = <<>> /\ run[j] = "none" /\ run' = run
  BY DEF Register, EntryInv, RecordInv
<1>2. Append(records[j], "registered") = <<"registered">>
  BY <1>1
<1>3. Added(j, "registered") = [records EXCEPT ![j] = <<"registered">>]
  BY <1>1, <1>2 DEF Added
<1>4. records' \in {records, [records EXCEPT ![j] = <<"registered">>]}
  BY <1>3 DEF Register, Commit, CommitFails
<1> QED BY <1>1, <1>4 DEF Ledger!Next, Ledger!Register

LEMMA LaunchRefines ==
    ASSUME TypeOK, NEW j \in Jobs, EntryInv(j), Launch(j)
    PROVE  [Ledger!Next]_<<records, run>>
<1>1. records[j] = <<"registered">> /\ run[j] = "none" /\ records' = records
  BY DEF Launch, EntryInv, RecordInv, Registered
<1>2. \/ run' = run \/ run' = [run EXCEPT ![j] = "running"]
      \/ run' = [run EXCEPT ![j] = "lost"]
  BY DEF Launch
<1> QED BY <1>1, <1>2 DEF Ledger!Next, Ledger!Launch

LEMMA MonitorRefines ==
    ASSUME TypeOK, NEW j \in Jobs, EntryInv(j),
           Spawn(j) \/ Exit(j) \/ MonitorStep(j)
    PROVE  [Ledger!Next]_<<records, run>>
<1>1. UNCHANGED records
  BY DEF Spawn, Exit, MonitorStep, Observe, LoseSight, CloseKernel, worldVars
<1>2. CASE Exit(j)
  <2>1. Ledger!Ends
    BY <1>2, Domains DEF Exit, Ledger!Ends, Ledger!Fates
  <2> QED BY <1>1, <2>1, EndStep
<1>3. CASE KernelCloses(j) \/ KernelCloseFails(j)
  BY <1>1, <1>3, KernelIsEnd, EndStep
<1>4. CASE UNCHANGED run
  BY <1>1, <1>4, StayIsEnd, EndStep
<1> QED BY <1>2, <1>3, <1>4
    DEF Spawn, MonitorStep, Observe, LoseSight, CloseKernel, worldVars

LEMMA SaveRefines ==
    ASSUME TypeOK, NEW j \in Jobs, EntryInv(j), SaveVerdict(j)
    PROVE  [Ledger!Next]_<<records, run>>
<1>1. records[j] = <<"registered">> /\ state[j] \in Ledger!Truthful(run[j])
      /\ run' = run
  BY DEF SaveVerdict, EntryInv, RecordInv, Registered
<1> QED BY <1>1, StayIsEnd, SettleStep DEF SaveVerdict

LEMMA CloseRefines ==
    ASSUME TypeOK, \A k \in Jobs : EntryInv(k), NEW p \in Projects, CloseEntry(p)
    PROVE  [Ledger!Next]_<<records, run>>
<1>1. PICK j \in todo[p] : CloseEntry(p)!(j)
  BY DEF CloseEntry
<1>2. j \in Jobs
  BY Domains
<1>3. CASE RetryEntry(j)
  BY <1>2, <1>3, RetryRefines
<1>4. CASE UNCHANGED records /\ (KernelCloses(j) \/ KernelCloseFails(j))
  BY <1>2, <1>4, KernelIsEnd, EndStep
<1>5. CASE UNCHANGED worldVars
  BY <1>5 DEF worldVars
<1> QED BY <1>1, <1>3, <1>4, <1>5

LEMMA RecoverRefines ==
    ASSUME TypeOK, \A k \in Jobs : EntryInv(k), NEW p \in Projects, RecoverRow(p)
    PROVE  [Ledger!Next]_<<records, run>>
<1>1. PICK j \in Unfinished(p) : RecoverRow(p)!(j)
  BY DEF RecoverRow
<1>2. j \in Jobs /\ records[j] = <<"registered">>
  BY DEF Unfinished, JobsOf, Recorded, Settled, EntryInv, RecordInv
<1>3. "restarted" \in Ledger!Truthful(run[j])
  BY TruthfulVerdicts
<1>4. Ledger!Ends
  BY <1>1, StayIsEnd
<1> QED BY <1>1, <1>2, <1>3, <1>4, SettleStep

LEMMA CrashRefines ==
    ASSUME TypeOK, Crash
    PROVE  [Ledger!Next]_<<records, run>>
<1>1. Ledger!Ends
  BY Domains DEF Crash, Ledger!Ends, Ledger!Fates
<1>2. UNCHANGED records
  BY DEF Crash
<1> QED BY <1>1, <1>2, EndStep

LEMMA LedgerInit == Init => Ledger!Init
BY DEF Init, Ledger!Init

LEMMA LedgerStep == IInv /\ [Next]_vars => [Ledger!Next]_<<records, run>>
<1>1. ASSUME IInv, Next PROVE [Ledger!Next]_<<records, run>>
  <2>1. TypeOK /\ \A k \in Jobs : EntryInv(k)
    BY <1>1 DEF IInv, EntryInv
  <2>2. CASE UNCHANGED <<records, run>>
    BY <2>2
  <2>3. ASSUME NEW j \in Jobs, StartStep(j) \/ Exit(j) \/ MonitorStep(j)
        PROVE  [Ledger!Next]_<<records, run>>
    BY <2>1, <2>3, RegisterRefines, LaunchRefines, MonitorRefines
    DEF StartStep, Prepare, worldVars
  <2>4. ASSUME NEW j \in Jobs, FinishStep(j) \/ UserStep(j)
        PROVE  [Ledger!Next]_<<records, run>>
    <3>1. SaveVerdict(j) \/ Retry(j) \/ UNCHANGED <<records, run>>
      BY <2>4 DEF FinishStep, SettlePermit, Finish, UserStep, Kill, Read, ReadEnd,
         worldVars
    <3> QED BY <2>1, <3>1, SaveRefines, RetryRefines DEF Retry
  <2>5. ASSUME NEW p \in Projects, CloseStep(p) \/ MountStep(p)
        PROVE  [Ledger!Next]_<<records, run>>
    <3>1. CloseEntry(p) \/ RecoverRow(p) \/ UNCHANGED <<records, run>>
      BY <2>5 DEF CloseStep, CloseBegin, CloseEnd, Unmount, MountStep, Mount,
         RecoverDone, Restore, Ready, worldVars
    <3> QED BY <2>1, <3>1, CloseRefines, RecoverRefines
  <2> QED BY <1>1, <2>1, <2>3, <2>4, <2>5, CrashRefines DEF Next
<1>2. ASSUME UNCHANGED vars PROVE [Ledger!Next]_<<records, run>>
  BY <1>2 DEF vars, worldVars
<1> QED BY <1>1, <1>2

(* The journals and the commands refine the ledger: for any set of jobs, a *)
(* command runs at most once and after its registration, and its one       *)
(* verdict is true, through failed saves, retries, crashes, recoveries.    *)
THEOREM RefinesLedger == Spec => ImplementsLedger
BY LedgerInit, LedgerStep, Invariant, PTL DEF Spec, ImplementsLedger, Ledger!Spec
-----------------------------------------------------------------------------
(* What a close leaves behind *)

(* The steps at which the handle of a monitor is not there to be taken.    *)
Unjoined == {"new", "refused", "prepared", "registered", "spawn"}

(* An entry that close has no more to do with: neither a start nor a       *)
(* monitor is at work on it, and what it saved and cleaned went well.      *)
Left(j) ==
    /\ "starter" \notin holders[j] /\ "monitor" \notin holders[j]
    /\ "map" \in holders[j] => ~saveErr[j] /\ ~cleanErr[j]

(* A handle is taken from a monitor at work only by a close that gave up.  *)
JoinInv(j) ==
    joinTaken[j] => /\ step[j] \notin Unjoined
                    /\ "monitor" \in holders[j] => closeErr[ProjectOf[j]]

(* A closed registry takes no start; the close at work has every entry     *)
(* before it or has left it; and one that no close has failed on has       *)
(* nothing at work but what the close at work still has before it.         *)
CloseInv(p) ==
    /\ closed[p] => /\ mount[p] \in {"ready", "unavailable"}
                    /\ admission[p] # "start"
    /\ admission[p] = "close" =>
          closed[p] /\ \A j \in todo[p] : ProjectOf[j] = p /\ "map" \in holders[j]
    /\ closed[p] /\ ~closeErr[p] =>
          \A j \in JobsOf(p) : Left(j) \/ (admission[p] = "close" /\ j \in todo[p])

QuietInv ==
    /\ \A j \in Jobs : JoinInv(j)
    /\ \A p \in Projects : CloseInv(p)

(* What a step of the threads and the users does to the entries, as far as *)
(* a close is concerned.                                                   *)
LEMMA JobStepHost ==
    ASSUME IInv, QuietInv, NEW j \in Jobs,
           StartStep(j) \/ Exit(j) \/ MonitorStep(j) \/ FinishStep(j) \/ UserStep(j)
    PROVE  /\ UNCHANGED <<mount, closed, closeErr, todo, joinTaken>>
           /\ \A p \in Projects : /\ admission'[p] = "close" <=> admission[p] = "close"
                                  /\ admission'[p] = "start" => ~closed[p]
<1>1. TypeOK /\ OwnerInv(j) /\ ProjectOf[j] \in Projects /\ CloseInv(ProjectOf[j])
  BY ProjectAssumption DEF IInv, QuietInv
<1>2. UNCHANGED <<mount, closed, closeErr, todo, joinTaken>>
  BY DEF StartStep, Prepare, Register, Launch, Spawn, Exit, MonitorStep, Observe,
     LoseSight, CloseKernel, FinishStep, SaveVerdict, SettlePermit, Finish, UserStep,
     Kill, Read, ReadEnd, Retry, hostVars, entryVars
<1>3. ASSUME NEW p \in Projects
      PROVE  /\ admission'[p] = "close" <=> admission[p] = "close"
             /\ admission'[p] = "start" => ~closed[p]
  <2>1. admission[p] = "start" => ~closed[p]
    BY DEF QuietInv, CloseInv
  <2>2. CASE admission' = admission
    BY <2>1, <2>2
  <2>3. CASE Prepare(j) /\ admission' = [admission EXCEPT ![ProjectOf[j]] = "start"]
    BY <1>1, <2>1, <2>3, Domains DEF Prepare
  <2>4. CASE /\ "starter" \in holders[j]
             /\ admission' = [admission EXCEPT ![ProjectOf[j]] = "free"]
    <3>1. admission[ProjectOf[j]] = "start"
      BY <1>1, <2>4 DEF OwnerInv
    <3> QED BY <1>1, <2>1, <2>4, <3>1, Domains
  <2>5. CASE Prepare(j)
    BY <2>2, <2>3, <2>5 DEF Prepare, Hold
  <2>6. CASE Register(j)
    BY <1>1, <2>2, <2>4, <2>6 DEF Register, OwnerInv
  <2>7. CASE Spawn(j)
    <3>1. "starter" \in holders[j]
      BY <1>1, <2>7 DEF Spawn, OwnerInv, Starting
    <3> QED BY <2>2, <2>4, <2>7, <3>1 DEF Spawn
  <2>8. CASE FinishStep(j)
    BY <2>2, <2>4, <2>8 DEF FinishStep, SaveVerdict, SettlePermit, Finish, hostVars
  <2>9. CASE Launch(j) \/ Exit(j) \/ MonitorStep(j) \/ UserStep(j)
    BY <2>2, <2>9 DEF Launch, Exit, MonitorStep, Observe, LoseSight, CloseKernel,
       UserStep, Kill, Read, ReadEnd, Retry, hostVars
  <2> QED BY <2>5, <2>6, <2>7, <2>8, <2>9 DEF StartStep
<1> QED BY <1>2, <1>3

(* An entry that is done, or was never started, and that nobody has.       *)
LEMMA LeftStep ==
    ASSUME NEW k \in Jobs, OwnerInv(k), step[k] \in Steps, Left(k)
    PROVE  step[k] \in Absent \cup {"done"}
BY DEF Left, OwnerInv, Steps, Absent, Starting, Watching, Ending

LEMMA PrepareQuiet ==
    ASSUME IInv, QuietInv, NEW j \in Jobs, Prepare(j), NEW k \in Jobs
    PROVE  /\ closed[ProjectOf[k]] => /\ "map" \in holders[k] => "map" \in holders'[k]
                                      /\ Left(k) => Left(k)'
           /\ step[k] \notin Unjoined => step'[k] \notin Unjoined
           /\ "monitor" \in holders'[k] => "monitor" \in holders[k]
<1> DEFINE p == ProjectOf[j]
<1>1. TypeOK /\ p \in Projects
  BY ProjectAssumption DEF IInv
<1>2. ~closed[p] /\ step[j] = "new" /\ UNCHANGED <<saveErr, cleanErr>>
  BY DEF Prepare
<1>3. ASSUME NEW js \in SUBSET Evictable(p)
      PROVE  /\ Evict(js)[k] \in {holders[k], holders[k] \ {"map"}}
             /\ ProjectOf[k] # p => Evict(js)[k] = holders[k]
  BY DEF Evict, Evictable, Entries, JobsOf
<1>4. PICK js \in SUBSET Evictable(p) :
         \/ holders' = Evict(js) /\ step' = step
         \/ /\ holders' = [Evict(js) EXCEPT ![j] = {"starter"}]
            /\ step' = [step EXCEPT ![j] = "prepared"]
  <2>1. Evictable(p) \in SUBSET Evictable(p) /\ \A js \in Evicted(p) : js \in SUBSET Evictable(p)
    BY <1>1, EvictedEvictable
  <2>2. CASE Hold(Evict(Evictable(p))) /\ UNCHANGED <<step, admission>>
    BY <2>1, <2>2 DEF Hold
  <2>3. ASSUME NEW js \in Evicted(p),
               IF CanAcquire(Without(Evict(js)))
               THEN /\ holders' = [Evict(js) EXCEPT ![j] = {"starter"}]
                    /\ step' = [step EXCEPT ![j] = "prepared"]
               ELSE Hold(Evict(js)) /\ UNCHANGED <<step, admission>>
        PROVE  \/ holders' = Evict(js) /\ step' = step
               \/ /\ holders' = [Evict(js) EXCEPT ![j] = {"starter"}]
                  /\ step' = [step EXCEPT ![j] = "prepared"]
    BY <2>3 DEF Hold
  <2> QED BY <2>1, <2>2, <2>3 DEF Prepare
<1>5. \/ holders'[k] = Evict(js)[k] /\ step'[k] = step[k]
      \/ k = j /\ holders'[k] = {"starter"}
  BY <1>1, <1>4, Domains DEF Evict
<1>6. k = j => ~closed[ProjectOf[k]] /\ step[k] \in Unjoined
  BY <1>2 DEF Unjoined
<1>7. ProjectOf[k] # p => holders'[k] = holders[k]
  BY <1>3, <1>5
<1>8. closed[ProjectOf[k]] => ProjectOf[k] # p
  BY <1>2
<1>9. closed[ProjectOf[k]] => /\ "map" \in holders[k] => "map" \in holders'[k]
                              /\ Left(k) => Left(k)'
  BY <1>2, <1>7, <1>8 DEF Left
<1>10. "monitor" \in holders'[k] => "monitor" \in holders[k]
  BY <1>3, <1>5
<1> QED BY <1>5, <1>6, <1>9, <1>10

LEMMA JobStepQuiet ==
    ASSUME IInv, QuietInv, NEW j \in Jobs,
           Register(j) \/ Launch(j) \/ Spawn(j) \/ Exit(j) \/ MonitorStep(j)
              \/ FinishStep(j) \/ UserStep(j),
           NEW k \in Jobs
    PROVE  /\ "map" \in holders[k] => "map" \in holders'[k]
           /\ Left(k) => Left(k)'
           /\ step[k] \notin Unjoined => step'[k] \notin Unjoined
           /\ "monitor" \in holders'[k] => "monitor" \in holders[k] \/ step[k] = "spawn"
<1>1. TypeOK /\ OwnerInv(k) /\ step[k] \in Steps
  BY Domains DEF IInv
<1>2. Left(k) => step[k] \in Absent \cup {"done"}
  BY <1>1, LeftStep
<1>3. CASE Register(j)
  <2>1. UNCHANGED <<saveErr, cleanErr>> /\ step[j] = "prepared"
    BY <1>3 DEF Register
  <2>2. \/ holders' = [holders EXCEPT ![j] = @ \cup {"map"}]
        \/ holders' = [holders EXCEPT ![j] = @ \ {"starter"}]
    BY <1>3 DEF Register, Hold, Lose
  <2>3. k # j => step'[k] = step[k] /\ holders'[k] = holders[k]
    BY <1>1, <1>3, <2>2, Domains DEF Register
  <2>4. k = j => ~Left(k) /\ step[k] \in Unjoined
    BY <1>2, <2>1 DEF Unjoined, Absent
  <2>5. /\ "map" \in holders[k] => "map" \in holders'[k]
        /\ "monitor" \in holders'[k] => "monitor" \in holders[k]
    BY <1>1, <2>2, Domains
  <2> QED BY <2>1, <2>3, <2>4, <2>5 DEF Left
<1>4. CASE Launch(j)
  <2>1. UNCHANGED <<saveErr, cleanErr, holders>> /\ step[j] \in Unjoined
    BY <1>4 DEF Launch, Unjoined
  <2>2. k # j => step'[k] = step[k]
    BY <1>1, <1>4, Domains DEF Launch, Ended
  <2> QED BY <2>1, <2>2 DEF Left
<1>5. CASE Spawn(j)
  <2>1. saveErr' = saveErr /\ step[j] = "spawn" /\ step[j] \in Unjoined
    BY <1>5 DEF Spawn, Unjoined
  <2>2. \/ holders' = [holders EXCEPT ![j] = (@ \ {"starter"}) \cup {"monitor"}]
        \/ holders' = holders
    BY <1>5 DEF Spawn, Hold
  <2>3. k # j => step'[k] = step[k] /\ cleanErr'[k] = cleanErr[k] /\ holders'[k] = holders[k]
    BY <1>1, <1>5, <2>2, Domains DEF Spawn, Ended
  <2>4. k = j => ~Left(k)
    BY <1>2, <2>1 DEF Absent
  <2>5. "map" \in holders[k] => "map" \in holders'[k]
    BY <1>1, <2>2, Domains
  <2> QED BY <2>1, <2>3, <2>4, <2>5 DEF Left
<1>6. CASE Exit(j)
  BY <1>6 DEF Exit, entryVars, Left
<1>7. CASE MonitorStep(j)
  <2>1. /\ UNCHANGED <<saveErr, holders>> /\ step[j] \in Watching
        /\ step'[j] \in {"closing", "save"}
    BY <1>1, <1>7, Domains DEF MonitorStep, Observe, LoseSight, CloseKernel, Watching
  <2>2. k # j => step'[k] = step[k] /\ cleanErr'[k] = cleanErr[k]
    BY <1>1, <1>7, Domains DEF MonitorStep, Observe, LoseSight, CloseKernel
  <2>3. k = j => ~Left(k)
    BY <1>2, <2>1 DEF Absent, Watching
  <2> QED BY <2>1, <2>2, <2>3 DEF Left, Unjoined
<1>8. CASE FinishStep(j)
  <2>1. /\ cleanErr' = cleanErr /\ step[j] \in Ending
        /\ step'[j] \in {"release", "finish", "done"}
    BY <1>1, <1>8, Domains DEF FinishStep, SaveVerdict, SettlePermit, Finish, Ending
  <2>2. k # j => step'[k] = step[k] /\ saveErr'[k] = saveErr[k] /\ holders'[k] = holders[k]
    BY <1>1, <1>8, Domains DEF FinishStep, SaveVerdict, SettlePermit, Finish, Hold
  <2>3. holders'[k] \in {holders[k], holders[k] \ {"starter", "monitor"}}
    BY <1>1, <1>8, Domains DEF FinishStep, SaveVerdict, SettlePermit, Finish, Hold
  <2>4. k = j => ~Left(k)
    BY <1>2, <2>1 DEF Absent, Ending
  <2> QED BY <2>1, <2>2, <2>3, <2>4 DEF Left, Unjoined
<1>9. CASE UserStep(j)
  <2>1. step' = step
    BY <1>9 DEF UserStep, Kill, Read, ReadEnd, Retry
  <2>2. holders'[k] \in {holders[k], holders[k] \cup {"reader"}, holders[k] \ {"reader"}}
    BY <1>1, <1>9, Domains DEF UserStep, Kill, Read, ReadEnd, Retry, Hold, Lose
  <2>3. (saveErr'[k] => saveErr[k]) /\ (cleanErr'[k] => cleanErr[k])
    BY <1>1, <1>9, Domains DEF UserStep, Kill, Read, ReadEnd, Retry, RetryEntry
  <2>5. "map" \in holders'[k] => "map" \in holders[k]
    BY <2>2
  <2>6. Left(k) => Left(k)'
    BY <2>2, <2>3, <2>5 DEF Left
  <2>7. /\ "map" \in holders[k] => "map" \in holders'[k]
        /\ "monitor" \in holders'[k] => "monitor" \in holders[k]
    BY <2>2
  <2> QED BY <2>1, <2>6, <2>7
<1> QED BY <1>3, <1>4, <1>5, <1>6, <1>7, <1>8, <1>9

(* A visit of close takes the handle, and if it is not to fail the entry   *)
(* has no monitor left and comes out of it resolved.                       *)
LEMMA CloseEntryQuiet ==
    ASSUME IInv, QuietInv, NEW p \in Projects, CloseEntry(p)
    PROVE  QuietInv'
<1>1. /\ TypeOK /\ \A k \in Jobs : OwnerInv(k) /\ JoinInv(k)
      /\ \A q \in Projects : CloseInv(q)
  BY DEF IInv, QuietInv
<1>2. PICK j \in todo[p] : CloseEntry(p)!(j)
  BY DEF CloseEntry
<1>3. /\ j \in Jobs /\ ProjectOf[j] = p /\ "map" \in holders[j]
      /\ admission[p] = "close" /\ closed[p]
  BY <1>1, <1>2, Domains DEF CloseInv
<1>4. /\ UNCHANGED <<mount, admission, closed, holders, step>>
      /\ todo' = [todo EXCEPT ![p] = @ \ {j}]
      /\ joinTaken' = [joinTaken EXCEPT ![j] = TRUE]
  BY <1>2
<1>5. "starter" \notin holders[j] /\ step[j] \notin Unjoined \cup Absent
  BY <1>1, <1>3 DEF OwnerInv, Unjoined, Absent, Starting
<1>6. \A q \in Projects : /\ closeErr[q] => closeErr'[q]
                          /\ q # p => closeErr'[q] = closeErr[q]
  BY <1>1, <1>2, TypeParts DEF HostType
<1>7. \A k \in Jobs \ {j} : saveErr'[k] = saveErr[k] /\ cleanErr'[k] = cleanErr[k]
  BY <1>1, <1>2, Domains DEF RetryEntry
<1>8. "monitor" \in holders[j] => closeErr'[p]
  <2>1. CASE joinTaken[j]
    BY <1>1, <1>3, <1>6, <2>1 DEF JoinInv
  <2>2. CASE ~joinTaken[j]
    BY <1>1, <1>2, <2>2, TypeParts DEF Monitored, HostType
  <2> QED BY <2>1, <2>2
<1>9. ~closeErr'[p] => Left(j)'
  <2>1. ASSUME ~closeErr'[p] PROVE ~saveErr'[j] /\ ~cleanErr'[j]
    BY <1>1, <1>2, <2>1, TypeParts DEF HostType
  <2> QED BY <1>4, <1>5, <1>8, <2>1 DEF Left
<1>10. ASSUME NEW k \in Jobs PROVE JoinInv(k)'
  <2>1. CASE k = j
    BY <1>3, <1>4, <1>5, <1>8, <2>1 DEF JoinInv
  <2>2. CASE k # j
    <3>1. joinTaken'[k] = joinTaken[k]
      BY <1>4, <2>2
    <3>2. ProjectOf[k] \in Projects
      BY ProjectAssumption
    <3> QED BY <1>1, <1>4, <1>6, <3>1, <3>2 DEF JoinInv
  <2> QED BY <2>1, <2>2
<1>11. ASSUME NEW q \in Projects PROVE CloseInv(q)'
  <2>1. todo'[q] \subseteq todo[q] /\ \A k \in todo[q] : k = j \/ k \in todo'[q]
    BY <1>1, <1>4, Domains
  <2>2. ASSUME closed'[q], ~closeErr'[q], NEW k \in JobsOf(q)
        PROVE  Left(k)' \/ (admission'[q] = "close" /\ k \in todo'[q])
    <3>1. k \in Jobs /\ ProjectOf[k] = q
      BY DEF JobsOf
    <3>2. CASE k = j
      BY <1>3, <1>9, <2>2, <3>1, <3>2
    <3>3. CASE k # j
      <4>1. Left(k) \/ (admission[q] = "close" /\ k \in todo[q])
        BY <1>1, <1>4, <1>6, <2>2 DEF CloseInv
      <4>2. Left(k) => Left(k)'
        BY <1>4, <1>7, <3>1, <3>3 DEF Left
      <4> QED BY <1>4, <2>1, <3>3, <4>1, <4>2
    <3> QED BY <3>2, <3>3
  <2>3. /\ closed'[q] => /\ mount'[q] \in {"ready", "unavailable"}
                         /\ admission'[q] # "start"
        /\ admission'[q] = "close" =>
              closed'[q] /\ \A k \in todo'[q] : ProjectOf[k] = q /\ "map" \in holders'[k]
    BY <1>1, <1>4, <2>1 DEF CloseInv
  <2> QED BY <2>2, <2>3 DEF CloseInv, JobsOf
<1> QED BY <1>10, <1>11 DEF QuietInv

(* A close that begins has every entry of the map before it; what is not   *)
(* in the map is at rest, for the admission lock was free.                 *)
LEMMA CloseBeginQuiet ==
    ASSUME IInv, QuietInv, NEW p \in Projects, CloseBegin(p)
    PROVE  QuietInv'
<1>1. /\ TypeOK /\ \A k \in Jobs : OwnerInv(k) /\ JoinInv(k)
      /\ \A q \in Projects : CloseInv(q)
  BY DEF IInv, QuietInv
<1>2. /\ mount[p] \in {"ready", "unavailable"} /\ admission[p] = "free"
      /\ admission' = [admission EXCEPT ![p] = "close"]
      /\ closed' = [closed EXCEPT ![p] = TRUE]
      /\ todo' = [todo EXCEPT ![p] = Entries(p)]
      /\ UNCHANGED <<mount, closeErr, step, holders, joinTaken, saveErr, cleanErr>>
  BY DEF CloseBegin
<1>3. ASSUME NEW k \in JobsOf(p) PROVE Left(k) \/ k \in Entries(p)
  <2>1. k \in Jobs /\ ProjectOf[k] = p /\ step[k] \in Steps
    BY <1>1, Domains DEF JobsOf
  <2>2. "starter" \notin holders[k]
    BY <1>1, <1>2, <2>1 DEF OwnerInv
  <2>3. "monitor" \in holders[k] => "map" \in holders[k]
    BY <1>1, <2>1 DEF OwnerInv, Steps, Absent, Starting, Watching, Ending
  <2> QED BY <2>2, <2>3 DEF Left, Entries
<1>4. \A k \in Jobs : JoinInv(k)'
  BY <1>1, <1>2 DEF JoinInv
<1>5. CloseInv(p)'
  <2>1. closed'[p] /\ admission'[p] = "close" /\ todo'[p] = Entries(p)
    BY <1>1, <1>2, Domains
  <2>2. \A k \in JobsOf(p) : Left(k)' \/ k \in todo'[p]
    BY <1>2, <1>3, <2>1 DEF Left
  <2>3. \A k \in todo'[p] : ProjectOf[k] = p /\ "map" \in holders'[k]
    BY <1>2, <2>1 DEF Entries, JobsOf
  <2>4. mount'[p] \in {"ready", "unavailable"} /\ admission'[p] # "start"
    BY <1>2, <2>1
  <2> QED BY <2>1, <2>2, <2>3, <2>4 DEF CloseInv, JobsOf
<1>6. ASSUME NEW q \in Projects \ {p} PROVE CloseInv(q)'
  <2>1. /\ closed'[q] = closed[q] /\ admission'[q] = admission[q]
        /\ todo'[q] = todo[q] /\ CloseInv(q)
    BY <1>1, <1>2, Domains
  <2>2. \A k \in Jobs : Left(k)' <=> Left(k)
    BY <1>2 DEF Left
  <2> QED BY <1>2, <2>1, <2>2 DEF CloseInv, JobsOf
<1> QED BY <1>4, <1>5, <1>6 DEF QuietInv

(* A close that ends has visited every entry.                              *)
LEMMA CloseEndQuiet ==
    ASSUME IInv, QuietInv, NEW p \in Projects, CloseEnd(p)
    PROVE  QuietInv'
<1>1. TypeOK /\ (\A k \in Jobs : JoinInv(k)) /\ \A q \in Projects : CloseInv(q)
  BY DEF IInv, QuietInv
<1>2. /\ todo[p] = {} /\ admission' = [admission EXCEPT ![p] = "free"]
      /\ UNCHANGED <<mount, closed, closeErr, todo, step, holders, joinTaken,
                     saveErr, cleanErr>>
  BY DEF CloseEnd, entryVars
<1>3. \A k \in Jobs : JoinInv(k)'
  BY <1>1, <1>2 DEF JoinInv
<1>4. ASSUME NEW q \in Projects PROVE CloseInv(q)'
  <2>1. \A k \in Jobs : Left(k)' <=> Left(k)
    BY <1>2 DEF Left
  <2>2. q # p => admission'[q] = admission[q]
    BY <1>2
  <2>3. q = p => admission'[q] = "free" /\ todo[q] = {}
    BY <1>1, <1>2, Domains
  <2> QED BY <1>1, <1>2, <2>1, <2>2, <2>3 DEF CloseInv, JobsOf
<1> QED BY <1>3, <1>4 DEF QuietInv

(* Nothing is at work in a registry that is unmounted.                     *)
LEMMA UnmountQuiet ==
    ASSUME IInv, QuietInv, NEW p \in Projects, Unmount(p)
    PROVE  QuietInv'
<1>1. /\ TypeOK /\ \A k \in Jobs : OwnerInv(k) /\ JoinInv(k)
      /\ \A q \in Projects : CloseInv(q)
  BY DEF IInv, QuietInv
<1>2. /\ mount' = [mount EXCEPT ![p] = "down"] /\ admission[p] = "free"
      /\ closed' = [closed EXCEPT ![p] = FALSE]
      /\ closeErr' = [closeErr EXCEPT ![p] = FALSE]
      /\ holders' = Evict(Entries(p)) /\ ~HasActive(p)
      /\ UNCHANGED <<admission, todo, joinTaken, saveErr, cleanErr>>
  BY DEF Unmount, Hold
<1>3. \A k \in Jobs : step'[k] \in {step[k], "gone"}
  BY DEF Unmount
<1>4. ASSUME NEW k \in Jobs PROVE JoinInv(k)'
  <2>1. step[k] \notin Unjoined => step'[k] \notin Unjoined
    BY <1>3 DEF Unjoined
  <2>2. "monitor" \in holders'[k] => "monitor" \in holders[k]
    BY <1>2 DEF Evict
  <2>3. CASE ProjectOf[k] = p
    <3>1. ASSUME "monitor" \in holders[k] PROVE FALSE
      <4>1. step[k] \in Starting \cup Watching \cup Ending
        BY <1>1, <3>1, Domains
        DEF OwnerInv, Steps, Absent, Starting, Watching, Ending
      <4>2. "map" \in holders[k] /\ ~finished[k]
        BY <1>1, <4>1 DEF OwnerInv, Starting, Watching, Ending
      <4> QED BY <1>2, <2>3, <4>2 DEF HasActive, Entries, JobsOf, Unresolved
    <3> QED BY <1>1, <1>2, <2>1, <2>2, <3>1 DEF JoinInv
  <2>4. CASE ProjectOf[k] # p
    BY <1>1, <1>2, <2>1, <2>2, <2>4 DEF JoinInv
  <2> QED BY <2>3, <2>4
<1>5. CloseInv(p)'
  <2>1. ~closed'[p] /\ admission'[p] = "free"
    BY <1>1, <1>2, Domains
  <2> QED BY <2>1 DEF CloseInv
<1>6. ASSUME NEW q \in Projects \ {p} PROVE CloseInv(q)'
  <2>1. /\ closed'[q] = closed[q] /\ closeErr'[q] = closeErr[q]
        /\ mount'[q] = mount[q] /\ CloseInv(q)
    BY <1>1, <1>2
  <2>2. \A k \in Jobs : ProjectOf[k] = q => holders'[k] = holders[k]
    BY <1>2 DEF Evict, Entries, JobsOf
  <2>3. \A k \in JobsOf(q) : Left(k)' <=> Left(k)
    BY <1>2, <2>2 DEF Left, JobsOf
  <2>4. \A k \in todo[q] : k \in Jobs
    BY <1>1, Domains
  <2> QED BY <1>2, <2>1, <2>2, <2>3, <2>4 DEF CloseInv, JobsOf
<1> QED BY <1>4, <1>5, <1>6 DEF QuietInv

(* A registry that is recovered is not closed yet.                         *)
LEMMA MountQuiet ==
    ASSUME IInv, QuietInv, NEW p \in Projects, MountStep(p)
    PROVE  QuietInv'
<1>1. /\ TypeOK /\ (\A k \in Jobs : JoinInv(k))
      /\ (\A q \in Projects : CloseInv(q)) /\ TodoInv(p)
  BY DEF IInv, QuietInv
<1>2. UNCHANGED <<admission, closed, closeErr, saveErr, cleanErr>>
  BY DEF MountStep, Mount, RecoverRow, RecoverDone, Restore, Ready, entryVars
<1>3. ~closed[p] /\ admission[p] # "close"
  BY <1>1 DEF MountStep, Mount, RecoverRow, RecoverDone, Restore, Ready, CloseInv
<1>4. \A q \in Projects \ {p} : mount'[q] = mount[q] /\ todo'[q] = todo[q]
  <2>1. CASE Mount(p) \/ Ready(p)
    BY <2>1, <1>1, Domains DEF Mount, Ready
  <2>2. CASE RecoverRow(p)
    BY <2>2, <1>1, Domains DEF RecoverRow
  <2>3. CASE RecoverDone(p)
    BY <2>3, <1>1, Domains DEF RecoverDone
  <2>4. CASE Restore(p)
    BY <2>4, <1>1, Domains DEF Restore
  <2> QED BY <2>1, <2>2, <2>3, <2>4 DEF MountStep
<1>5. ASSUME NEW k \in Jobs
      PROVE  /\ JoinInv(k)'
             /\ ProjectOf[k] # p => holders'[k] = holders[k]
  <2>1. CASE UNCHANGED <<step, holders, joinTaken>>
    BY <1>1, <1>2, <2>1 DEF JoinInv
  <2>2. CASE Restore(p)
    <3>1. PICK j \in todo[p] : Restore(p)!(j)
      BY <2>2 DEF Restore
    <3>2. j \in Jobs /\ ProjectOf[j] = p
      BY <1>1, <3>1, Domains DEF TodoInv
    <3>3. CASE k = j /\ ~ UNCHANGED <<step, holders, joinTaken>>
      <4>1. joinTaken' = [joinTaken EXCEPT ![j] = FALSE]
        BY <3>1, <3>3
      <4>2. ~joinTaken'[k]
        BY <1>1, <3>3, <4>1, TypeParts DEF ViewType
      <4> QED BY <3>2, <3>3, <4>2 DEF JoinInv
    <3>4. CASE k # j
      <4>1. /\ step'[k] = step[k] /\ holders'[k] = holders[k]
            /\ joinTaken'[k] = joinTaken[k]
        BY <1>1, <3>1, <3>4, Domains, TypeParts DEF ViewType
      <4> QED BY <1>1, <1>2, <4>1 DEF JoinInv
    <3> QED BY <2>1, <3>3, <3>4
  <2> QED BY <2>1, <2>2 DEF MountStep, Mount, RecoverRow, RecoverDone, Ready, entryVars
<1>6. CloseInv(p)'
  BY <1>2, <1>3 DEF CloseInv
<1>7. ASSUME NEW q \in Projects \ {p} PROVE CloseInv(q)'
  <2>1. \A k \in JobsOf(q) : Left(k)' <=> Left(k)
    BY <1>2, <1>5 DEF Left, JobsOf
  <2>2. \A k \in todo[q] : k \in Jobs
    BY <1>1, Domains
  <2> QED BY <1>1, <1>2, <1>4, <1>5, <2>1, <2>2 DEF CloseInv, JobsOf
<1> QED BY <1>5, <1>6, <1>7 DEF QuietInv

LEMMA JobsQuiet ==
    ASSUME IInv, QuietInv, NEW j \in Jobs,
           StartStep(j) \/ Exit(j) \/ MonitorStep(j) \/ FinishStep(j) \/ UserStep(j)
    PROVE  QuietInv'
<1>1. /\ TypeOK /\ (\A k \in Jobs : JoinInv(k))
      /\ \A q \in Projects : CloseInv(q)
  BY DEF IInv, QuietInv
<1>2. /\ UNCHANGED <<mount, closed, closeErr, todo, joinTaken>>
      /\ \A q \in Projects : /\ admission'[q] = "close" <=> admission[q] = "close"
                             /\ admission'[q] = "start" => ~closed[q]
  BY JobStepHost
<1>3. ASSUME NEW k \in Jobs
      PROVE  /\ closed[ProjectOf[k]] => /\ "map" \in holders[k] => "map" \in holders'[k]
                                        /\ Left(k) => Left(k)'
             /\ step[k] \notin Unjoined => step'[k] \notin Unjoined
             /\ "monitor" \in holders'[k] => "monitor" \in holders[k] \/ step[k] = "spawn"
  <2>1. CASE Prepare(j)
    BY <2>1, PrepareQuiet
  <2>2. CASE ~Prepare(j)
    <3>1. Register(j) \/ Launch(j) \/ Spawn(j) \/ Exit(j) \/ MonitorStep(j)
             \/ FinishStep(j) \/ UserStep(j)
      BY <2>2 DEF StartStep
    <3> QED BY <3>1, JobStepQuiet
  <2> QED BY <2>1, <2>2
<1>4. ASSUME NEW k \in Jobs PROVE JoinInv(k)'
  <2>1. "spawn" \in Unjoined
    BY DEF Unjoined
  <2> QED BY <1>1, <1>2, <1>3, <2>1 DEF JoinInv
<1>5. ASSUME NEW q \in Projects PROVE CloseInv(q)'
  <2>1. \A k \in todo[q] : k \in Jobs
    BY <1>1, Domains
  <2>2. closed[q] => \A k \in JobsOf(q) : Left(k) => Left(k)'
    BY <1>3 DEF JobsOf
  <2> QED BY <1>1, <1>2, <1>3, <2>1, <2>2 DEF CloseInv, JobsOf
<1> QED BY <1>4, <1>5 DEF QuietInv

LEMMA QuietStep == IInv /\ QuietInv /\ [Next]_vars => QuietInv'
<1> SUFFICES ASSUME IInv, QuietInv, [Next]_vars PROVE QuietInv'
  OBVIOUS
<1>1. ASSUME NEW j \in Jobs,
             StartStep(j) \/ Exit(j) \/ MonitorStep(j) \/ FinishStep(j) \/ UserStep(j)
      PROVE  QuietInv'
  BY <1>1, JobsQuiet
<1>2. ASSUME NEW p \in Projects, CloseStep(p) \/ MountStep(p) PROVE QuietInv'
  BY <1>2, CloseBeginQuiet, CloseEntryQuiet, CloseEndQuiet, UnmountQuiet, MountQuiet
  DEF CloseStep
<1>3. CASE Crash
  BY <1>3 DEF Crash, QuietInv, JoinInv, CloseInv
<1>4. CASE UNCHANGED vars
  BY <1>4 DEF QuietInv, JoinInv, CloseInv, Left, JobsOf, vars, worldVars, hostVars,
     entryVars
<1> QED BY <1>1, <1>2, <1>3, <1>4 DEF Next

(* What close has left holds no unsaved verdict, no running command and no *)
(* thread at work.                                                         *)
LEMMA QuietNow == IInv /\ QuietInv => ClosedIsQuiet
<1> SUFFICES ASSUME IInv, QuietInv, NEW p \in Projects, closed[p],
                    admission[p] = "free", ~closeErr[p], NEW j \in JobsOf(p)
             PROVE  /\ run[j] # "running" /\ holders[j] \subseteq {"map", "reader"}
                    /\ "map" \in holders[j] => ~Unresolved(j)
  BY DEF ClosedIsQuiet
<1>1. /\ TypeOK /\ CloseInv(p) /\ j \in Jobs /\ OwnerInv(j) /\ RunInv(j)
  BY DEF IInv, QuietInv, JobsOf
<1>2. Left(j)
  BY <1>1 DEF CloseInv
<1>3. step[j] \in Absent \cup {"done"} /\ holders[j] \in SUBSET Owners
  BY <1>1, <1>2, LeftStep, Domains
<1>4. holders[j] \subseteq {"map", "reader"}
  BY <1>2, <1>3 DEF Left, Owners
<1>5. "map" \in holders[j] => ~Unresolved(j)
  BY <1>1, <1>2, <1>3 DEF Left, OwnerInv, Unresolved
<1>6. run[j] # "running"
  BY <1>1, <1>2, <1>3 DEF Left, RunInv, Absent, Ending
<1> QED BY <1>4, <1>5, <1>6

(* A registry whose every close returned Ok has nothing at work or unsaved *)
(* behind it: a start that was under way has finished or never got the     *)
(* lock, each monitor was joined, and a retry saved what was left.         *)
THEOREM ClosedQuiet == Spec => []ClosedIsQuiet
<1>1. Init => QuietInv
  BY DEF Init, QuietInv, JoinInv, CloseInv
<1>2. Spec => []QuietInv
  BY <1>1, QuietStep, Invariant, PTL DEF Spec
<1> QED BY <1>2, QuietNow, Invariant, PTL
===============================================================================
