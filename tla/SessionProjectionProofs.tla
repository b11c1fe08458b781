---------------------- MODULE SessionProjectionProofs ----------------------
(***************************************************************************)
(* Proofs about SessionProjection, for every set of clients, every bound   *)
(* and every choice of faults.                                             *)
(*                                                                         *)
(* What the readers do is a step of the journal, so its invariants hold    *)
(* under them.  OwnerInv says who owns and who closes the coordinator,     *)
(* ReadInv the types of what is read and who is in a call.  While the      *)
(* session is ordinary (Ordinary) the journal's log and queue are one      *)
(* dense sequence, Stream, that only grows, and Faithful places what the   *)
(* readers have in it: the projections and the replay at its beginning     *)
(* (ViewInv), what the lane has taken out and then the copies at its end   *)
(* (LaneInv), and the seed an install will skip (SeedInv).                 *)
(***************************************************************************)
EXTENDS SessionProjection, JournalDurabilityProofs, WellFoundedInduction

-----------------------------------------------------------------------------
(* The journal under its readers *)

(* Whatever the services do is a step of the journal, or leaves it alone.  *)
LEMMA JournalSteps == IInv /\ [ProjectionNext]_allVars => [Next]_vars
<1> SUFFICES ASSUME IInv, [ProjectionNext]_allVars PROVE [Next]_vars
  OBVIOUS
<1>1. \A c \in Clients : pc[c] # "idle" => up
  BY DEF IInv, ControlInv, DownControl
<1>2. ASSUME NEW c \in Clients, CallStep(c) PROVE [Next]_vars
  <2>1. CASE up /\ (FlushEnter(c) \/ FlushWake(c) \/ DiscardTail(c) \/ CloseJoin(c))
    BY <2>1 DEF Next, ClientStep
  <2>2. CASE LaneFlushed(c) \/ InstallFlushed(c)
    BY <1>1, <2>2 DEF LaneFlushed, InstallFlushed, FlushReturn, Next, ClientStep
  <2>3. CASE LaneCommitted(c)
    BY <1>1, <2>3 DEF LaneCommitted, DurableCommitted, Next, ClientStep
  <2>4. CASE LaneRejected(c)
    <3>1. DurableFailed(c) \/ DiscardRefused(c) \/ DurableRollback(c)
      BY <2>4 DEF LaneRejected
    <3>2. up
      BY <1>1, <3>1 DEF DurableFailed, DiscardRefused, DurableRollback
    <3> QED BY <3>1, <3>2 DEF Next, ClientStep
  <2>5. CASE CutPending(c) \/ FoldDirect(c) \/ FoldTail(c) \/ InstallRead(c)
             \/ InstallPublish(c)
    BY <2>5 DEF CutPending, FoldDirect, FoldTail, InstallRead, InstallPublish
  <2>6. CASE InstallFlush(c)
    BY <2>6 DEF InstallFlush, Next, ClientCall
  <2>7. CASE ReleaseWriter(c) \/ ReleaseClosed(c)
    BY <2>7 DEF ReleaseWriter, ReleaseClosed, Next, ClientCall
  <2> QED BY <1>2, <2>1, <2>2, <2>3, <2>4, <2>5, <2>6, <2>7 DEF CallStep
<1>3. ASSUME NEW c \in Clients, ServiceCall(c) PROVE [Next]_vars
  BY <1>3 DEF ServiceCall, LaneAppend, LaneFlush, LaneDurable, ReadProjections,
     ReadReplay, ArmShared, ArmCold, InstallSeed, Quiesce, DiscardArmed, Next,
     ClientCall
<1>4. CASE WriterStep \/ TimerStep \/ Die \/ LoadRepair \/ RepairInterrupted
  BY <1>4 DEF WriterStep, TimerStep, Die, Next
<1>5. CASE UNCHANGED allVars
  BY <1>5 DEF allVars
<1> QED BY <1>2, <1>3, <1>4, <1>5 DEF ProjectionNext

(* The invariant of the journal holds under its readers. *)
LEMMA JournalHolds == ProjectionSpec => []IInv
<1>1. ProjectionInit => IInv
  BY InitInvariant DEF ProjectionInit
<1>2. IInv /\ [ProjectionNext]_allVars => IInv'
  BY JournalSteps, TypeStep, ControlStep, DiskStep, QueueStep DEF IInv
<1> QED BY <1>1, <1>2, PTL DEF ProjectionSpec

(* Services that share a coordinator, fold and read beside its writer and  *)
(* close it as its last owner let the journal do nothing it could not do   *)
(* with independent clients: what is proved of SessionJournal holds here.  *)
THEOREM ReadersUseJournal == ProjectionSpec => Spec
<1>1. ProjectionInit => Init
  BY DEF ProjectionInit
<1> QED BY <1>1, JournalHolds, JournalSteps, PTL DEF ProjectionSpec, Spec

-----------------------------------------------------------------------------
(* Owners *)

(* A service is in a step of its own only while it owns the session; the   *)
(* lock of the table is held by the one that closes, which is then the     *)
(* only owner.                                                             *)
Phases == {"none", "armed", "active"}
Stages == {"none", "seeded", "unseeded", "flushed", "publish", "leaving", "closing"}
OwnerInv ==
    /\ holds \in [Clients -> Phases] /\ step \in [Clients -> Stages]
    /\ table \in Clients \cup {Nobody}
    /\ \A c \in Clients :
          /\ step[c] # "none" => holds[c] # "none"
          /\ step[c] = "closing" <=> table = c
          /\ step[c] = "closing" => Holders = {c}
    /\ closed => table # Nobody
    /\ up => Holders # {}

(* Calls and the writer neither close nor open a coordinator.              *)
LEMMA CoordinatorStays ==
    ASSUME NEW c \in Clients,
           \/ AppendAtomic(c) \/ EnqueueSeed \/ FlushStart(c) \/ DurableStart(c)
           \/ FlushEnter(c) \/ FlushWake(c) \/ FlushReturn(c)
           \/ DurableCommitted(c) \/ DurableFailed(c) \/ DiscardTail(c)
           \/ DiscardRefused(c) \/ DurableRollback(c) \/ CloseJoin(c)
           \/ WorkerStep \/ WindowExpires \/ LoadRepair \/ RepairInterrupted
           \/ UNCHANGED vars
    PROVE  closed' = closed /\ up' = up
<1>1. CASE AppendAtomic(c) \/ EnqueueSeed \/ FlushStart(c) \/ DurableStart(c)
  BY <1>1 DEF AppendAtomic, EnqueueSeed, EnqueueGroup, Enqueue, FlushStart,
     DurableStart, clientVars, queueVars
<1>2. CASE \/ FlushEnter(c) \/ FlushWake(c) \/ FlushReturn(c)
           \/ DurableCommitted(c) \/ DurableFailed(c) \/ DiscardTail(c)
           \/ DiscardRefused(c) \/ DurableRollback(c) \/ CloseJoin(c)
  BY <1>2 DEF FlushEnter, FlushWake, FlushReturn, DurableCommitted, DurableFailed,
     DiscardTail, DiscardRefused, DurableRollback, CloseJoin, queueVars
<1>3. CASE WorkerStep
  BY <1>3 DEF WorkerStep, WorkerTake, WriteCommits, WriteNotCommitted, WriteUnknown,
     WriteOutcome, SettleCommitted, SettleRestored, SettleDropped, WorkerExit,
     clientVars, queueVars
<1>4. CASE WindowExpires \/ LoadRepair \/ RepairInterrupted \/ UNCHANGED vars
  BY <1>4 DEF WindowExpires, LoadRepair, RepairInterrupted, clientVars, queueVars, vars
<1> QED BY <1>1, <1>2, <1>3, <1>4

(* A step that touches neither owners nor the table.                       *)
LEMMA OwnersStay ==
    ASSUME OwnerInv, UNCHANGED <<holds, step, table>>, closed' = closed, up' = up
    PROVE  OwnerInv'
BY DEF OwnerInv, Holders

(* Every step keeps OwnerInv. *)
LEMMA OwnerStep == IInv /\ OwnerInv /\ [ProjectionNext]_allVars => OwnerInv'
<1> SUFFICES ASSUME IInv, OwnerInv, [ProjectionNext]_allVars PROVE OwnerInv'
  OBVIOUS
<1>1. ASSUME NEW c \in Clients,
             \/ /\ up /\ UNCHANGED readVars
                /\ FlushEnter(c) \/ FlushWake(c) \/ DiscardTail(c) \/ CloseJoin(c)
             \/ LaneFlushed(c) \/ LaneCommitted(c) \/ LaneRejected(c)
             \/ CutPending(c) \/ FoldDirect(c) \/ FoldTail(c) \/ InstallFlush(c)
             \/ LaneAppend(c) \/ LaneFlush(c) \/ LaneDurable(c)
             \/ ReadProjections(c) \/ ReadReplay(c)
      PROVE  OwnerInv'
  <2>1. UNCHANGED <<holds, step, table>>
    BY <1>1 DEF LaneFlushed, LaneCommitted, LaneRejected, CutPending, FoldDirect,
       FoldTail, InstallFlush, LaneAppend, LaneFlush, LaneDurable, ReadProjections,
       ReadReplay, readVars, tableVars
  <2>2. closed' = closed /\ up' = up
    BY <1>1, CoordinatorStays DEF LaneFlushed, LaneCommitted, LaneRejected, CutPending,
       FoldDirect, FoldTail, InstallFlush, LaneAppend, LaneFlush, LaneDurable,
       ReadProjections, ReadReplay
  <2> QED BY <2>1, <2>2, OwnersStay
<1>2. CASE \/ WriterStep \/ TimerStep \/ UNCHANGED allVars
           \/ (LoadRepair \/ RepairInterrupted) /\ UNCHANGED readVars
  <2>1. UNCHANGED <<holds, step, table>>
    BY <1>2 DEF WriterStep, TimerStep, readVars, tableVars, allVars
  <2>2. closed' = closed /\ up' = up
    BY <1>2 DEF WriterStep, TimerStep, WorkerStep, WorkerTake, WriteCommits,
       WriteNotCommitted, WriteUnknown, WriteOutcome, SettleCommitted, SettleRestored,
       SettleDropped, WorkerExit, WindowExpires, LoadRepair, RepairInterrupted,
       clientVars, queueVars, vars, allVars
  <2> QED BY <2>1, <2>2, OwnersStay
(* An owner stays an owner while it installs or prepares to leave. *)
<1>3. ASSUME NEW c \in Clients, NEW h \in {"armed", "active"},
             NEW s \in Stages \ {"closing"}, holds[c] # "none", step[c] # "closing",
             holds' = [holds EXCEPT ![c] = h] \/ holds' = holds,
             step' = [step EXCEPT ![c] = s],
             table' = table, closed' = closed, up' = up
      PROVE  OwnerInv'
  <2>1. Holders' = Holders
    BY <1>3 DEF OwnerInv, Holders
  <2>2. holds' \in [Clients -> Phases] /\ step' \in [Clients -> Stages]
    BY <1>3 DEF OwnerInv, Phases
  <2>3. ASSUME NEW d \in Clients
        PROVE  /\ step'[d] # "none" => holds'[d] # "none"
               /\ step'[d] = "closing" <=> step[d] = "closing"
    BY <1>3 DEF OwnerInv
  <2> QED BY <1>3, <2>1, <2>2, <2>3 DEF OwnerInv
<1>4. ASSUME NEW c \in Clients,
             \/ InstallSeed(c) \/ InstallFlushed(c) \/ InstallRead(c)
             \/ InstallPublish(c) \/ Quiesce(c) \/ DiscardArmed(c)
      PROVE  OwnerInv'
  <2>1. closed' = closed /\ up' = up
    BY <1>4, CoordinatorStays DEF InstallSeed, InstallFlushed, InstallRead,
       InstallPublish, Quiesce, DiscardArmed
  <2>2. holds[c] # "none" /\ step[c] # "closing"
    BY <1>4 DEF InstallSeed, InstallFlushed, InstallRead, InstallPublish, Quiesce,
       DiscardArmed, InUse, OwnerInv
  <2>3. table' = table
    BY <1>4 DEF InstallSeed, InstallFlushed, InstallRead, InstallPublish, Quiesce,
       DiscardArmed
  <2>4. PICK h \in {"armed", "active"}, s \in Stages \ {"closing"} :
           /\ holds' = [holds EXCEPT ![c] = h] \/ holds' = holds
           /\ step' = [step EXCEPT ![c] = s]
    <3>1. CASE InstallSeed(c) \/ Quiesce(c) \/ DiscardArmed(c)
      BY <3>1, Zenon DEF InstallSeed, Quiesce, DiscardArmed, Stages
    <3>2. CASE InstallFlushed(c) \/ InstallRead(c) \/ InstallPublish(c)
      BY <3>2, Zenon DEF InstallFlushed, InstallRead, InstallPublish, Installed, Stages
    <3> QED BY <1>4, <3>1, <3>2
  <2> QED BY <1>3, <2>1, <2>2, <2>3, <2>4
(* While the table is free nobody closes, and a new owner may come. *)
<1>5. ASSUME NEW c \in Clients, ArmShared(c) \/ ArmCold(c)
      PROVE  OwnerInv'
  <2>1. /\ table = Nobody /\ table' = table /\ step' = step
        /\ \A d \in Clients : step[d] # "closing"
    BY <1>5, NobodyAssumption DEF ArmShared, ArmCold, OwnerInv
  <2>2. ~closed'
    <3>1. CASE ArmShared(c)
      BY <2>1, <3>1 DEF ArmShared, OwnerInv, vars, queueVars
    <3>2. CASE ArmCold(c)
      BY <2>1, <3>2 DEF ArmCold, OwnerInv, Reopen, queueVars
    <3> QED BY <1>5, <3>1, <3>2
  <2>3. \/ holds' = [holds EXCEPT ![c] = "armed"]
        \/ holds' = holds /\ Holders # {}
    <3>1. CASE ArmShared(c)
      BY <3>1, Zenon DEF ArmShared
    <3>2. CASE ArmCold(c)
      BY <3>2, Zenon DEF ArmCold
    <3> QED BY <1>5, <3>1, <3>2
  <2>4. holds' \in [Clients -> Phases] /\ Holders' # {}
    BY <2>3 DEF OwnerInv, Phases, Holders
  <2>5. \A d \in Clients : holds[d] # "none" => holds'[d] # "none"
    BY <2>3 DEF OwnerInv
  <2> QED BY <2>1, <2>2, <2>4, <2>5 DEF OwnerInv
(* The last owner takes the table as it closes; another leaves an owner. *)
<1>6. ASSUME NEW c \in Clients, ReleaseWriter(c)
      PROVE  OwnerInv'
  <2>1. /\ table = Nobody /\ step[c] = "leaving" /\ holds[c] # "none"
        /\ \A d \in Clients : step[d] # "closing"
    BY <1>6, NobodyAssumption DEF ReleaseWriter, OwnerInv
  <2>2. CASE Holders = {c}
    <3>1. /\ table' = c /\ step' = [step EXCEPT ![c] = "closing"] /\ holds' = holds
      BY <1>6, <2>2 DEF ReleaseWriter, LastHolder
    <3> QED BY <2>1, <2>2, <3>1, NobodyAssumption DEF OwnerInv, Stages, Holders
  <2>3. CASE Holders # {c}
    <3>1. /\ table' = table /\ step' = [step EXCEPT ![c] = "none"]
          /\ holds' = [holds EXCEPT ![c] = "none"] /\ closed' = closed /\ up' = up
      <4>1. LetGo(c) /\ UNCHANGED <<vars, table>>
        BY <1>6, <2>3, Zenon DEF ReleaseWriter, LastHolder
      <4> QED BY <4>1 DEF LetGo, vars, queueVars, clientVars
    <3>2. holds' \in [Clients -> Phases] /\ step' \in [Clients -> Stages]
      BY <3>1 DEF OwnerInv, Phases, Stages
    <3>3. Holders' # {}
      BY <2>1, <2>3, <3>1 DEF OwnerInv, Holders
    <3>4. ASSUME NEW d \in Clients
          PROVE  /\ step'[d] # "none" => holds'[d] # "none"
                 /\ step'[d] # "closing"
      BY <2>1, <3>1 DEF OwnerInv
    <3> QED BY <2>1, <3>1, <3>2, <3>3, <3>4, NobodyAssumption DEF OwnerInv
  <2> QED BY <2>2, <2>3
<1>7. ASSUME NEW c \in Clients, ReleaseClosed(c)
      PROVE  OwnerInv'
  <2>1. /\ ~closed' /\ ~up' /\ table' = Nobody
        /\ holds' = [holds EXCEPT ![c] = "none"] /\ step' = [step EXCEPT ![c] = "none"]
    BY <1>7 DEF ReleaseClosed, Release, Forget, LetGo, ForgetViews
  <2>2. table = c
    BY <1>7 DEF ReleaseClosed, OwnerInv
  <2>3. holds' \in [Clients -> Phases] /\ step' \in [Clients -> Stages]
    BY <2>1 DEF OwnerInv, Phases, Stages
  <2>4. ASSUME NEW d \in Clients
        PROVE  /\ step'[d] # "none" => holds'[d] # "none"
               /\ step'[d] # "closing"
    BY <2>1, <2>2 DEF OwnerInv
  <2> QED BY <2>1, <2>3, <2>4, NobodyAssumption DEF OwnerInv
<1>8. CASE Die
  <2>1. /\ ~closed' /\ ~up' /\ table' = Nobody
        /\ holds' = [c \in Clients |-> "none"] /\ step' = [c \in Clients |-> "none"]
    BY <1>8 DEF Die, Crash, Forget, ForgetViews
  <2> QED BY <2>1, NobodyAssumption DEF OwnerInv, Phases, Stages
<1>9. ASSUME NEW c \in Clients, CallStep(c) \/ ServiceCall(c) PROVE OwnerInv'
  BY <1>1, <1>4, <1>5, <1>6, <1>7, <1>9, Zenon DEF CallStep, ServiceCall
<1> QED BY <1>2, <1>8, <1>9, Zenon DEF ProjectionNext

(* The first owner of a session that is being opened owns it alone.        *)
LEMMA OwnerInit == ProjectionInit => OwnerInv
<1> SUFFICES ASSUME ProjectionInit PROVE OwnerInv
  OBVIOUS
<1>1. PICK c \in Clients :
         holds = [d \in Clients |-> IF d = c THEN "active" ELSE "none"]
  BY DEF ProjectionInit
<1>2. holds \in [Clients -> Phases] /\ c \in Holders
  BY <1>1 DEF Phases, Holders
<1>3. /\ table = Nobody /\ step = [d \in Clients |-> "none"] /\ ~closed
  BY DEF ProjectionInit, Init
<1> QED BY <1>2, <1>3, NobodyAssumption DEF OwnerInv, Stages

(* A coordinator is closed by its last owner under the lock of the table,  *)
(* nobody owns it or comes to own it while it closes, and none is left     *)
(* running that nobody owns: arm_session, release_writer and their lock.   *)
THEOREM LastOwnerClosesIt == ProjectionSpec => []LastOwnerCloses
<1>1. OwnerInv => LastOwnerCloses
  BY DEF OwnerInv, LastOwnerCloses
<1> QED BY <1>1, OwnerInit, OwnerStep, JournalHolds, PTL DEF ProjectionSpec

-----------------------------------------------------------------------------
(* Sequences of events, and the functions that recurse along one *)

(* Induction along an initial segment of the naturals.                     *)
LEMMA Upwards ==
    ASSUME NEW n \in Nat, NEW S, 0 \in S,
           \A i \in 0 .. n - 1 : i \in S => i + 1 \in S
    PROVE  0 .. n \subseteq S
<1> DEFINE Out == {i \in 0 .. n : i \notin S}
<1>1. SUFFICES ASSUME Out # {} PROVE FALSE
  OBVIOUS
<1>2. PICK m \in Out : \A k \in Out : m <= k
  <2>1. PICK m \in Out : \A k \in Out : ~ <<k, m>> \in OpToRel(<, Nat)
    <3>1. Out \subseteq Nat
      OBVIOUS
    <3> HIDE DEF Out
    <3> QED BY <1>1, <3>1, NatLessThanWellFounded, WFMin
  <2>2. ASSUME NEW k \in Nat, NEW l \in Nat, k < l PROVE <<k, l>> \in OpToRel(<, Nat)
    BY <2>2 DEF OpToRel
  <2>3. \A k \in Out : k \in Nat /\ m \in Nat
    OBVIOUS
  <2> HIDE DEF Out
  <2>4. \A k \in Out : ~ (k < m)
    BY <2>1, <2>2, <2>3
  <2>5. \A k \in Out : m <= k
    BY <2>3, <2>4
  <2> QED BY <2>5
<1>3. m \in 1 .. n /\ m - 1 \in 0 .. n - 1 /\ m - 1 \notin Out
  BY <1>2
<1> QED BY <1>2, <1>3

(* What one event adds to the replay. *)
Kept(replay, e) == IF e.grp = Seed THEN replay ELSE Append(replay, e)

(* The replay behind each event, as a recursion. *)
LEMMA ReplayStep ==
    ASSUME NEW L \in Seq(Event)
    PROVE  /\ ReplayOf(L)[0] = <<>>
           /\ \A i \in 1 .. Len(L) : ReplayOf(L)[i] = Kept(ReplayOf(L)[i - 1], L[i])
<1> DEFINE Solves(f, n) ==
             f = [i \in 0 .. n |-> IF i = 0 THEN <<>>
                                   ELSE IF L[i].grp = Seed THEN f[i - 1]
                                        ELSE Append(f[i - 1], L[i])]
           Solvable == {n \in 0 .. Len(L) : \E f : Solves(f, n)}
<1>1. Len(L) \in Nat
  OBVIOUS
<1>2. 0 \in Solvable
  <2> DEFINE f == [i \in 0 .. 0 |-> <<>>]
  <2>1. f = [i \in 0 .. 0 |-> IF i = 0 THEN <<>>
                              ELSE IF L[i].grp = Seed THEN f[i - 1]
                                   ELSE Append(f[i - 1], L[i])]
    <3>1. \A i \in 0 .. 0 : i = 0
      OBVIOUS
    <3> QED BY <3>1
  <2>2. Solves(f, 0)
    BY <2>1
  <2> HIDE DEF Solves, f
  <2> QED BY <2>2, <1>1
<1>3. \A n \in 0 .. Len(L) - 1 : n \in Solvable => n + 1 \in Solvable
  <2> SUFFICES ASSUME NEW n \in 0 .. Len(L) - 1, NEW f, Solves(f, n)
               PROVE  n + 1 \in Solvable
    OBVIOUS
  <2> DEFINE last == IF L[n + 1].grp = Seed THEN f[n] ELSE Append(f[n], L[n + 1])
             g == [i \in 0 .. n + 1 |-> IF i = n + 1 THEN last ELSE f[i]]
  <2>1. \A i \in 0 .. n : f[i] = IF i = 0 THEN <<>>
                                 ELSE IF L[i].grp = Seed THEN f[i - 1]
                                      ELSE Append(f[i - 1], L[i])
    OBVIOUS
  <2> HIDE DEF Solves, last
  <2>2. ASSUME NEW i \in 0 .. n + 1
        PROVE  g[i] = IF i = 0 THEN <<>>
                      ELSE IF L[i].grp = Seed THEN g[i - 1]
                           ELSE Append(g[i - 1], L[i])
    <3>1. CASE i = n + 1
      BY <3>1 DEF last
    <3>2. CASE i # n + 1
      BY <3>2, <2>1
    <3> QED BY <3>1, <3>2
  <2>3. g = [i \in 0 .. n + 1 |-> IF i = 0 THEN <<>>
                                  ELSE IF L[i].grp = Seed THEN g[i - 1]
                                       ELSE Append(g[i - 1], L[i])]
    BY <2>2
  <2>4. Solves(g, n + 1)
    BY <2>3 DEF Solves
  <2> HIDE DEF g
  <2> QED BY <2>4, <1>1
<1>4. Len(L) \in Solvable
  <2> HIDE DEF Solvable
  <2>1. 0 .. Len(L) \subseteq Solvable
    BY <1>1, <1>2, <1>3, Upwards
  <2> QED BY <1>1, <2>1
<1>5. ReplayOf(L) = CHOOSE f : Solves(f, Len(L))
  BY DEF ReplayOf
<1>6. PICK f : Solves(f, Len(L))
  BY <1>4
<1>7. Solves(ReplayOf(L), Len(L))
  <2> HIDE DEF Solves
  <2> QED BY <1>5, <1>6
<1>8. \A i \in 0 .. Len(L) :
         ReplayOf(L)[i] = IF i = 0 THEN <<>>
                          ELSE IF L[i].grp = Seed THEN ReplayOf(L)[i - 1]
                               ELSE Append(ReplayOf(L)[i - 1], L[i])
  BY <1>7
<1> QED BY <1>1, <1>8 DEF Kept

\* s is in S from behind position lo on.
Lies(s, lo, S) == lo + Len(s) <= Len(S) /\ \A i \in 1 .. Len(s) : s[i] = S[lo + i]

(* The replay of what a sequence begins with.                              *)
LEMMA ReplayPrefix ==
    ASSUME NEW L \in Seq(Event), NEW M \in Seq(Event), Lies(L, 0, M)
    PROVE  \A i \in 0 .. Len(L) :
              ReplayOf(L)[i] = ReplayOf(M)[i] /\ ReplayOf(L)[i] \in Seq(Event)
<1>1. /\ Len(L) \in Nat /\ Len(M) \in Nat /\ Len(L) <= Len(M)
      /\ \A i \in 1 .. Len(L) : L[i] = M[i] /\ L[i] \in Event
  BY DEF Lies
<1>2. /\ ReplayOf(L)[0] = <<>>
      /\ \A i \in 1 .. Len(L) : ReplayOf(L)[i] = Kept(ReplayOf(L)[i - 1], L[i])
  BY ReplayStep
<1>3. /\ ReplayOf(M)[0] = <<>>
      /\ \A i \in 1 .. Len(M) : ReplayOf(M)[i] = Kept(ReplayOf(M)[i - 1], M[i])
  BY ReplayStep
<1> DEFINE Same == {i \in 0 .. Len(L) : ReplayOf(L)[i] = ReplayOf(M)[i]
                                        /\ ReplayOf(L)[i] \in Seq(Event)}
<1>4. 0 \in Same
  <2>1. 0 \in 0 .. Len(L) /\ <<>> \in Seq(Event)
    BY <1>1, EmptySeq
  <2> QED BY <1>2, <1>3, <2>1
<1>5. ASSUME NEW i \in 0 .. Len(L) - 1, i \in Same PROVE i + 1 \in Same
  <2>1. i + 1 \in 1 .. Len(L) /\ i + 1 \in 1 .. Len(M) /\ (i + 1) - 1 = i
    BY <1>1
  <2>2. PICK r, e : r = ReplayOf(L)[i] /\ e = L[i + 1]
    OBVIOUS
  <2>3. /\ ReplayOf(L)[i + 1] = Kept(r, e) /\ ReplayOf(M)[i + 1] = Kept(r, e)
        /\ r \in Seq(Event) /\ e \in Event
    BY <1>1, <1>2, <1>3, <1>5, <2>1, <2>2
  <2>4. Kept(r, e) \in Seq(Event)
    BY <2>3 DEF Kept
  <2> QED BY <2>1, <2>3, <2>4
<1> HIDE DEF Same
<1>6. 0 .. Len(L) \subseteq Same
  BY <1>1, <1>4, <1>5, Upwards
<1> QED BY <1>6 DEF Same

(* The replay of two sequences, one behind the other.                      *)
LEMMA ReplayConcat ==
    ASSUME NEW L \in Seq(Event), NEW M \in Seq(Event)
    PROVE  /\ Replayable(L) \in Seq(Event) /\ Replayable(M) \in Seq(Event)
           /\ Replayable(L \o M) = Replayable(L) \o Replayable(M)
<1>1. PICK N \in Seq(Event) : N = L \o M
  BY Concat
<1>2. /\ Len(L) \in Nat /\ Len(M) \in Nat /\ Len(N) = Len(L) + Len(M)
      /\ \A i \in 1 .. Len(L) : N[i] = L[i]
      /\ \A i \in 1 .. Len(M) : N[Len(L) + i] = M[i] /\ M[i] \in Event
  BY <1>1, Concat
<1>3. Lies(L, 0, N) /\ Lies(L, 0, L) /\ Lies(M, 0, M)
  BY <1>2 DEF Lies
<1>4. PICK r : r = Replayable(L)
  OBVIOUS
<1>5. r \in Seq(Event) /\ ReplayOf(N)[Len(L)] = r
  BY <1>2, <1>3, <1>4, ReplayPrefix DEF Replayable
<1>6. \A i \in 0 .. Len(M) : ReplayOf(M)[i] \in Seq(Event)
  BY <1>3, ReplayPrefix
<1> DEFINE Same == {i \in 0 .. Len(M) : ReplayOf(N)[Len(L) + i] = r \o ReplayOf(M)[i]}
<1>7. /\ ReplayOf(M)[0] = <<>>
      /\ \A i \in 1 .. Len(M) : ReplayOf(M)[i] = Kept(ReplayOf(M)[i - 1], M[i])
  BY ReplayStep
<1>8. \A i \in 1 .. Len(N) : ReplayOf(N)[i] = Kept(ReplayOf(N)[i - 1], N[i])
  BY ReplayStep
<1>9. 0 \in Same
  <2>1. r \o <<>> = r
    BY <1>5, ConcatEmpty
  <2> QED BY <1>2, <1>5, <1>7, <2>1
<1>10. ASSUME NEW i \in 0 .. Len(M) - 1, i \in Same PROVE i + 1 \in Same
  <2>1. /\ i + 1 \in 1 .. Len(M) /\ (i + 1) - 1 = i /\ Len(L) + (i + 1) \in 1 .. Len(N)
        /\ (Len(L) + (i + 1)) - 1 = Len(L) + i /\ i \in 0 .. Len(M)
    BY <1>2
  <2>2. PICK t, e : t = ReplayOf(M)[i] /\ e = M[i + 1]
    OBVIOUS
  <2>3. t \in Seq(Event) /\ e \in Event /\ N[Len(L) + (i + 1)] = e
    BY <1>2, <1>6, <2>1, <2>2
  <2>4. ReplayOf(M)[i + 1] = Kept(t, e) /\ ReplayOf(N)[Len(L) + (i + 1)] = Kept(r \o t, e)
    BY <1>7, <1>8, <1>10, <2>1, <2>2, <2>3
  <2>5. Append(r \o t, e) = r \o Append(t, e)
    <3>1. r \in Seq(Event) /\ r \o t \in Seq(Event)
      BY <1>5, <2>3, Concat
    <3>2. PICK w \in Seq(Event) : w = <<e>>
      <4>1. PICK d \in Event : d = e
        BY <2>3
      <4>2. <<d>> \in Seq(Event)
        OBVIOUS
      <4> QED BY <4>1, <4>2
    <3>3. Append(r \o t, e) = (r \o t) \o w /\ Append(t, e) = t \o w
      BY <2>3, <3>1, <3>2, AppendIsConcat
    <3>4. (r \o t) \o w = r \o (t \o w)
      <4>1. PICK x \in Seq(Event), y \in Seq(Event) : x = r /\ y = t
        BY <2>3, <3>1
      <4>2. (x \o y) \o w = x \o (y \o w)
        BY ConcatAssociates, SMTT(30)
      <4> QED BY <4>1, <4>2
    <3> QED BY <3>3, <3>4
  <2>6. Kept(r \o t, e) = r \o Kept(t, e)
    BY <2>5 DEF Kept
  <2>7. ReplayOf(N)[Len(L) + (i + 1)] = r \o ReplayOf(M)[i + 1]
    BY <2>4, <2>6
  <2> QED BY <2>1, <2>7
<1> HIDE DEF Same
<1>11. 0 .. Len(M) \subseteq Same
  BY <1>2, <1>9, <1>10, Upwards
<1>12. Len(M) \in Same /\ Len(M) \in 0 .. Len(M)
  BY <1>2, <1>11
<1>13. ReplayOf(N)[Len(N)] = r \o ReplayOf(M)[Len(M)]
  BY <1>2, <1>12 DEF Same
<1> QED BY <1>1, <1>4, <1>5, <1>6, <1>12, <1>13 DEF Replayable

(* A seed adds nothing. *)
LEMMA ReplaySeed ==
    ASSUME NEW L \in Seq(Event), NEW M \in Seq(Event), Lies(M, 0, L), Len(L) = Len(M) + 1,
           L[Len(L)].grp = Seed
    PROVE  Replayable(L) = Replayable(M)
<1>1. Len(M) \in 0 .. Len(M) /\ Len(L) \in 1 .. Len(L) /\ Len(L) - 1 = Len(M)
  OBVIOUS
<1>2. ReplayOf(L)[Len(L)] = Kept(ReplayOf(L)[Len(M)], L[Len(L)])
  BY <1>1, ReplayStep
<1>3. ReplayOf(L)[Len(M)] = ReplayOf(M)[Len(M)]
  BY <1>1, ReplayPrefix
<1> QED BY <1>2, <1>3 DEF Kept, Replayable

-----------------------------------------------------------------------------
(* Before, From and FoldAll *)

\* The seqs of a sequence rise.
Ascending(s) == \A i, j \in DOMAIN s : i < j => s[i].seq < s[j].seq

(* In an ascending sequence there is a place before which seqs are lower.  *)
LEMMA BeforeFacts ==
    ASSUME NEW s \in Seq(Event), Ascending(s), NEW floor \in Nat
    PROVE  /\ Before(floor, s) \in 0 .. Len(s)
           /\ \A i \in 1 .. Before(floor, s) : s[i].seq < floor
           /\ \A i \in Before(floor, s) + 1 .. Len(s) : s[i].seq >= floor
<1> DEFINE Cuts(k) == /\ \A i \in 1 .. k : s[i].seq < floor
                      /\ \A i \in k + 1 .. Len(s) : s[i].seq >= floor
           Low == {n \in 0 .. Len(s) : \/ \A i \in 1 .. n : s[i].seq < floor
                                       \/ \E k \in 0 .. Len(s) : Cuts(k)}
<1>1. Len(s) \in Nat /\ DOMAIN s = 1 .. Len(s) /\ \A i \in 1 .. Len(s) : s[i].seq \in Nat
  <2>1. Len(s) \in Nat /\ DOMAIN s = 1 .. Len(s) /\ \A i \in 1 .. Len(s) : s[i] \in Event
    BY LenProperties, ElementOfSeq
  <2> QED BY <2>1 DEF Event
<1>2. 0 \in Low
  BY <1>1
<1>3. ASSUME NEW n \in 0 .. Len(s) - 1, n \in Low PROVE n + 1 \in Low
  <2>1. n \in 0 .. Len(s) /\ n + 1 \in 0 .. Len(s) /\ n + 1 \in 1 .. Len(s)
    BY <1>1
  <2>2. CASE \E k \in 0 .. Len(s) : Cuts(k)
    BY <2>1, <2>2
  <2>3. CASE (\A i \in 1 .. n : s[i].seq < floor) /\ s[n + 1].seq < floor
    <3>1. \A i \in 1 .. n + 1 : i \in 1 .. n \/ i = n + 1
      BY <2>1
    <3> QED BY <2>1, <2>3, <3>1
  <2>4. CASE (\A i \in 1 .. n : s[i].seq < floor) /\ ~(s[n + 1].seq < floor)
    <3>1. ASSUME NEW i \in n + 1 .. Len(s) PROVE s[i].seq >= floor
      <4>1. i \in 1 .. Len(s) /\ (i = n + 1 \/ n + 1 < i)
        BY <2>1
      <4>2. s[n + 1].seq <= s[i].seq
        BY <1>1, <2>1, <4>1 DEF Ascending
      <4> QED BY <1>1, <2>1, <2>4, <4>1, <4>2
    <3>2. Cuts(n)
      BY <2>4, <3>1
    <3> QED BY <2>1, <3>2
  <2> QED BY <1>3, <2>2, <2>3, <2>4
<1>4. Len(s) \in Low
  <2> HIDE DEF Low
  <2>1. 0 .. Len(s) \subseteq Low
    BY <1>1, <1>2, <1>3, Upwards
  <2> QED BY <1>1, <2>1
<1>5. \E k \in 0 .. Len(s) : Cuts(k)
  <2>1. (\A i \in 1 .. Len(s) : s[i].seq < floor) => Cuts(Len(s))
    BY <1>1
  <2> QED BY <1>1, <1>4, <2>1
<1>6. Before(floor, s) = CHOOSE k \in 0 .. Len(s) : Cuts(k)
  BY DEF Before
<1> HIDE DEF Cuts
<1>7. Before(floor, s) \in 0 .. Len(s) /\ Cuts(Before(floor, s))
  BY <1>5, <1>6
<1> QED BY <1>7 DEF Cuts

(* What From leaves out and what it keeps. *)
LEMMA FromTyped ==
    ASSUME NEW s \in Seq(Event), Ascending(s), NEW floor \in Nat
    PROVE  From(floor, s) \in Seq(Event) /\ Len(From(floor, s)) \in Nat
<1>1. PICK k \in 0 .. Len(s) : k = Before(floor, s)
  BY BeforeFacts
<1> QED BY <1>1, Split, LenProperties DEF From

(* A part of a dense sequence is ascending, from the seq it begins with.   *)
LEMMA LiesAscending ==
    ASSUME NEW S \in Seq(Event), Dense(S), NEW s \in Seq(Event), NEW lo \in Nat,
           Lies(s, lo, S)
    PROVE  /\ Ascending(s) /\ Len(s) \in Nat /\ Len(S) \in Nat
           /\ \A i \in 1 .. Len(s) : s[i].seq = lo + i - 1
<1>1. /\ Len(s) \in Nat /\ Len(S) \in Nat /\ DOMAIN s = 1 .. Len(s)
      /\ DOMAIN S = 1 .. Len(S)
  BY LenProperties
<1>2. ASSUME NEW i \in 1 .. Len(s) PROVE s[i].seq = lo + i - 1
  <2>1. lo + i \in DOMAIN S /\ (lo + i) - 1 = lo + i - 1
    BY <1>1 DEF Lies
  <2>2. S[lo + i].seq = (lo + i) - 1
    BY <2>1 DEF Dense
  <2> QED BY <2>1, <2>2 DEF Lies
<1> QED BY <1>1, <1>2 DEF Ascending

(* r is what a part of S that ends at position end has from floor on.      *)
Remains(r, floor, end, S) ==
    /\ r \in Seq(Event) /\ Len(r) \in Nat
    /\ floor >= end => r = <<>> /\ Len(r) = 0
    /\ floor < end => Lies(r, floor, S) /\ floor + Len(r) = end

(* What From keeps of a part of a dense sequence. *)
LEMMA FromLies ==
    ASSUME NEW S \in Seq(Event), Dense(S), NEW s \in Seq(Event), NEW lo \in Nat,
           Lies(s, lo, S), NEW floor \in Nat, lo <= floor,
           NEW r, r = From(floor, s)
    PROVE  Remains(r, floor, lo + Len(s), S)
<1>0. SUFFICES /\ r \in Seq(Event) /\ Len(r) \in Nat
               /\ floor >= lo + Len(s) => r = <<>> /\ Len(r) = 0
               /\ floor < lo + Len(s) => /\ Lies(r, floor, S)
                                        /\ floor + Len(r) = lo + Len(s)
  BY DEF Remains
<1>1. /\ Ascending(s) /\ Len(s) \in Nat /\ Len(S) \in Nat
      /\ \A i \in 1 .. Len(s) : s[i].seq = lo + i - 1
  BY LiesAscending
<1>2. PICK k \in 0 .. Len(s) :
         /\ k = Before(floor, s)
         /\ \A i \in 1 .. k : s[i].seq < floor
         /\ \A i \in k + 1 .. Len(s) : s[i].seq >= floor
  BY <1>1, BeforeFacts
<1>3. /\ r \in Seq(Event) /\ Len(r) = Len(s) - k
      /\ \A i \in 1 .. Len(s) - k : r[i] = s[k + i]
  BY <1>2, Split DEF From
<1>4. CASE floor >= lo + Len(s)
  <2>1. k = Len(s)
    <3>1. SUFFICES ASSUME k < Len(s) PROVE FALSE
      BY <1>1
    <3>2. Len(s) \in k + 1 .. Len(s) /\ Len(s) \in 1 .. Len(s)
      BY <1>1, <3>1
    <3> QED BY <1>1, <1>2, <1>4, <3>2
  <2>2. Len(r) = 0
    BY <1>1, <1>3, <2>1
  <2> QED BY <1>1, <1>3, <1>4, <2>2, EmptySeq
<1>5. CASE floor < lo + Len(s)
  <2>1. k = floor - lo
    <3>1. ~(k > floor - lo)
      <4>1. SUFFICES ASSUME k > floor - lo PROVE FALSE
        OBVIOUS
      <4>2. PICK i \in Nat : i = floor - lo + 1
        OBVIOUS
      <4>3. i \in 1 .. k /\ i \in 1 .. Len(s)
        BY <1>1, <1>2, <4>1, <4>2
      <4> QED BY <1>1, <1>2, <4>2, <4>3
    <3>2. ~(k < floor - lo)
      <4>1. SUFFICES ASSUME k < floor - lo PROVE FALSE
        OBVIOUS
      <4>2. k + 1 \in k + 1 .. Len(s) /\ k + 1 \in 1 .. Len(s)
        BY <1>1, <1>5, <4>1
      <4> QED BY <1>1, <1>2, <4>1, <4>2
    <3> QED BY <3>1, <3>2
  <2>2. floor + Len(r) = lo + Len(s) /\ Len(r) \in Nat
    BY <1>1, <1>3, <2>1
  <2>3. ASSUME NEW i \in 1 .. Len(r) PROVE r[i] = S[floor + i]
    <3>1. i \in 1 .. Len(s) - k /\ k + i \in 1 .. Len(s) /\ lo + (k + i) = floor + i
      BY <1>1, <1>3, <2>1
    <3> QED BY <1>3, <3>1 DEF Lies
  <2>4. floor + Len(r) <= Len(S)
    BY <2>2 DEF Lies
  <2> QED BY <1>3, <1>5, <2>2, <2>3, <2>4 DEF Lies
<1> QED BY <1>1, <1>4, <1>5

(* A sequence that lies where another one ends continues it.               *)
LEMMA LiesBehind ==
    ASSUME NEW S \in Seq(Event), NEW s \in Seq(Event), NEW lo \in Nat, Lies(s, lo, S),
           NEW t \in Seq(Event), Lies(t, lo + Len(s), S)
    PROVE  s \o t \in Seq(Event) /\ Lies(s \o t, lo, S) /\ Len(s \o t) = Len(s) + Len(t)
<1>1. /\ s \o t \in Seq(Event) /\ Len(s) \in Nat /\ Len(t) \in Nat /\ Len(S) \in Nat
      /\ Len(s \o t) = Len(s) + Len(t)
      /\ \A i \in 1 .. Len(s) : (s \o t)[i] = s[i]
      /\ \A i \in 1 .. Len(t) : (s \o t)[Len(s) + i] = t[i]
  BY Concat, LenProperties
<1>2. ASSUME NEW i \in 1 .. Len(s \o t) PROVE (s \o t)[i] = S[lo + i]
  <2>1. CASE i \in 1 .. Len(s)
    BY <1>1, <2>1 DEF Lies
  <2>2. CASE i \notin 1 .. Len(s)
    <3>1. PICK m : m = i - Len(s)
      OBVIOUS
    <3>2. m \in 1 .. Len(t) /\ i = Len(s) + m /\ (lo + Len(s)) + m = lo + i
      BY <1>1, <2>2, <3>1
    <3> QED BY <1>1, <3>2 DEF Lies
  <2> QED BY <2>1, <2>2
<1>3. lo + Len(s \o t) <= Len(S)
  BY <1>1 DEF Lies
<1> QED BY <1>1, <1>2, <1>3 DEF Lies

(* What lies at the start is a prefix. *)
LEMMA LiesPrefix ==
    ASSUME NEW S \in Seq(Event), NEW s \in Seq(Event)
    PROVE  /\ Lies(s, 0, S) <=> Len(s) \in 0 .. Len(S) /\ s = SubSeq(S, 1, Len(s))
           /\ \A k \in 0 .. Len(S) :
                 /\ SubSeq(S, 1, k) \in Seq(Event) /\ Len(SubSeq(S, 1, k)) = k
                 /\ Lies(SubSeq(S, 1, k), 0, S)
<1>1. Len(s) \in Nat /\ Len(S) \in Nat
  BY LenProperties
<1>2. ASSUME NEW k \in 0 .. Len(S)
      PROVE  /\ SubSeq(S, 1, k) \in Seq(Event) /\ Len(SubSeq(S, 1, k)) = k
             /\ Lies(SubSeq(S, 1, k), 0, S)
             /\ \A i \in 1 .. k : SubSeq(S, 1, k)[i] = S[i]
  BY <1>1, Cut DEF Lies
<1>3. Lies(s, 0, S) => Len(s) \in 0 .. Len(S) /\ \A i \in 1 .. Len(s) : s[i] = S[i]
  BY <1>1 DEF Lies
<1>4. ASSUME Lies(s, 0, S) PROVE s = SubSeq(S, 1, Len(s))
  <2>1. PICK t \in Seq(Event) : t = SubSeq(S, 1, Len(s)) /\ Len(t) = Len(s)
                                /\ \A i \in 1 .. Len(s) : t[i] = S[i]
    BY <1>2, <1>3, <1>4
  <2>2. s = t
    BY <1>3, <1>4, <2>1, SameSeq
  <2> QED BY <2>1, <2>2
<1>5. ASSUME Len(s) \in 0 .. Len(S), s = SubSeq(S, 1, Len(s)) PROVE Lies(s, 0, S)
  BY <1>2, <1>5
<1> QED BY <1>2, <1>3, <1>4, <1>5

(* fold_all of what lies in the session, from where it is already folded.  *)
LEMMA FoldLies ==
    ASSUME NEW S \in Seq(Event), Dense(S), NEW s \in Seq(Event), NEW lo \in Nat,
           Lies(s, lo, S), NEW f, f = FoldAll(s)
    PROVE  folded \in Seq(Event) /\ Lies(folded, 0, S) /\ lo <= Len(folded) =>
              /\ f \in Seq(Event) /\ Lies(f, 0, S) /\ Len(f) \in Nat
              /\ Len(folded) <= Len(f) /\ lo + Len(s) <= Len(f)
<1>0. ASSUME NEW floor \in Nat, lo <= floor, NEW r, r = From(floor, s)
      PROVE  Remains(r, floor, lo + Len(s), S)
  BY <1>0, FromLies
<1> SUFFICES ASSUME folded \in Seq(Event), Lies(folded, 0, S), lo <= Len(folded)
             PROVE  /\ f \in Seq(Event) /\ Lies(f, 0, S) /\ Len(f) \in Nat
                    /\ Len(folded) <= Len(f) /\ lo + Len(s) <= Len(f)
  OBVIOUS
<1>1. Len(folded) \in Nat /\ Len(s) \in Nat /\ Len(S) \in Nat
  BY LenProperties
<1>2. Floor = Len(folded)
  <2>1. CASE folded = <<>>
    BY <2>1 DEF Floor
  <2>2. CASE folded # <<>>
    <3>1. PICK n \in Nat : n = Len(folded)
      BY <1>1
    <3>2. n # 0 /\ n \in 1 .. n
      BY <2>2, <3>1, EmptySeq
    <3>3. n \in 1 .. Len(S) /\ folded[n] = S[0 + n] /\ 0 + n = n
      BY <1>1, <3>1, <3>2 DEF Lies
    <3>4. folded[n].seq = n - 1
      BY <3>3, LenProperties DEF Dense
    <3>5. Floor = folded[n].seq + 1
      BY <2>2, <3>1 DEF Floor
    <3> QED BY <3>1, <3>4, <3>5
  <2> QED BY <2>1, <2>2
<1>3. PICK r : r = From(Len(folded), s)
  OBVIOUS
<1>4. f = folded \o r
  BY <1>2, <1>3 DEF FoldAll
<1>5. /\ r \in Seq(Event) /\ Len(r) \in Nat
      /\ Len(folded) >= lo + Len(s) => r = <<>> /\ Len(r) = 0
      /\ Len(folded) < lo + Len(s) =>
            Lies(r, Len(folded), S) /\ Len(folded) + Len(r) = lo + Len(s)
  <2>1. PICK n \in Nat : n = Len(folded)
    BY <1>1
  <2>2. lo <= n /\ r = From(n, s)
    BY <1>3, <2>1
  <2>3. /\ r \in Seq(Event) /\ Len(r) \in Nat
        /\ n >= lo + Len(s) => r = <<>> /\ Len(r) = 0
        /\ n < lo + Len(s) => Lies(r, n, S) /\ n + Len(r) = lo + Len(s)
    BY <1>0, <2>2 DEF Remains
  <2> QED BY <2>1, <2>3
<1>6. CASE Len(folded) >= lo + Len(s)
  <2>1. f = folded
    BY <1>4, <1>5, <1>6, ConcatEmpty
  <2> QED BY <1>1, <1>6, <2>1
<1>7. CASE Len(folded) < lo + Len(s)
  <2>1. 0 \in Nat /\ Lies(r, 0 + Len(folded), S)
    BY <1>1, <1>5, <1>7
  <2>2. f \in Seq(Event) /\ Lies(f, 0, S) /\ Len(f) = Len(folded) + Len(r)
    BY <1>4, <1>5, <2>1, LiesBehind
  <2> QED BY <1>1, <1>5, <1>7, <2>2
<1> QED BY <1>1, <1>6, <1>7

(* catch_up_replay with a stream that succeeds. *)
LEMMA ReplayLies ==
    ASSUME NEW S \in Seq(Event), Dense(S), NEW p \in 0 .. Len(S),
           NEW s \in Seq(Event), Lies(s, 0, S), NEW r, r = From(p, s)
    PROVE  /\ r \in Seq(Event) /\ p + Len(r) \in p .. Len(S)
           /\ Replayable(SubSeq(S, 1, p)) \o Replayable(r) = Replayable(SubSeq(S, 1, p + Len(r)))
<1>1. Len(s) \in Nat /\ Len(S) \in Nat /\ p \in Nat
  BY LenProperties
<1>2. /\ r \in Seq(Event) /\ Len(r) \in Nat
      /\ p >= Len(s) => r = <<>> /\ Len(r) = 0
      /\ p < Len(s) => Lies(r, p, S) /\ p + Len(r) = Len(s)
  <2>1. 0 \in Nat /\ 0 <= p /\ 0 + Len(s) = Len(s)
    BY <1>1
  <2>2. Remains(r, p, 0 + Len(s), S)
    BY <1>1, <2>1, FromLies
  <2> QED BY <2>1, <2>2 DEF Remains
<1>3. PICK b \in Seq(Event) : b = SubSeq(S, 1, p) /\ Len(b) = p /\ Lies(b, 0, S)
  BY LiesPrefix
<1>4. b \o r \in Seq(Event) /\ Lies(b \o r, 0, S) /\ Len(b \o r) = p + Len(r)
  <2>1. CASE p >= Len(s)
    BY <1>1, <1>2, <1>3, <2>1, ConcatEmpty
  <2>2. CASE p < Len(s)
    <3>1. PICK n \in Nat : n = 0
      OBVIOUS
    <3>2. Lies(r, n + Len(b), S) /\ Lies(b, n, S)
      <4>1. n + Len(b) = p
        BY <1>1, <1>3, <3>1
      <4> QED BY <1>1, <1>2, <1>3, <2>2, <3>1, <4>1
    <3>3. b \o r \in Seq(Event) /\ Lies(b \o r, n, S) /\ Len(b \o r) = Len(b) + Len(r)
      BY <1>2, <3>2, LiesBehind
    <3> QED BY <1>3, <3>1, <3>3
  <2> QED BY <1>1, <2>1, <2>2
<1>5. b \o r = SubSeq(S, 1, p + Len(r)) /\ p + Len(r) \in 0 .. Len(S)
  <2>1. PICK c : c = b \o r
    OBVIOUS
  <2>2. c = SubSeq(S, 1, Len(c)) /\ Len(c) \in 0 .. Len(S)
    BY <1>4, <2>1, LiesPrefix
  <2> QED BY <1>4, <2>1, <2>2
<1>6. Replayable(b \o r) = Replayable(b) \o Replayable(r)
  BY <1>2, <1>3, ReplayConcat
<1>7. p + Len(r) \in p .. Len(S)
  BY <1>1, <1>2, <1>5
<1>8. Replayable(SubSeq(S, 1, p)) \o Replayable(r) = Replayable(SubSeq(S, 1, p + Len(r)))
  BY <1>3, <1>5, <1>6
<1> QED BY <1>2, <1>7, <1>8

-----------------------------------------------------------------------------
(* Who is in a call, and of which kind *)

(* The lane is held by a service that has installed the session, through    *)
(* its call and the refresh behind it; a durable append is made in the lane *)
(* only.  Outside it a service flushes while it installs and closes as it   *)
(* leaves, and nothing of the lane is left of a process that has ended.    *)
CallInv ==
    /\ lane # Nobody =>
          /\ holds[lane] = "active" /\ step[lane] = "none"
          /\ laneStep = "call" <=> pc[lane] # "idle"
          /\ pc[lane] # "idle" => call[lane] \in {"flush", "durable"}
    /\ \A c \in Clients :
          /\ call[c] = "durable" => lane = c
          /\ pc[c] # "idle" => call[c] # "none"
          /\ lane # c /\ pc[c] # "idle" => step[c] \in {"seeded", "unseeded", "closing"}
          /\ step[c] \in {"seeded", "unseeded"} => call[c] \in {"none", "flush"}
          /\ step[c] = "closing" => call[c] \in {"none", "close"}
    /\ ~up => lane = Nobody /\ copies = <<>> /\ taken = <<>>
    /\ up /\ seedDue =>
          \A c \in Clients : holds[c] # "active" /\ step[c] \in {"none", "leaving", "closing"}

\* The types of the lane.
LaneType ==
    /\ lane \in Clients \cup {Nobody}
    /\ laneStep \in {"call", "cut", "direct", "tail"}
    /\ copies \in Seq(Event) /\ taken \in Seq(Event)
    /\ lane = Nobody => laneStep = "call"
    /\ taken = <<>> <=> laneStep \in {"call", "cut"}

(* A step that starts and ends no call and leaves the services alone.      *)
LEMMA CallsStay ==
    ASSUME CallInv,
           UNCHANGED <<lane, laneStep, holds, step, call, up, copies, taken, seedDue>>,
           \A c \in Clients : pc'[c] = "idle" <=> pc[c] = "idle",
           lane \in Clients \cup {Nobody}
    PROVE  CallInv'
BY DEF CallInv

(* The writer, its timer and the repair of a log nobody has open.          *)
LEMMA WriterFrame ==
    ASSUME WorkerStep \/ WindowExpires \/ LoadRepair \/ RepairInterrupted \/ UNCHANGED vars
    PROVE  UNCHANGED <<up, pc, call, result, txn, mine, nextSeq, transaction, seedDue>>
BY DEF WorkerStep, WorkerTake, WriteCommits, WriteNotCommitted, WriteUnknown,
   WriteOutcome, SettleCommitted, SettleRestored, SettleDropped, WorkerExit,
   WindowExpires, LoadRepair, RepairInterrupted, coreVars, clientVars, vars

(* A call that begins or ends in the lane, and the refresh behind it.      *)
LEMMA LaneCallsKept ==
    ASSUME IInv, OwnerInv, LaneType, CallInv, NEW c \in Clients,
           \/ LaneAppend(c) \/ LaneFlush(c) \/ LaneDurable(c)
           \/ LaneFlushed(c) \/ LaneCommitted(c) \/ LaneRejected(c)
           \/ CutPending(c) \/ FoldDirect(c) \/ FoldTail(c)
    PROVE  CallInv'
<1>1. /\ pc \in [Clients -> {"idle", "enter", "waiting", "flushed", "discard", "rollback"}]
      /\ call \in [Clients -> {"none", "flush", "durable", "close"}]
      /\ ClientControl /\ DownControl
  BY DEF IInv, TypeOK, ClientType, ControlInv
<1>2. CASE LaneAppend(c)
  <2>1. UNCHANGED <<lane, laneStep, taken, holds, step, pc, call, up, seedDue>> /\ up /\ ~seedDue
    BY <1>2 DEF LaneAppend, AppendAtomic, tableVars
  <2> QED BY <2>1 DEF CallInv
<1>3. CASE LaneFlush(c) \/ LaneDurable(c)
  <2>1. /\ lane = Nobody /\ lane' = c /\ pc[c] = "idle" /\ up /\ up' = up
        /\ UNCHANGED <<laneStep, copies, taken, holds, step, seedDue>>
        /\ holds[c] = "active" /\ step[c] = "none"
        /\ pc' = [pc EXCEPT ![c] = "enter"]
        /\ call' = [call EXCEPT ![c] = "flush"] \/ call' = [call EXCEPT ![c] = "durable"]
    BY <1>3 DEF LaneFlush, LaneDurable, FlushStart, DurableStart, TakeLane, InUse,
       tableVars, coreVars
  <2>2. laneStep = "call"
    BY <2>1 DEF LaneType
  <2> QED BY <1>1, <2>1, <2>2, NobodyAssumption DEF CallInv
<1>4. CASE LaneFlushed(c) \/ LaneCommitted(c)
  <2>1. /\ lane = c /\ Return(c) /\ pc[c] = "flushed" /\ up' = up
        /\ UNCHANGED <<holds, step, seedDue>>
        /\ \/ lane' = Nobody
           \/ lane' = c /\ laneStep' = "cut"
    BY <1>4 DEF LaneFlushed, LaneCommitted, FlushReturn, DurableCommitted, DurableReturn,
       LeaveLane, tableVars, coreVars
  <2>2. pc' = [pc EXCEPT ![c] = "idle"] /\ call' = [call EXCEPT ![c] = "none"] /\ up
    BY <1>1, <2>1 DEF Return, DownControl
  <2> QED BY <1>1, <2>1, <2>2, NobodyAssumption DEF CallInv
<1>5. CASE LaneRejected(c)
  <2>1. /\ lane = c /\ pc[c] # "idle" /\ call[c] = "durable"
        /\ up' = up /\ UNCHANGED <<copies, holds, step, seedDue>>
    BY <1>1, <1>5 DEF LaneRejected, DurableFailed, DiscardRefused, DurableRollback,
       tableVars, ClientControl
  <2>2. \/ /\ pc' = [pc EXCEPT ![c] = "idle"] /\ call' = [call EXCEPT ![c] = "none"]
        \/ /\ pc' = [pc EXCEPT ![c] = "discard"] /\ call' = call
    BY <1>5 DEF LaneRejected, DurableFailed, DiscardRefused, DurableRollback,
       DurableReturn, Return
  <2>3. IF pc'[c] = "idle" THEN lane' = Nobody ELSE UNCHANGED <<lane, laneStep, taken>>
    BY <1>5 DEF LaneRejected, LeaveLane
  <2>4. up
    BY <1>1, <2>1 DEF DownControl
  <2> QED BY <1>1, <2>1, <2>2, <2>3, <2>4, NobodyAssumption DEF CallInv
<1>6. CASE CutPending(c) \/ FoldDirect(c) \/ FoldTail(c)
  <2>1. /\ lane = c /\ laneStep # "call"
        /\ UNCHANGED <<pc, call, up, holds, step, seedDue>>
        /\ \/ lane' = Nobody
           \/ lane' = c /\ laneStep' \in {"direct", "tail"}
    BY <1>6 DEF CutPending, FoldDirect, FoldTail, LeaveLane, tableVars, vars,
       coreVars, clientVars
  <2>2. up /\ pc[c] = "idle" /\ call[c] = "none"
    BY <1>1, <2>1, NobodyAssumption DEF CallInv, ClientControl
  <2>3. CASE lane' = Nobody
    BY <1>1, <2>1, <2>2, <2>3 DEF CallInv
  <2>4. CASE lane' = c /\ laneStep' \in {"direct", "tail"}
    BY <1>1, <2>1, <2>2, <2>4 DEF CallInv
  <2> QED BY <2>1, <2>3, <2>4
<1> QED BY <1>2, <1>3, <1>4, <1>5, <1>6

(* Every step keeps CallInv. *)
LEMMA CallsKept ==
    IInv /\ OwnerInv /\ LaneType /\ CallInv /\ [ProjectionNext]_allVars => CallInv'
<1> SUFFICES ASSUME IInv, OwnerInv, LaneType, CallInv, [ProjectionNext]_allVars
             PROVE  CallInv'
  OBVIOUS
<1>1. /\ pc \in [Clients -> {"idle", "enter", "waiting", "flushed", "discard", "rollback"}]
      /\ call \in [Clients -> {"none", "flush", "durable", "close"}]
      /\ ClientControl /\ DownControl /\ lane \in Clients \cup {Nobody}
      /\ holds \in [Clients -> Phases] /\ step \in [Clients -> Stages]
  BY DEF IInv, TypeOK, ClientType, ControlInv, OwnerInv, LaneType
<1>2. ASSUME NEW c \in Clients, up, UNCHANGED readVars,
             FlushEnter(c) \/ FlushWake(c) \/ DiscardTail(c)
      PROVE  CallInv'
  <2>1. UNCHANGED <<lane, laneStep, holds, step, call, up, copies, taken, seedDue>>
    BY <1>2 DEF FlushEnter, FlushWake, DiscardTail, readVars, laneVars, tableVars, coreVars
  <2>2. pc[c] # "idle" /\ \E p \in {"waiting", "flushed", "rollback"} : pc' = [pc EXCEPT ![c] = p]
    BY <1>2 DEF FlushEnter, FlushWake, DiscardTail
  <2> QED BY <1>1, <2>1, <2>2, CallsStay
<1>3. ASSUME NEW c \in Clients, UNCHANGED readVars, CloseJoin(c)
      PROVE  CallInv'
  <2>1. /\ UNCHANGED <<lane, laneStep, holds, step, up, copies, taken, seedDue>>
        /\ call[c] = "close" /\ pc[c] = "flushed"
        /\ pc' = [pc EXCEPT ![c] = "idle"] /\ call' = [call EXCEPT ![c] = "none"]
    BY <1>3 DEF CloseJoin, Return, readVars, laneVars, tableVars
  <2>2. lane # c
    BY <2>1, NobodyAssumption DEF CallInv
  <2> QED BY <1>1, <2>1, <2>2 DEF CallInv
<1>4. ASSUME NEW c \in Clients,
             \/ InstallFlush(c) \/ InstallFlushed(c) \/ InstallRead(c)
             \/ InstallPublish(c) \/ InstallSeed(c) \/ Quiesce(c) \/ DiscardArmed(c)
      PROVE  CallInv'
  <2>1. UNCHANGED <<lane, laneStep, copies, taken, up>>
    BY <1>4 DEF InstallFlush, InstallFlushed, InstallRead, InstallPublish, InstallSeed,
       Quiesce, DiscardArmed, readVars, laneVars, vars, clientVars, EnqueueSeed,
       FlushStart, FlushReturn
  <2>2. CASE InstallFlush(c)
    <3>1. /\ step[c] \in {"seeded", "unseeded"} /\ UNCHANGED <<holds, step, seedDue>> /\ up
          /\ pc' = [pc EXCEPT ![c] = "enter"] /\ call' = [call EXCEPT ![c] = "flush"]
      BY <2>2 DEF InstallFlush, FlushStart, readVars, tableVars, coreVars
    <3>2. lane # c
      BY <3>1, NobodyAssumption DEF CallInv
    <3> QED BY <1>1, <2>1, <3>1, <3>2 DEF CallInv
  <2>3. CASE InstallFlushed(c)
    <3>1. /\ step[c] \in {"seeded", "unseeded"} /\ seedDue' = seedDue /\ pc[c] # "idle"
          /\ pc' = [pc EXCEPT ![c] = "idle"] /\ call' = [call EXCEPT ![c] = "none"]
          /\ \/ step' = [step EXCEPT ![c] = "flushed"] /\ holds' = holds
             \/ /\ step' = [step EXCEPT ![c] = "none"]
                /\ holds' = [holds EXCEPT ![c] = "active"]
      BY <2>3 DEF InstallFlushed, Installed, FlushReturn, Return, coreVars
    <3>2. lane # c /\ up /\ ~seedDue
      BY <1>1, <3>1, NobodyAssumption DEF CallInv, DownControl
    <3>3. \A d \in Clients \ {c} : /\ pc'[d] = pc[d] /\ call'[d] = call[d]
                                  /\ step'[d] = step[d] /\ holds'[d] = holds[d]
      BY <1>1, <3>1
    <3>4. pc'[c] = "idle" /\ call'[c] = "none" /\ step'[c] \in {"flushed", "none"}
      BY <1>1, <3>1
    <3> QED BY <1>1, <2>1, <3>1, <3>2, <3>3, <3>4 DEF CallInv
  <2>4. CASE InstallRead(c) \/ InstallPublish(c)
    <3>1. /\ step[c] \in {"flushed", "publish"} /\ UNCHANGED <<pc, call, seedDue>>
          /\ \/ step' = [step EXCEPT ![c] = "publish"] /\ holds' = holds
             \/ /\ step' = [step EXCEPT ![c] = "none"]
                /\ holds' = [holds EXCEPT ![c] = "active"]
      BY <2>4 DEF InstallRead, InstallPublish, Installed, vars, coreVars, clientVars
    <3>2. lane # c /\ ~(up /\ seedDue) /\ pc[c] = "idle" /\ call[c] = "none"
      BY <1>1, <3>1, NobodyAssumption DEF CallInv, ClientControl
    <3> QED BY <1>1, <2>1, <3>1, <3>2 DEF CallInv
  <2>5. CASE InstallSeed(c)
    <3>1. /\ step[c] = "none" /\ holds[c] = "armed"
          /\ UNCHANGED <<pc, call, holds>>
          /\ \/ step' = [step EXCEPT ![c] = "seeded"] /\ ~seedDue'
             \/ step' = [step EXCEPT ![c] = "unseeded"] /\ ~seedDue /\ seedDue' = seedDue
      BY <2>5 DEF InstallSeed, EnqueueSeed, vars, coreVars, clientVars
    <3>2. lane # c /\ pc[c] = "idle" /\ call[c] = "none"
      BY <1>1, <3>1, NobodyAssumption DEF CallInv, ClientControl
    <3> QED BY <1>1, <2>1, <3>1, <3>2 DEF CallInv
  <2>6. CASE Quiesce(c) \/ DiscardArmed(c)
    <3>1. /\ step[c] = "none" /\ lane # c /\ UNCHANGED <<pc, call, holds, seedDue>>
          /\ step' = [step EXCEPT ![c] = "leaving"]
      <4>1. CASE Quiesce(c)
        BY <4>1 DEF Quiesce, InUse, vars, coreVars, clientVars
      <4>2. CASE DiscardArmed(c)
        <5>1. lane # c
          BY <4>2, NobodyAssumption DEF DiscardArmed, CallInv
        <5> QED BY <4>2, <5>1 DEF DiscardArmed, vars, coreVars, clientVars
      <4> QED BY <2>6, <4>1, <4>2
    <3>2. pc[c] = "idle" /\ call[c] = "none"
      BY <1>1, <3>1 DEF CallInv, ClientControl
    <3> QED BY <1>1, <2>1, <3>1, <3>2 DEF CallInv
  <2> QED BY <1>4, <2>2, <2>3, <2>4, <2>5, <2>6
<1>5. ASSUME NEW c \in Clients, ReadProjections(c) \/ ReadReplay(c) \/ ArmShared(c)
      PROVE  CallInv'
  <2>1. UNCHANGED <<lane, laneStep, copies, taken, up, pc, call, seedDue, step>>
    BY <1>5 DEF ReadProjections, ReadReplay, ArmShared, laneVars, tableVars, vars,
       coreVars, clientVars
  <2>2. holds' = holds \/ (holds[c] = "none" /\ holds' = [holds EXCEPT ![c] = "armed"])
    BY <1>5, Zenon DEF ReadProjections, ReadReplay, ArmShared, tableVars
  <2> QED BY <1>1, <2>1, <2>2, NobodyAssumption DEF CallInv
<1>6. ASSUME NEW c \in Clients, ArmCold(c)
      PROVE  CallInv'
  <2>1. /\ Holders = {} /\ ~up /\ UNCHANGED <<lane, laneStep, copies, taken, step, pc, call>>
        /\ holds' = [holds EXCEPT ![c] = "armed"]
    BY <1>6, Zenon DEF ArmCold, Reopen, laneVars
  <2>2. \A d \in Clients : holds[d] = "none" /\ step[d] = "none"
    BY <2>1 DEF Holders, OwnerInv
  <2>3. lane = Nobody
    BY <2>1 DEF CallInv
  <2> QED BY <1>1, <2>1, <2>2, <2>3 DEF CallInv
<1>7. ASSUME NEW c \in Clients, ReleaseWriter(c)
      PROVE  CallInv'
  <2>1. step[c] = "leaving" /\ lane # c /\ pc[c] = "idle" /\ call[c] = "none"
    <3>1. step[c] = "leaving"
      BY <1>7 DEF ReleaseWriter
    <3>2. lane # c
      BY <3>1, NobodyAssumption DEF CallInv
    <3> QED BY <1>1, <3>1, <3>2 DEF CallInv, ClientControl
  <2>2. UNCHANGED <<lane, laneStep, copies, taken, seedDue, up>>
    BY <1>7 DEF ReleaseWriter, laneVars, vars, coreVars, clientVars, CloseStart
  <2>3. \/ /\ step' = [step EXCEPT ![c] = "closing"] /\ holds' = holds
           /\ pc' = [pc EXCEPT ![c] = "enter"] /\ call' = [call EXCEPT ![c] = "close"]
           /\ up
        \/ /\ step' = [step EXCEPT ![c] = "none"] /\ holds' = [holds EXCEPT ![c] = "none"]
           /\ pc' = pc /\ call' = call
    BY <1>7 DEF ReleaseWriter, CloseStart, LetGo, vars, clientVars
  <2> QED BY <1>1, <2>1, <2>2, <2>3 DEF CallInv
<1>8. ASSUME Die \/ \E c \in Clients : ReleaseClosed(c)
      PROVE  CallInv'
  <2>1. /\ lane' = Nobody /\ copies' = <<>> /\ taken' = <<>> /\ ~up'
        /\ pc' = [c \in Clients |-> "idle"] /\ call' = [c \in Clients |-> "none"]
    BY <1>8 DEF Die, ReleaseClosed, Crash, Release, Forget, ForgetViews
  <2> QED BY <2>1 DEF CallInv
<1>9. CASE \/ WriterStep \/ TimerStep \/ UNCHANGED allVars
           \/ (LoadRepair \/ RepairInterrupted) /\ UNCHANGED readVars
  <2>1. UNCHANGED readVars
        /\ (WorkerStep \/ WindowExpires \/ LoadRepair \/ RepairInterrupted \/ UNCHANGED vars)
    BY <1>9 DEF WriterStep, TimerStep, allVars
  <2>2. UNCHANGED <<up, pc, call, seedDue>>
    BY <2>1, WriterFrame
  <2>3. UNCHANGED <<lane, laneStep, holds, step, copies, taken>>
    BY <2>1 DEF readVars, laneVars, tableVars
  <2> QED BY <1>1, <2>2, <2>3, CallsStay
<1>10. ASSUME NEW c \in Clients, CallStep(c) \/ ServiceCall(c) PROVE CallInv'
  <2>1. CASE CallStep(c)
    BY <1>2, <1>3, <1>4, <1>7, <1>8, <2>1, LaneCallsKept, Zenon DEF CallStep
  <2>2. CASE ServiceCall(c)
    BY <1>4, <1>5, <1>6, <2>2, LaneCallsKept, Zenon DEF ServiceCall
  <2> QED BY <1>10, <2>1, <2>2
<1> QED BY <1>8, <1>9, <1>10, Zenon DEF ProjectionNext

-----------------------------------------------------------------------------
(* What the lane holds is in order, and its types *)

\* The lane is held for a durable append that is not decided.
Held == lane # Nobody /\ call[lane] = "durable"

\* What the lane has copied comes before this seq.
Bound == IF Held THEN txn[lane].start ELSE nextSeq

\* The copies and what a refresh took out of them are in order.
AscInv ==
    /\ Ascending(copies) /\ Ascending(taken)
    /\ \A i \in 1 .. Len(copies) : copies[i].seq < Bound

\* An install publishes up to a seq it has read.
MarkInv ==
    /\ mark \in [Clients -> Nat \cup {None}]
    /\ \A c \in Clients : step[c] = "publish" => mark[c] \in Nat

\* The types of the two caches.
ViewType ==
    /\ folded \in Seq(Event) /\ replayed \in Seq(Event) /\ pushed \in Nat
    /\ stale \in BOOLEAN /\ overtaken \in BOOLEAN

\* A step of the holder of the lane, or one that takes it.
LaneTurn(c) ==
    \/ LaneAppend(c) \/ LaneFlush(c) \/ LaneDurable(c)
    \/ LaneFlushed(c) \/ LaneCommitted(c) \/ LaneRejected(c)
    \/ CutPending(c) \/ FoldDirect(c) \/ FoldTail(c)

\* A step beside the lane.
Outside ==
    /\ UNCHANGED laneVars
    /\ lane # Nobody => call'[lane] = call[lane] /\ txn'[lane] = txn[lane]
    /\ \/ nextSeq' = nextSeq
       \/ ~Held /\ EnqueueSeed /\ nextSeq' = nextSeq + 1

\* The lane of a process that has ended or begins.
LaneEmpty == lane = Nobody /\ laneStep = "call" /\ copies = <<>> /\ taken = <<>>

(* A step is one of the lane, beside it, or the end or the start of a process. *)
LEMMA OutsideSteps ==
    ASSUME IInv, OwnerInv, LaneType, CallInv, [ProjectionNext]_allVars
    PROVE  (\E c \in Clients : LaneTurn(c)) \/ Outside \/ (LaneEmpty' /\ ~(up /\ up'))
<1>1. /\ ClientControl /\ DownControl /\ lane \in Clients \cup {Nobody}
      /\ call \in [Clients -> {"none", "flush", "durable", "close"}]
      /\ txn \in [Clients -> [grp : 0 .. MaxGroups, start : Nat, end : Nat]]
  BY DEF IInv, TypeOK, ClientType, ControlInv, LaneType
<1>2. ASSUME NEW c \in Clients, up, UNCHANGED readVars,
             FlushEnter(c) \/ FlushWake(c) \/ DiscardTail(c) \/ CloseJoin(c)
      PROVE  Outside
  <2>1. UNCHANGED laneVars /\ nextSeq' = nextSeq
    BY <1>2 DEF FlushEnter, FlushWake, DiscardTail, CloseJoin, readVars, coreVars
  <2>2. CASE FlushEnter(c) \/ FlushWake(c) \/ DiscardTail(c)
    BY <2>1, <2>2 DEF FlushEnter, FlushWake, DiscardTail, Outside
  <2>3. CASE CloseJoin(c)
    <3>1. lane # c
      BY <2>3, NobodyAssumption DEF CloseJoin, CallInv
    <3> QED BY <1>1, <2>1, <2>3, <3>1 DEF CloseJoin, Return, Outside
  <2> QED BY <1>2, <2>2, <2>3
<1>3. ASSUME NEW c \in Clients,
             \/ InstallFlush(c) \/ InstallFlushed(c) \/ InstallRead(c)
             \/ InstallPublish(c) \/ Quiesce(c) \/ DiscardArmed(c)
             \/ ReadProjections(c) \/ ReadReplay(c) \/ ArmShared(c)
      PROVE  Outside
  <2>1. UNCHANGED laneVars /\ nextSeq' = nextSeq
    BY <1>3 DEF InstallFlush, InstallFlushed, InstallRead, InstallPublish, Quiesce,
       DiscardArmed, ReadProjections, ReadReplay, ArmShared, readVars, vars, coreVars,
       FlushStart, FlushReturn
  <2>2. CASE InstallFlush(c) \/ InstallFlushed(c)
    <3>1. /\ step[c] \in {"seeded", "unseeded"}
          /\ call' = [call EXCEPT ![c] = "flush"] \/ call' = [call EXCEPT ![c] = "none"]
          /\ txn' = txn \/ txn' = [txn EXCEPT ![c] = NoTxn]
      BY <2>2 DEF InstallFlush, InstallFlushed, FlushStart, FlushReturn, Return
    <3>2. lane # c
      BY <3>1, NobodyAssumption DEF CallInv
    <3> QED BY <1>1, <2>1, <3>1, <3>2 DEF Outside
  <2>3. CASE \/ InstallRead(c) \/ InstallPublish(c) \/ Quiesce(c) \/ DiscardArmed(c)
             \/ ReadProjections(c) \/ ReadReplay(c) \/ ArmShared(c)
    <3>1. call' = call /\ txn' = txn
      BY <2>3 DEF InstallRead, InstallPublish, Quiesce, DiscardArmed, ReadProjections,
         ReadReplay, ArmShared, vars, clientVars
    <3> QED BY <2>1, <3>1 DEF Outside
  <2> QED BY <1>3, <2>2, <2>3
<1>4. ASSUME NEW c \in Clients, InstallSeed(c)
      PROVE  Outside
  <2>1. CASE seedDue
    <3>1. EnqueueSeed /\ UNCHANGED laneVars
      BY <1>4, <2>1 DEF InstallSeed
    <3>2. /\ transaction = Nobody /\ call' = call /\ txn' = txn /\ nextSeq' = nextSeq + 1
      BY <3>1 DEF EnqueueSeed, EnqueueGroup, clientVars
    <3>3. ~Held
      BY <1>1, <3>2, NobodyAssumption DEF Held, ClientControl
    <3> QED BY <3>1, <3>2, <3>3 DEF Outside
  <2>2. CASE ~seedDue
    BY <1>4, <2>2 DEF InstallSeed, vars, coreVars, clientVars, Outside
  <2> QED BY <2>1, <2>2
<1>5. ASSUME NEW c \in Clients, ReleaseWriter(c)
      PROVE  Outside
  <2>1. step[c] = "leaving" /\ UNCHANGED laneVars /\ nextSeq' = nextSeq /\ txn' = txn
    BY <1>5 DEF ReleaseWriter, CloseStart, vars, coreVars, clientVars
  <2>2. lane # c
    BY <2>1, NobodyAssumption DEF CallInv
  <2>3. call' = call \/ call' = [call EXCEPT ![c] = "close"]
    BY <1>5 DEF ReleaseWriter, CloseStart, vars, clientVars
  <2> QED BY <1>1, <2>1, <2>2, <2>3 DEF Outside
<1>6. ASSUME Die \/ \E c \in Clients : ReleaseClosed(c)
      PROVE  LaneEmpty' /\ ~up'
  BY <1>6 DEF Die, ReleaseClosed, ForgetViews, LaneEmpty, Crash, Release, Forget
<1>7. ASSUME NEW c \in Clients, ArmCold(c)
      PROVE  LaneEmpty' /\ ~up
  <2>1. ~up /\ UNCHANGED laneVars
    BY <1>7, Zenon DEF ArmCold, Reopen
  <2> QED BY <2>1 DEF CallInv, LaneType, laneVars, LaneEmpty
<1>8. CASE \/ WriterStep \/ TimerStep \/ UNCHANGED allVars
           \/ (LoadRepair \/ RepairInterrupted) /\ UNCHANGED readVars
  <2>1. UNCHANGED readVars
        /\ (WorkerStep \/ WindowExpires \/ LoadRepair \/ RepairInterrupted \/ UNCHANGED vars)
    BY <1>8 DEF WriterStep, TimerStep, allVars
  <2>2. UNCHANGED <<call, txn, nextSeq>>
    BY <2>1, WriterFrame
  <2> QED BY <2>1, <2>2 DEF readVars, Outside
<1>9. ASSUME NEW c \in Clients, CallStep(c) \/ ServiceCall(c)
      PROVE  (\E d \in Clients : LaneTurn(d)) \/ Outside \/ (LaneEmpty' /\ ~(up /\ up'))
  <2>1. CASE CallStep(c)
    BY <1>2, <1>3, <1>5, <1>6, <2>1, Zenon DEF CallStep, LaneTurn
  <2>2. CASE ServiceCall(c)
    BY <1>3, <1>4, <1>7, <2>2, Zenon DEF ServiceCall, LaneTurn
  <2> QED BY <1>9, <2>1, <2>2
<1> QED BY <1>6, <1>8, <1>9, Zenon DEF ProjectionNext

(* Seqs are numbers. *)
LEMMA SeqsAreNat ==
    ASSUME NEW s \in Seq(Event)
    PROVE  /\ Len(s) \in Nat /\ DOMAIN s = 1 .. Len(s)
           /\ \A i \in 1 .. Len(s) : s[i] \in Event /\ s[i].seq \in Nat
<1>1. /\ Len(s) \in Nat /\ DOMAIN s = 1 .. Len(s)
      /\ \A i \in 1 .. Len(s) : s[i] \in Event
  BY LenProperties, ElementOfSeq
<1> QED BY <1>1 DEF Event

(* Two ascending sequences one behind the other, and the parts of one.     *)
LEMMA AscendingConcat ==
    ASSUME NEW s \in Seq(Event), NEW t \in Seq(Event), Ascending(s), Ascending(t),
           NEW b \in Nat, \A i \in 1 .. Len(s) : s[i].seq < b,
           \A i \in 1 .. Len(t) : t[i].seq >= b
    PROVE  s \o t \in Seq(Event) /\ Ascending(s \o t)
<1>1. PICK u \in Seq(Event) : u = s \o t
  BY Concat
<1>2. PICK m \in Nat, n \in Nat :
         /\ m = Len(s) /\ n = Len(t) /\ DOMAIN s = 1 .. m /\ DOMAIN t = 1 .. n
         /\ DOMAIN u = 1 .. m + n
         /\ \A i \in 1 .. m : u[i] = s[i]
         /\ \A i \in m + 1 .. m + n : u[i] = t[i - m] /\ i - m \in 1 .. n
  BY <1>1, Concat
<1>3. /\ \A i \in 1 .. m : s[i].seq \in Nat /\ s[i].seq < b
      /\ \A i \in 1 .. n : t[i].seq \in Nat /\ t[i].seq >= b
  <2>1. (\A i \in 1 .. m : s[i] \in Event) /\ \A i \in 1 .. n : t[i] \in Event
    BY <1>2, ElementOfSeq
  <2> QED BY <1>2, <2>1 DEF Event
<1>4. ASSUME NEW i \in 1 .. m + n, NEW j \in 1 .. m + n, i < j
      PROVE  u[i].seq < u[j].seq
  <2>1. CASE j <= m
    <3>1. i \in 1 .. m /\ j \in 1 .. m
      BY <1>4, <2>1
    <3> QED BY <1>2, <1>4, <3>1 DEF Ascending
  <2>2. CASE i <= m /\ j > m
    <3>1. i \in 1 .. m /\ j \in m + 1 .. m + n
      BY <2>2
    <3>2. u[i] = s[i] /\ u[j] = t[j - m] /\ j - m \in 1 .. n
      BY <1>2, <3>1
    <3>3. s[i].seq \in Nat /\ s[i].seq < b
      BY <1>3, <3>1
    <3>4. t[j - m].seq \in Nat /\ t[j - m].seq >= b
      BY <1>3, <3>2
    <3>5. u[i].seq \in Nat /\ u[i].seq < b /\ u[j].seq \in Nat /\ u[j].seq >= b
      BY <3>2, <3>3, <3>4
    <3> QED BY <3>5
  <2>3. CASE i > m
    <3>1. i \in m + 1 .. m + n /\ j \in m + 1 .. m + n
      BY <1>4, <2>3
    <3>2. /\ u[i] = t[i - m] /\ u[j] = t[j - m] /\ i - m \in 1 .. n /\ j - m \in 1 .. n
          /\ i - m < j - m
      BY <1>2, <1>4, <3>1
    <3> QED BY <1>2, <3>2 DEF Ascending
  <2> QED BY <2>1, <2>2, <2>3
<1> QED BY <1>1, <1>2, <1>4 DEF Ascending

(* A group that is numbered from a bound on goes behind what is below it.  *)
LEMMA RunBehind ==
    ASSUME NEW s \in Seq(Event), Ascending(s), NEW a \in Nat,
           \A i \in 1 .. Len(s) : s[i].seq < a,
           NEW g \in 0 .. MaxGroups + 1, NEW n \in Nat,
           NEW e, e = GroupEvents(g, a, n)
    PROVE  /\ s \o e \in Seq(Event) /\ Ascending(s \o e)
           /\ \A i \in 1 .. Len(s \o e) : (s \o e)[i].seq < a + n
<1>1. /\ e \in Seq(Event) /\ Len(e) = n
      /\ \A i \in 1 .. n : e[i].seq = a + i - 1
  BY GroupEventsProperties
<1>2. /\ DOMAIN e = 1 .. n /\ Len(s) \in Nat
      /\ \A i \in 1 .. Len(s) : s[i].seq \in Nat
  BY <1>1, SeqsAreNat
<1>3. Ascending(e) /\ \A i \in 1 .. Len(e) : e[i].seq >= a
  BY <1>1, <1>2 DEF Ascending
<1>4. s \o e \in Seq(Event) /\ Ascending(s \o e)
  BY <1>1, <1>3, AscendingConcat
<1>5. PICK u : u = s \o e
  OBVIOUS
<1>6. ASSUME NEW i \in 1 .. Len(u) PROVE u[i].seq < a + n
  <2>1. /\ Len(u) = Len(s) + n /\ \A j \in 1 .. Len(s) : u[j] = s[j]
        /\ \A j \in Len(s) + 1 .. Len(s) + n : u[j] = e[j - Len(s)] /\ j - Len(s) \in 1 .. n
    <3>1. PICK t \in Seq(Event) : t = e
      BY <1>1
    <3>2. /\ Len(u) = Len(s) + Len(t) /\ \A j \in 1 .. Len(s) : u[j] = s[j]
          /\ \A j \in Len(s) + 1 .. Len(s) + Len(t) :
                u[j] = t[j - Len(s)] /\ j - Len(s) \in 1 .. Len(t)
      BY <1>5, <3>1, Concat
    <3> QED BY <1>1, <3>1, <3>2
  <2>2. CASE i <= Len(s)
    <3>1. i \in 1 .. Len(s)
      BY <2>2
    <3> QED BY <1>2, <2>1, <3>1
  <2>3. CASE i > Len(s)
    <3>1. PICK j \in 1 .. n : u[i] = e[j]
      BY <1>2, <2>1, <2>3
    <3>2. e[j].seq = a + j - 1
      BY <1>1
    <3> QED BY <3>1, <3>2
  <2> QED BY <1>2, <2>1, <2>2, <2>3
<1> QED BY <1>4, <1>5, <1>6

(* What an ascending sequence begins and ends with is ascending.           *)
LEMMA AscendingParts ==
    ASSUME NEW s \in Seq(Event), Ascending(s), NEW k \in 0 .. Len(s)
    PROVE  Ascending(SubSeq(s, 1, k)) /\ Ascending(SubSeq(s, k + 1, Len(s)))
<1>1. PICK a \in Seq(Event) :
         a = SubSeq(s, 1, k) /\ DOMAIN a = 1 .. k /\ \A i \in 1 .. k : a[i] = s[i]
  BY Cut
<1>2. PICK b \in Seq(Event) :
         /\ b = SubSeq(s, k + 1, Len(s)) /\ DOMAIN b = 1 .. Len(s) - k
         /\ \A i \in 1 .. Len(s) - k : b[i] = s[k + i] /\ k + i \in DOMAIN s
  BY Split
<1>3. Len(s) \in Nat /\ DOMAIN s = 1 .. Len(s)
  BY LenProperties
<1>4. Ascending(a)
  <2>1. \A i \in 1 .. k : i \in DOMAIN s
    BY <1>3
  <2> QED BY <1>1, <2>1 DEF Ascending
<1>5. Ascending(b)
  <2>1. ASSUME NEW i \in 1 .. Len(s) - k, NEW j \in 1 .. Len(s) - k, i < j
        PROVE  b[i].seq < b[j].seq
    <3>1. b[i] = s[k + i] /\ b[j] = s[k + j] /\ k + i \in DOMAIN s /\ k + j \in DOMAIN s
      BY <1>2
    <3>2. k + i < k + j
      BY <1>3, <2>1
    <3>3. s[k + i].seq < s[k + j].seq
      BY <3>1, <3>2 DEF Ascending
    <3> QED BY <3>1, <3>3
  <2> QED BY <1>2, <2>1 DEF Ascending
<1> QED BY <1>1, <1>2, <1>4, <1>5

(* A dense sequence is ascending. *)
LEMMA DenseAscending ==
    ASSUME NEW s, Dense(s) PROVE s \in Seq(Event) /\ Ascending(s)
<1>1. s \in Seq(Event) /\ Len(s) \in Nat /\ DOMAIN s = 1 .. Len(s)
  BY LenProperties DEF Dense
<1>2. \A i \in 1 .. Len(s) : s[i].seq = i - 1
  BY <1>1 DEF Dense
<1> QED BY <1>1, <1>2 DEF Ascending

(* What follows the first part of a concatenation. *)
LEMMA Behind ==
    ASSUME NEW s \in Seq(Event), NEW t \in Seq(Event)
    PROVE  SubSeq(s \o t, Len(s) + 1, Len(s \o t)) = t
<1>1. PICK u \in Seq(Event) : u = s \o t
  BY Concat
<1>2. PICK m \in Nat, n \in Nat :
         /\ m = Len(s) /\ n = Len(t) /\ Len(u) = m + n
         /\ \A i \in 1 .. n : u[m + i] = t[i]
  BY <1>1, Concat
<1>3. m \in 0 .. Len(u) /\ Len(u) - m = n
  BY <1>2
<1>4. PICK r \in Seq(Event) : /\ r = SubSeq(u, m + 1, Len(u)) /\ Len(r) = n
                              /\ \A i \in 1 .. n : r[i] = u[m + i]
  BY <1>3, Split
<1>5. r = t
  BY <1>2, <1>4, SameSeq
<1> QED BY <1>1, <1>2, <1>4, <1>5

(* A stream of the log delivers the first events of the session.           *)
LEMMA StreamsShape ==
    ASSUME IInv, NEW s \in Streams
    PROVE  Dense(s) /\ Lies(s, 0, Stream) /\ Len(s) >= Len(log) - torn
<1>1. /\ log \in Seq(Event) /\ batch \in Seq(Event) /\ pending \in Seq(Event)
      /\ Queue \in Seq(Event) /\ Stream \in Seq(Event) /\ Len(log) \in Nat
      /\ torn \in 0 .. Len(log) /\ InFlight \in Seq(Event)
  BY Shape DEF IInv
<1>2. Dense(log)
  BY <1>1 DEF IInv, SeqIsPosition, Dense
<1>3. PICK N \in Nat, Q \in Nat :
         /\ N = Len(log) /\ Q = Len(Queue) /\ Len(Stream) = N + Q
         /\ \A i \in 1 .. N : Stream[i] = log[i]
         /\ \A i \in 1 .. Q : Stream[N + i] = Queue[i]
  <2>1. PICK l \in Seq(Event), q \in Seq(Event) : l = log /\ q = Queue
    BY <1>1
  <2>2. Stream = l \o q
    BY <2>1 DEF Stream
  <2>3. /\ Len(l) \in Nat /\ Len(q) \in Nat /\ Len(Stream) = Len(l) + Len(q)
        /\ \A i \in 1 .. Len(l) : Stream[i] = l[i]
        /\ \A i \in 1 .. Len(q) : Stream[Len(l) + i] = q[i]
    BY <2>2, Concat
  <2> QED BY <2>1, <2>3
<1>4. CASE \E k \in Len(log) - torn .. Len(log) : s = SubSeq(log, 1, k)
  <2>1. PICK k \in N - torn .. N : s = SubSeq(log, 1, k)
    BY <1>3, <1>4
  <2>2. k \in 0 .. Len(log)
    BY <1>1, <1>3, <2>1
  <2>3. /\ Dense(s) /\ s \in Seq(Event) /\ Len(s) = k
        /\ \A i \in 1 .. k : s[i] = log[i]
    BY <1>1, <1>2, <2>1, <2>2, DenseCut, Cut
  <2>4. Lies(s, 0, Stream)
    <3>1. 0 + Len(s) <= Len(Stream)
      BY <1>3, <2>2, <2>3
    <3>2. \A i \in 1 .. Len(s) : s[i] = Stream[0 + i]
      BY <1>3, <2>2, <2>3
    <3> QED BY <3>1, <3>2 DEF Lies
  <2> QED BY <1>3, <2>1, <2>3, <2>4
<1>5. CASE workerPc = "write" /\ CanAppend /\ \E k \in DOMAIN batch : s = log \o SubSeq(batch, 1, k)
  <2>1. up /\ handle /\ Contiguous /\ InFlight = batch
    BY <1>5 DEF CanAppend, IInv, ControlInv, DownControl, InFlight
  <2>2. cursor = N
    BY <1>3, <2>1 DEF IInv, QueueInv
  <2>3. DOMAIN batch = 1 .. Len(batch) /\ Len(batch) \in Nat
    BY <1>1, LenProperties
  <2>4. PICK k \in 1 .. Len(batch) : s = log \o SubSeq(batch, 1, k)
    BY <1>5, <2>3
  <2>5. k \in 0 .. Len(batch)
    BY <2>3
  <2>6. PICK r \in Seq(Event) :
           r = SubSeq(batch, 1, k) /\ Len(r) = k /\ DOMAIN r = 1 .. k
           /\ \A i \in 1 .. k : r[i] = batch[i]
    BY <1>1, <2>5, Cut
  <2>7. Continues(r)
    <3>1. \A i \in DOMAIN batch : batch[i].seq = N + i - 1
      BY <2>1, <2>2 DEF Contiguous
    <3>2. ASSUME NEW i \in 1 .. k PROVE r[i].seq = N + i - 1
      <4>1. i \in DOMAIN batch
        BY <2>3
      <4> QED BY <2>6, <3>1, <4>1
    <3> QED BY <1>3, <2>6, <3>2 DEF Continues
  <2>8. Dense(s) /\ Len(s) = N + k
    BY <1>2, <1>3, <2>4, <2>6, <2>7, DenseExtends
  <2>9. Lies(s, 0, Stream)
    <3>1. \A i \in 1 .. Len(batch) : Queue[i] = batch[i] /\ i \in 1 .. Q
      BY <1>1, <1>3, <2>1, <2>3, Concat DEF Queue
    <3>2. k \in 1 .. Q
      BY <2>3, <3>1
    <3>3. ASSUME NEW i \in 1 .. N + k PROVE s[i] = Stream[0 + i]
      <4>1. CASE i <= N
        <5>1. i \in 1 .. N
          BY <4>1
        <5>2. s[i] = log[i]
          BY <1>1, <1>3, <2>4, <2>6, <5>1, Concat
        <5> QED BY <1>3, <5>1, <5>2
      <4>2. CASE i > N
        <5>1. PICK j \in 1 .. k : j = i - N /\ i = N + j
          BY <2>3, <4>2
        <5>2. s[N + j] = r[j]
          BY <1>1, <1>3, <2>4, <2>6, <5>1, Concat
        <5>3. r[j] = batch[j] /\ Queue[j] = batch[j] /\ j \in 1 .. Q
          BY <2>3, <2>6, <3>1, <5>1
        <5>4. Stream[N + j] = Queue[j]
          BY <1>3, <5>3
        <5>5. s[N + j] = Stream[N + j]
          BY <5>2, <5>3, <5>4
        <5>6. 0 + i = N + j /\ i = N + j
          BY <5>1
        <5> QED BY <5>5, <5>6
      <4> QED BY <4>1, <4>2
    <3>4. 0 + Len(s) <= Len(Stream)
      BY <1>3, <2>8, <3>2
    <3> QED BY <2>8, <3>3, <3>4 DEF Lies
  <2> QED BY <1>1, <1>3, <2>3, <2>8, <2>9
<1> QED BY <1>4, <1>5 DEF Streams

(* So does one that breaks off. *)
LEMMA BrokenShape ==
    ASSUME IInv, NEW s \in BrokenStreams
    PROVE  Dense(s) /\ Lies(s, 0, Stream)
<1>1. PICK t \in Streams : \E k \in 0 .. Len(t) : s = SubSeq(t, 1, k)
  BY DEF BrokenStreams
<1>2. PICK k \in 0 .. Len(t) : s = SubSeq(t, 1, k)
  BY <1>1
<1>3. Dense(t) /\ Lies(t, 0, Stream) /\ t \in Seq(Event) /\ Len(t) \in Nat
  BY StreamsShape, LenProperties DEF Dense
<1>4. Dense(s) /\ Len(s) = k /\ \A i \in 1 .. k : s[i] = t[i]
  BY <1>2, <1>3, DenseCut, Cut
<1>5. PICK N : N = Len(Stream) /\ N \in Nat
  BY Shape, LenProperties DEF IInv
<1>6. 0 + Len(s) <= N /\ \A i \in 1 .. Len(s) : s[i] = Stream[0 + i]
  BY <1>3, <1>4, <1>5 DEF Lies
<1> QED BY <1>4, <1>5, <1>6 DEF Lies

(* The copies that are due are the first ones, up to the committed cursor. *)
LEMMA DueShape ==
    ASSUME copies \in Seq(Event), Ascending(copies), cursor \in Nat
    PROVE  \E k \in 0 .. Len(copies) :
              /\ Due = SubSeq(copies, 1, k) /\ Len(Due) = k /\ Due \in Seq(Event)
              /\ cursor > 0 /\ handle =>
                    /\ \A i \in 1 .. k : copies[i].seq < cursor
                    /\ \A i \in k + 1 .. Len(copies) : copies[i].seq >= cursor
              /\ ~(cursor > 0 /\ handle) => k = Len(copies)
<1>1. Len(copies) \in Nat
  BY LenProperties
<1>2. CASE cursor > 0 /\ handle
  <2>1. PICK n \in Nat : n = cursor
    OBVIOUS
  <2>2. Committed # None /\ Committed + 1 = n
    BY <1>2, <2>1 DEF Committed, None
  <2>3. PICK k \in 0 .. Len(copies) :
           /\ k = Before(n, copies)
           /\ \A i \in 1 .. k : copies[i].seq < n
           /\ \A i \in k + 1 .. Len(copies) : copies[i].seq >= n
    BY BeforeFacts
  <2>4. Due = SubSeq(copies, 1, k)
    BY <2>2, <2>3 DEF Due
  <2>5. Len(Due) = k /\ Due \in Seq(Event)
    BY <2>4, Cut
  <2> QED BY <1>2, <2>1, <2>3, <2>4, <2>5
<1>3. CASE ~(cursor > 0 /\ handle)
  <2>1. PICK s \in Seq(Event), k \in Nat : s = copies /\ k = Len(s)
    BY <1>1
  <2>2. k \in 0 .. Len(s) /\ Len(SubSeq(s, 1, k)) = k /\ SubSeq(s, 1, k) \in Seq(Event)
        /\ \A i \in 1 .. k : SubSeq(s, 1, k)[i] = s[i]
    BY <2>1, Cut
  <2>3. s = SubSeq(s, 1, k)
    BY <2>1, <2>2, SameSeq
  <2>4. Due = s
    BY <1>3, <2>1 DEF Due, Committed, None
  <2> QED BY <1>3, <2>1, <2>2, <2>3, <2>4
<1> QED BY <1>2, <1>3

(* The events an append enqueues. *)
LEMMA LaneAppendShape ==
    ASSUME IInv, NEW c \in Clients, LaneAppend(c)
    PROVE  \E n \in 1 .. MaxGroupSize : \E e \in Seq(Event) :
              /\ e = GroupEvents(NextGroup, nextSeq, n) /\ Len(e) = n
              /\ NextGroup \in Groups /\ EnqueueGroup(NextGroup, n)
              /\ pending' = pending \o e /\ copies' = copies \o e
              /\ nextSeq' = nextSeq + n
<1>1. pending \in Seq(Event) /\ nextSeq \in Nat
  BY DEF IInv, TypeOK, QueueType, CoreType
<1>2. PICK n \in 1 .. MaxGroupSize : EnqueueGroup(NextGroup, n)
  BY DEF LaneAppend, AppendAtomic
<1>3. n \in Nat /\ NextGroup \in 0 .. MaxGroups + 1 /\ NextGroup \in Groups
  BY BoundsAssumption DEF LaneAppend, AppendAtomic, Groups
<1>4. PICK e \in Seq(Event) : e = GroupEvents(NextGroup, nextSeq, n) /\ Len(e) = n
  BY <1>1, <1>3, GroupEventsProperties
<1>5. pending' = pending \o e /\ nextSeq' = nextSeq + n
  BY <1>2, <1>4 DEF EnqueueGroup, Enqueue
<1>6. SubSeq(pending', Len(pending) + 1, Len(pending')) = e
  <2>1. PICK p \in Seq(Event) : p = pending
    BY <1>1
  <2>2. SubSeq(p \o e, Len(p) + 1, Len(p \o e)) = e
    BY Behind
  <2> QED BY <1>5, <2>1, <2>2
<1>7. copies' = copies \o e
  BY <1>6 DEF LaneAppend
<1> QED BY <1>2, <1>3, <1>4, <1>5, <1>7

(* The events a durable append copies once it is decided.                  *)
LEMMA LaneCommittedShape ==
    ASSUME IInv, NEW c \in Clients, LaneCommitted(c), ~fatal
    PROVE  /\ lane = c /\ call[c] = "durable" /\ pc[c] = "flushed"
           /\ \E n \in Nat : \E e \in Seq(Event) :
                 /\ e = GroupEvents(txn[c].grp, txn[c].start, n) /\ Len(e) = n
                 /\ copies' = copies \o e /\ n = txn[c].end - txn[c].start + 1
                 /\ txn[c].start + n = nextSeq /\ nextSeq' = nextSeq
           /\ laneStep' = "cut" /\ lane' = lane /\ taken' = taken
<1>1. /\ lane = c /\ call[c] = "durable" /\ pc[c] = "flushed" /\ nextSeq' = nextSeq
      /\ laneStep' = "cut" /\ lane' = lane /\ taken' = taken
      /\ copies' = copies \o GroupEvents(txn[c].grp, txn[c].start,
                                         txn[c].end - txn[c].start + 1)
  BY DEF LaneCommitted, DurableCommitted
<1>2. txn[c] \in [grp : 0 .. MaxGroups, start : Nat, end : Nat] /\ MaxGroups \in Nat
  BY BoundsAssumption DEF IInv, TypeOK, ClientType
<1>3. txn[c].start <= txn[c].end /\ nextSeq = txn[c].end + 1
  BY <1>1 DEF IInv, ControlInv, ClientControl
<1>4. PICK g, a, n : g = txn[c].grp /\ a = txn[c].start /\ n = txn[c].end - txn[c].start + 1
  OBVIOUS
<1>5. g \in 0 .. MaxGroups + 1 /\ a \in Nat /\ n \in Nat /\ a + n = nextSeq
  BY <1>2, <1>3, <1>4
<1>6. PICK e \in Seq(Event) : e = GroupEvents(g, a, n) /\ Len(e) = n
  BY <1>5, GroupEventsProperties
<1> QED BY <1>1, <1>4, <1>5, <1>6

(* Copies that stay copies, with a bound that does not sink. *)
LEMMA AscStays ==
    ASSUME AscInv, LaneType, UNCHANGED <<copies, taken>> \/ LaneEmpty',
           Bound \in Int, Bound' \in Int, LaneEmpty' \/ Bound' >= Bound
    PROVE  AscInv'
<1>1. CASE LaneEmpty'
  <2>1. copies' = <<>> /\ taken' = <<>>
    BY <1>1 DEF LaneEmpty
  <2>2. \A s : s = <<>> => DOMAIN s = {} /\ 1 .. Len(s) = {}
    BY EmptySeq
  <2>3. /\ DOMAIN copies' = {} /\ DOMAIN taken' = {} /\ 1 .. Len(copies') = {}
    BY <2>1, <2>2
  <2>4. Ascending(copies')
    BY <2>3 DEF Ascending
  <2>5. Ascending(taken')
    BY <2>3 DEF Ascending
  <2> QED BY <2>3, <2>4, <2>5 DEF AscInv
<1>2. CASE ~LaneEmpty'
  <2>1. \A i \in 1 .. Len(copies) : copies[i].seq \in Nat
    BY SeqsAreNat DEF LaneType
  <2>2. \A i \in 1 .. Len(copies) : copies[i].seq < Bound'
    BY <1>2, <2>1 DEF AscInv
  <2>3. copies' = copies /\ taken' = taken
    BY <1>2
  <2>4. \A i \in 1 .. Len(copies') : copies'[i].seq < Bound'
    BY <2>2, <2>3
  <2>5. Ascending(copies') /\ Ascending(taken')
    BY <2>3 DEF AscInv
  <2> QED BY <2>4, <2>5 DEF AscInv
<1> QED BY <1>1, <1>2

(* The bound is a seq, and it sinks only as a process ends.                *)
LEMMA BoundShape ==
    ASSUME IInv, LaneType
    PROVE  /\ Bound \in Nat /\ nextSeq \in Nat
           /\ \A c \in Clients : txn[c].start \in Nat /\ txn[c].end \in Nat
           /\ Held /\ pc[lane] # "rollback" => Bound <= nextSeq
<1>1. /\ nextSeq \in Nat
      /\ \A c \in Clients : txn[c] \in [grp : 0 .. MaxGroups, start : Nat, end : Nat]
  BY DEF IInv, TypeOK, CoreType, ClientType
<1>2. /\ lane \in Clients \cup {Nobody}
      /\ \A c \in Clients : call[c] = "durable" =>
            txn[c].start <= txn[c].end /\ (pc[c] # "rollback" => nextSeq = txn[c].end + 1)
  BY DEF LaneType, IInv, ControlInv, ClientControl
<1> QED BY <1>1, <1>2 DEF Bound, Held

(* Every turn of the lane keeps its types, and what it holds in order.     *)
LEMMA LaneTurnOrdered ==
    ASSUME IInv, IInv', LaneType, CallInv, AscInv, NEW c \in Clients, LaneTurn(c)
    PROVE  LaneType' /\ AscInv'
<1>1. /\ lane \in Clients \cup {Nobody} /\ laneStep \in {"call", "cut", "direct", "tail"}
      /\ copies \in Seq(Event) /\ taken \in Seq(Event)
      /\ lane = Nobody => laneStep = "call"
      /\ taken = <<>> <=> laneStep \in {"call", "cut"}
  BY DEF LaneType
<1>2. /\ Bound \in Nat /\ nextSeq \in Nat /\ nextSeq' \in Nat
      /\ \A d \in Clients : txn[d].start \in Nat /\ txn[d].end \in Nat
      /\ Held /\ pc[lane] # "rollback" => Bound <= nextSeq
  BY BoundShape DEF IInv, TypeOK, CoreType
<1>3. /\ call \in [Clients -> {"none", "flush", "durable", "close"}] /\ ClientControl
      /\ DownControl
  BY DEF IInv, TypeOK, ClientType, ControlInv
<1>4. LaneType' => Bound' \in Nat
  BY DEF LaneType, Bound, Held, IInv, TypeOK, CoreType, ClientType
<1>5. <<>> \in Seq(Event)
  BY EmptySeq
<1>6. CASE LaneAppend(c)
  <2>1. PICK n \in 1 .. MaxGroupSize, e \in Seq(Event) :
           /\ e = GroupEvents(NextGroup, nextSeq, n) /\ Len(e) = n
           /\ NextGroup \in Groups /\ copies' = copies \o e
           /\ nextSeq' = nextSeq + n
    BY <1>6, LaneAppendShape
  <2>2. /\ lane = Nobody /\ UNCHANGED <<lane, laneStep, taken>>
    BY <1>6 DEF LaneAppend
  <2>3. Bound = nextSeq /\ Bound' = nextSeq'
    BY <2>2 DEF Bound, Held
  <2>4. n \in Nat /\ NextGroup \in 0 .. MaxGroups + 1
    BY <2>1, BoundsAssumption DEF Groups
  <2>5. PICK s \in Seq(Event) : s = copies /\ Ascending(s)
                                /\ \A i \in 1 .. Len(s) : s[i].seq < nextSeq
    BY <1>1, <2>3 DEF AscInv
  <2>6. PICK g : g = NextGroup
    OBVIOUS
  <2>7. /\ s \o e \in Seq(Event) /\ Ascending(s \o e)
        /\ \A i \in 1 .. Len(s \o e) : (s \o e)[i].seq < nextSeq + n
    BY <1>2, <2>1, <2>4, <2>5, <2>6, RunBehind
  <2>8. LaneType'
    BY <1>1, <2>1, <2>2, <2>5, <2>7 DEF LaneType
  <2>9. taken' = taken /\ Ascending(taken) /\ copies' = s \o e
    BY <2>1, <2>2, <2>5 DEF AscInv
  <2>10. AscInv'
    BY <2>1, <2>3, <2>7, <2>9 DEF AscInv
  <2> QED BY <2>8, <2>10
<1>7. CASE LaneFlush(c) \/ LaneDurable(c)
  <2>1. /\ lane = Nobody /\ lane' = c /\ UNCHANGED <<laneStep, copies, taken>>
    BY <1>7 DEF LaneFlush, LaneDurable, TakeLane
  <2>2. Bound = nextSeq
    BY <2>1 DEF Bound, Held
  <2>3. LaneType'
    BY <1>1, <2>1, NobodyAssumption DEF LaneType
  <2>4. Bound' = nextSeq
    <3>1. CASE LaneFlush(c)
      <4>1. call'[c] = "flush" /\ nextSeq' = nextSeq
        BY <1>3, <3>1 DEF LaneFlush, FlushStart, coreVars
      <4> QED BY <2>1, <4>1 DEF Bound, Held
    <3>2. CASE LaneDurable(c)
      <4>1. DurableStart(c) /\ txn \in [Clients -> [grp : 0 .. MaxGroups, start : Nat, end : Nat]]
        BY <3>2 DEF LaneDurable, IInv, TypeOK, ClientType
      <4>2. call'[c] = "durable" /\ txn'[c].start = nextSeq
        BY <1>3, <4>1 DEF DurableStart
      <4> QED BY <2>1, <4>2, NobodyAssumption DEF Bound, Held
    <3> QED BY <1>7, <3>1, <3>2
  <2> QED BY <1>2, <1>4, <2>1, <2>2, <2>3, <2>4, AscStays
<1>8. CASE LaneFlushed(c)
  <2>1. /\ lane = c /\ call[c] = "flush" /\ UNCHANGED <<copies, nextSeq>>
        /\ call' = [call EXCEPT ![c] = "none"] /\ pc[c] = "flushed"
        /\ \/ lane' = Nobody /\ laneStep' = "call" /\ taken' = <<>>
           \/ lane' = lane /\ laneStep' = "cut" /\ taken' = taken
    BY <1>8 DEF LaneFlushed, FlushReturn, Return, LeaveLane, coreVars
  <2>2. laneStep = "call" /\ taken = <<>>
    BY <1>1, <2>1, NobodyAssumption DEF CallInv
  <2>3. Bound = nextSeq /\ Bound' = nextSeq
    BY <1>3, <2>1 DEF Bound, Held
  <2>4. LaneType' /\ taken' = taken
    <3>1. CASE lane' = Nobody /\ laneStep' = "call" /\ taken' = <<>>
      BY <1>1, <1>5, <2>1, <2>2, <3>1 DEF LaneType
    <3>2. CASE lane' = lane /\ laneStep' = "cut" /\ taken' = taken
      BY <1>1, <2>1, <2>2, <3>2, NobodyAssumption DEF LaneType
    <3> QED BY <2>1, <3>1, <3>2
  <2> QED BY <1>2, <2>1, <2>3, <2>4, AscStays
<1>9. CASE LaneCommitted(c)
  <2>1. /\ lane = c /\ call[c] = "durable" /\ pc[c] = "flushed" /\ nextSeq' = nextSeq
        /\ call' = [call EXCEPT ![c] = "none"] /\ (lane' = Nobody \/ lane' = c)
    BY <1>9 DEF LaneCommitted, DurableCommitted, DurableReturn, Return, LeaveLane
  <2>2. laneStep = "call" /\ taken = <<>>
    BY <1>1, <2>1, NobodyAssumption DEF CallInv
  <2>3. ~Held' /\ Bound' = nextSeq /\ Bound = txn[c].start
    BY <1>3, <2>1, NobodyAssumption DEF Bound, Held
  <2>4. Bound <= nextSeq
    BY <1>2, <2>1, NobodyAssumption DEF Held
  <2>5. CASE fatal
    <3>1. lane' = Nobody /\ laneStep' = "call" /\ taken' = <<>> /\ copies' = copies
      BY <1>9, <2>5 DEF LaneCommitted, LeaveLane
    <3>2. LaneType' /\ taken' = taken
      BY <1>1, <1>5, <2>2, <3>1 DEF LaneType
    <3> QED BY <1>2, <2>3, <2>4, <3>1, <3>2, AscStays
  <2>6. CASE ~fatal
    <3>1. PICK n \in Nat, e \in Seq(Event) :
             /\ e = GroupEvents(txn[c].grp, txn[c].start, n) /\ Len(e) = n
             /\ copies' = copies \o e /\ txn[c].start + n = nextSeq
      BY <1>9, <2>6, LaneCommittedShape
    <3>2. laneStep' = "cut" /\ lane' = lane /\ taken' = taken
      BY <1>9, <2>6, LaneCommittedShape
    <3>3. PICK a, g : a = txn[c].start /\ g = txn[c].grp
      OBVIOUS
    <3>4. a \in Nat /\ g \in 0 .. MaxGroups + 1 /\ a + n = nextSeq
      <4>1. txn[c] \in [grp : 0 .. MaxGroups, start : Nat, end : Nat] /\ MaxGroups \in Nat
        BY BoundsAssumption DEF IInv, TypeOK, ClientType
      <4> QED BY <3>1, <3>3, <4>1
    <3>5. PICK s \in Seq(Event) : s = copies /\ Ascending(s)
                                  /\ \A i \in 1 .. Len(s) : s[i].seq < a
      BY <1>1, <2>3, <3>3 DEF AscInv
    <3>6. /\ s \o e \in Seq(Event) /\ Ascending(s \o e)
          /\ \A i \in 1 .. Len(s \o e) : (s \o e)[i].seq < a + n
      BY <3>1, <3>3, <3>4, <3>5, RunBehind
    <3>7. LaneType'
      BY <1>1, <2>1, <2>2, <3>1, <3>2, <3>5, <3>6, NobodyAssumption DEF LaneType
    <3>8. taken' = taken /\ Ascending(taken) /\ copies' = s \o e
      BY <3>1, <3>2, <3>5 DEF AscInv
    <3>9. AscInv'
      BY <2>3, <3>4, <3>6, <3>8 DEF AscInv
    <3> QED BY <3>7, <3>9
  <2> QED BY <2>5, <2>6
<1>10. CASE LaneRejected(c)
  <2>1. lane = c /\ call[c] = "durable" /\ copies' = copies /\ pc[c] # "idle"
    BY <1>3, <1>10 DEF LaneRejected, DurableFailed, DiscardRefused, DurableRollback,
       ClientControl
  <2>2. laneStep = "call" /\ taken = <<>>
    BY <1>1, <2>1, NobodyAssumption DEF CallInv
  <2>3. Bound = txn[c].start
    BY <2>1, NobodyAssumption DEF Bound, Held
  <2>4. CASE pc'[c] = "idle"
    <3>1. lane' = Nobody /\ laneStep' = "call" /\ taken' = <<>>
      BY <1>10, <2>4 DEF LaneRejected, LeaveLane
    <3>2. LaneType' /\ taken' = taken
      BY <1>1, <1>5, <2>1, <2>2, <3>1 DEF LaneType
    <3>3. Bound' = nextSeq'
      BY <3>1 DEF Bound, Held
    <3>4. nextSeq' >= Bound
      <4>1. CASE DurableRollback(c)
        <5>1. nextSeq' = txn[c].start
          BY <4>1 DEF DurableRollback, RollbackSeq
        <5> QED BY <1>2, <2>3, <5>1
      <4>2. CASE DurableFailed(c) \/ DiscardRefused(c)
        <5>1. nextSeq' = nextSeq /\ pc[c] # "rollback"
          BY <4>2 DEF DurableFailed, DiscardRefused
        <5> QED BY <1>2, <2>1, <5>1, NobodyAssumption DEF Held
      <4> QED BY <1>10, <4>1, <4>2 DEF LaneRejected
    <3> QED BY <1>2, <2>1, <3>2, <3>3, <3>4, AscStays
  <2>5. CASE pc'[c] # "idle"
    <3>1. UNCHANGED <<lane, laneStep, taken>>
      BY <1>10, <2>5 DEF LaneRejected
    <3>2. DurableFailed(c) /\ UNCHANGED <<call, txn>>
      BY <1>10, <2>5, <1>3, NobodyAssumption DEF LaneRejected, DurableFailed, DiscardRefused,
         DurableRollback, DurableReturn, Return, IInv, TypeOK, ClientType
    <3>3. Bound' = Bound
      BY <2>1, <3>1, <3>2, NobodyAssumption DEF Bound, Held
    <3>4. LaneType'
      BY <1>1, <2>1, <3>1 DEF LaneType
    <3> QED BY <1>2, <2>1, <3>1, <3>3, <3>4, AscStays
  <2> QED BY <2>4, <2>5
<1>11. CASE CutPending(c)
  <2>1. lane = c /\ laneStep = "cut" /\ UNCHANGED vars
    BY <1>11 DEF CutPending
  <2>2. call[c] = "none" /\ taken = <<>>
    BY <1>1, <1>3, <2>1, NobodyAssumption DEF CallInv, ClientControl
  <2>3. nextSeq' = nextSeq /\ call' = call /\ Bound = nextSeq
    BY <2>1, <2>2 DEF vars, coreVars, clientVars, Bound, Held
  <2>4. CASE Due = <<>>
    <3>1. lane' = Nobody /\ laneStep' = "call" /\ taken' = <<>> /\ copies' = copies
      BY <1>11, <2>4 DEF CutPending, LeaveLane
    <3>2. LaneType' /\ taken' = taken
      BY <1>1, <1>5, <2>2, <3>1 DEF LaneType
    <3>3. Bound' = nextSeq
      BY <2>3, <3>1 DEF Bound, Held
    <3> QED BY <1>2, <2>3, <3>1, <3>2, <3>3, AscStays
  <2>5. CASE Due # <<>>
    <3>1. /\ lane' = lane /\ laneStep' \in {"direct", "tail"} /\ taken' = Due
          /\ copies' = SubSeq(copies, Len(Due) + 1, Len(copies))
      BY <1>11, <2>5 DEF CutPending
    <3>2. PICK s \in Seq(Event) : s = copies /\ Ascending(s)
      BY <1>1 DEF AscInv
    <3>3. PICK k \in 0 .. Len(s) : Due = SubSeq(s, 1, k) /\ Len(Due) = k
      <4>1. copies \in Seq(Event) /\ Ascending(copies) /\ cursor \in Nat
        BY <1>1 DEF AscInv, IInv, TypeOK, CoreType
      <4>2. PICK k \in 0 .. Len(copies) : Due = SubSeq(copies, 1, k) /\ Len(Due) = k
        BY <4>1, DueShape
      <4> QED BY <3>2, <4>2
    <3>4. taken' = SubSeq(s, 1, k) /\ copies' = SubSeq(s, k + 1, Len(s))
      BY <3>1, <3>2, <3>3
    <3>a. PICK a \in Seq(Event) : a = SubSeq(s, 1, k)
      BY Cut
    <3>b. PICK b \in Seq(Event) :
             /\ b = SubSeq(s, k + 1, Len(s)) /\ Len(b) = Len(s) - k
             /\ \A i \in 1 .. Len(s) - k : b[i] = s[k + i]
      BY Split
    <3>5. Ascending(a) /\ Ascending(b)
      BY <3>2, <3>a, <3>b, AscendingParts
    <3>6. taken' = a /\ copies' = b /\ a # <<>>
      BY <2>5, <3>3, <3>4, <3>a, <3>b
    <3>7. LaneType'
      BY <1>1, <2>1, <3>1, <3>6, NobodyAssumption DEF LaneType
    <3>8. Bound' = nextSeq
      BY <2>1, <2>2, <2>3, <3>1 DEF Bound, Held
    <3>9. \A i \in 1 .. Len(b) : b[i].seq < nextSeq
      <4>1. \A i \in 1 .. Len(s) : s[i].seq < nextSeq
        BY <2>3, <3>2 DEF AscInv
      <4>2. \A i \in 1 .. Len(s) - k : k + i \in 1 .. Len(s)
        BY LenProperties
      <4> QED BY <3>b, <4>1, <4>2
    <3> QED BY <3>5, <3>6, <3>7, <3>8, <3>9 DEF AscInv
  <2> QED BY <2>4, <2>5
<1>12. CASE FoldDirect(c) \/ FoldTail(c)
  <2>1. /\ lane = c /\ laneStep # "call" /\ UNCHANGED <<copies, nextSeq, call>>
        /\ lane' = Nobody /\ laneStep' = "call" /\ taken' = <<>>
    BY <1>12 DEF FoldDirect, FoldTail, LeaveLane, vars, coreVars, clientVars
  <2>2. call[c] = "none"
    BY <1>1, <1>3, <2>1, NobodyAssumption DEF CallInv, ClientControl
  <2>3. Bound = nextSeq /\ Bound' = nextSeq'
    BY <2>1, <2>2 DEF Bound, Held
  <2>4. LaneType'
    BY <1>1, <1>5, <2>1 DEF LaneType
  <2>5. /\ \A i \in 1 .. Len(copies') : copies'[i].seq < Bound'
        /\ Ascending(copies')
    BY <2>1, <2>3 DEF AscInv
  <2>6. Ascending(taken')
    <3>1. DOMAIN taken' = {}
      BY <2>1, EmptySeq
    <3> QED BY <3>1 DEF Ascending
  <2> QED BY <2>4, <2>5, <2>6 DEF AscInv
<1> QED BY <1>6, <1>7, <1>8, <1>9, <1>10, <1>11, <1>12 DEF LaneTurn

(* Nor does a step beside the lane disturb it. *)
LEMMA OutsideOrdered ==
    ASSUME IInv, IInv', LaneType, CallInv, AscInv, Outside \/ LaneEmpty'
    PROVE  LaneType' /\ AscInv'
<1>1. /\ Bound \in Nat /\ nextSeq \in Nat
  BY BoundShape
<1>2. LaneType' => Bound' \in Nat
  BY DEF LaneType, Bound, Held, IInv, TypeOK, CoreType, ClientType
<1>3. CASE LaneEmpty'
  <2>1. LaneType'
    <3>1. <<>> \in Seq(Event)
      BY EmptySeq
    <3> QED BY <1>3, <3>1 DEF LaneEmpty, LaneType
  <2> QED BY <1>1, <1>2, <1>3, <2>1, AscStays
<1>4. CASE Outside
  <2>1. UNCHANGED <<lane, laneStep, copies, taken>>
    BY <1>4 DEF Outside, laneVars
  <2>2. LaneType'
    BY <2>1 DEF LaneType
  <2>3. Held' <=> Held
    BY <1>4, <2>1 DEF Outside, Held
  <2>4. Bound' >= Bound
    <3>1. CASE Held
      <4>1. Bound' = Bound
        BY <1>4, <2>1, <2>3, <3>1 DEF Outside, Bound, Held
      <4> QED BY <1>1, <4>1
    <3>2. CASE ~Held
      <4>1. Bound = nextSeq /\ Bound' = nextSeq'
        BY <2>3, <3>2 DEF Bound
      <4> QED BY <1>1, <1>4, <4>1 DEF Outside
    <3> QED BY <3>1, <3>2
  <2> QED BY <1>1, <1>2, <2>1, <2>2, <2>4, AscStays
<1> QED BY <1>3, <1>4

(* fold_all keeps a sequence of events one. *)
LEMMA FoldTyped ==
    ASSUME folded \in Seq(Event), NEW s \in Seq(Event), Ascending(s)
    PROVE  FoldAll(s) \in Seq(Event)
<1>1. Floor \in Nat
  <2>1. PICK f \in Seq(Event) : f = folded
    OBVIOUS
  <2>2. CASE f # <<>>
    <3>1. Len(f) \in 1 .. Len(f)
      BY <2>2, SeqsAreNat, EmptySeq
    <3>2. f[Len(f)].seq \in Nat
      BY <3>1, SeqsAreNat
    <3> QED BY <2>1, <2>2, <3>2 DEF Floor
  <2> QED BY <2>1, <2>2 DEF Floor
<1>2. PICK n \in Nat : n = Floor
  BY <1>1
<1>3. From(n, s) \in Seq(Event)
  BY FromTyped
<1> QED BY <1>2, <1>3, Concat DEF FoldAll

(* Every way to read the projections folds events ... *)
LEMMA ReadsTyped ==
    ASSUME IInv, ViewType, Refreshed \/ RefreshFails
    PROVE  folded' \in Seq(Event) /\ stale' \in BOOLEAN
<1>1. /\ \A s \in Streams : s \in Seq(Event) /\ Ascending(s)
      /\ \A s \in BrokenStreams : s \in Seq(Event) /\ Ascending(s)
  BY StreamsShape, BrokenShape, DenseAscending
<1>2. folded' = folded \/ \E s \in Streams \cup BrokenStreams : folded' = FoldAll(s)
  BY DEF Refreshed, RefreshFails
<1>3. folded \in Seq(Event) /\ stale \in BOOLEAN
  BY DEF ViewType
<1> QED BY <1>1, <1>2, <1>3, FoldTyped DEF Refreshed, RefreshFails

(* ... and every way to read the replay adds some. *)
LEMMA CatchesTyped ==
    ASSUME IInv, ViewType, CaughtUp \/ CatchUpFails
    PROVE  replayed' \in Seq(Event) /\ pushed' \in Nat
<1>1. replayed \in Seq(Event) /\ pushed \in Nat
  BY DEF ViewType
<1>2. CASE UNCHANGED <<replayed, pushed>>
  BY <1>1, <1>2
<1>3. CASE \E s \in Streams : LET suffix == From(pushed, s) IN
              /\ replayed' = replayed \o Replayable(suffix)
              /\ pushed' = pushed + Len(suffix)
  <2>1. PICK s \in Streams : /\ replayed' = replayed \o Replayable(From(pushed, s))
                             /\ pushed' = pushed + Len(From(pushed, s))
    BY <1>3
  <2>2. s \in Seq(Event) /\ Ascending(s)
    BY StreamsShape, DenseAscending
  <2>3. PICK p \in Nat : p = pushed
    BY <1>1
  <2>4. PICK r \in Seq(Event) : r = From(p, s) /\ Len(r) \in Nat
    BY <2>2, FromTyped
  <2>5. PICK t \in Seq(Event) : t = Replayable(r)
    BY ReplayConcat
  <2>6. PICK q \in Seq(Event) : q = replayed
    BY <1>1
  <2>7. replayed' = q \o t /\ pushed' = p + Len(r)
    BY <2>1, <2>3, <2>4, <2>5, <2>6
  <2> QED BY <2>4, <2>7, Concat
<1> QED BY <1>2, <1>3 DEF CaughtUp, CatchUpFails

\* A step that leaves both caches as they are.
ViewsStay == UNCHANGED <<folded, replayed, pushed, stale, overtaken>>

(* The steps that leave the views alone. *)
LEMMA OtherSteps ==
    ASSUME [ProjectionNext]_allVars
    PROVE  \/ ViewsStay
           \/ \E c \in Clients :
                 \/ FoldDirect(c) \/ FoldTail(c) \/ ReadProjections(c) \/ ReadReplay(c)
                 \/ ArmShared(c) \/ ArmCold(c) \/ Quiesce(c) \/ InstallPublish(c)
                 \/ ReleaseClosed(c)
           \/ Die
<1>1. CASE \/ WriterStep \/ TimerStep \/ UNCHANGED allVars
           \/ (LoadRepair \/ RepairInterrupted) /\ UNCHANGED readVars
  BY <1>1 DEF WriterStep, TimerStep, allVars, readVars, viewVars, tableVars, ViewsStay
<1>2. ASSUME NEW c \in Clients,
             \/ UNCHANGED readVars
             \/ LaneFlushed(c) \/ LaneCommitted(c) \/ LaneRejected(c) \/ CutPending(c)
             \/ InstallFlush(c) \/ InstallFlushed(c) \/ InstallRead(c)
             \/ ReleaseWriter(c) \/ LaneAppend(c) \/ LaneFlush(c) \/ LaneDurable(c)
             \/ InstallSeed(c) \/ DiscardArmed(c)
      PROVE  ViewsStay
  BY <1>2 DEF LaneFlushed, LaneCommitted, LaneRejected, CutPending, InstallFlush,
     InstallFlushed, InstallRead, ReleaseWriter, LaneAppend, LaneFlush, LaneDurable,
     InstallSeed, DiscardArmed, readVars, viewVars, tableVars, ViewsStay
<1> QED BY <1>1, <1>2, Zenon DEF ProjectionNext, CallStep, ServiceCall

(* Every step keeps the types of the views. *)
LEMMA ViewsTyped ==
    ASSUME IInv, IInv', LaneType, AscInv, MarkInv, ViewType, [ProjectionNext]_allVars
    PROVE  ViewType'
<1>1. /\ folded \in Seq(Event) /\ replayed \in Seq(Event) /\ pushed \in Nat
      /\ stale \in BOOLEAN /\ overtaken \in BOOLEAN
  BY DEF ViewType
<1>2. ASSUME NEW c \in Clients, FoldDirect(c) \/ FoldTail(c)
      PROVE  ViewType'
  <2>1. UNCHANGED <<replayed, pushed, overtaken>> /\ stale' \in BOOLEAN
    BY <1>1, <1>2 DEF FoldDirect, FoldTail, tableVars
  <2>2. folded' = folded \/ folded' = FoldAll(taken) \/ \E s \in Streams : folded' = FoldAll(s)
    BY <1>2 DEF FoldDirect, FoldTail
  <2>3. taken \in Seq(Event) /\ Ascending(taken)
    BY DEF LaneType, AscInv
  <2>4. \A s \in Streams : s \in Seq(Event) /\ Ascending(s)
    BY StreamsShape, DenseAscending
  <2>5. folded' \in Seq(Event)
    BY <1>1, <2>2, <2>3, <2>4, FoldTyped
  <2> QED BY <1>1, <2>1, <2>5 DEF ViewType
<1>3. ASSUME NEW c \in Clients, ReadProjections(c) \/ Quiesce(c)
      PROVE  ViewType'
  <2>1. UNCHANGED <<replayed, pushed, overtaken>> /\ (Refreshed \/ RefreshFails)
    BY <1>3 DEF ReadProjections, Quiesce, tableVars
  <2> QED BY <1>1, <2>1, ReadsTyped DEF ViewType
<1>4. ASSUME NEW c \in Clients, ReadReplay(c)
      PROVE  ViewType'
  <2>1. UNCHANGED <<folded, stale, overtaken>> /\ (CaughtUp \/ CatchUpFails)
    BY <1>4 DEF ReadReplay, tableVars
  <2> QED BY <1>1, <2>1, CatchesTyped DEF ViewType
<1>5. ASSUME NEW c \in Clients, ArmShared(c)
      PROVE  ViewType'
  <2>1. /\ overtaken' = overtaken /\ (Refreshed \/ RefreshFails)
        /\ CaughtUp \/ CatchUpFails \/ UNCHANGED <<replayed, pushed>>
    BY <1>5, Zenon DEF ArmShared
  <2>2. folded' \in Seq(Event) /\ stale' \in BOOLEAN
    BY <2>1, ReadsTyped
  <2>3. replayed' \in Seq(Event) /\ pushed' \in Nat
    BY <1>1, <2>1, CatchesTyped
  <2> QED BY <1>1, <2>1, <2>2, <2>3 DEF ViewType
<1>6. ASSUME NEW c \in Clients, ArmCold(c)
      PROVE  ViewType'
  <2>1. /\ folded' = log' /\ replayed' = Replayable(log') /\ pushed' = Len(log')
        /\ stale' = stale /\ overtaken' = overtaken
    BY <1>6, Zenon DEF ArmCold
  <2>2. PICK l \in Seq(Event) : l = log'
    BY DEF IInv, TypeOK, DiskType
  <2>3. Replayable(l) \in Seq(Event) /\ Len(l) \in Nat
    BY ReplayConcat, SeqsAreNat
  <2> QED BY <1>1, <2>1, <2>2, <2>3 DEF ViewType
<1>7. ASSUME NEW c \in Clients, InstallPublish(c)
      PROVE  ViewType'
  <2>1. /\ step[c] = "publish" /\ pushed' = mark[c] + 1
        /\ folded' = FoldAll(<<[seq |-> mark[c], grp |-> Seed]>>)
        /\ replayed' = replayed /\ stale' = stale
        /\ overtaken' = (overtaken \/ LastAdmitted.grp # Seed)
    BY <1>7 DEF InstallPublish
  <2>2. PICK m \in Nat : m = mark[c]
    BY <2>1 DEF MarkInv
  <2>3. PICK e : e = [seq |-> m, grp |-> Seed]
    OBVIOUS
  <2>4. e \in Event
    BY <2>3, BoundsAssumption DEF Event, Seed
  <2>5. <<e>> \in Seq(Event) /\ Ascending(<<e>>)
    BY <2>4 DEF Ascending
  <2>6. folded' \in Seq(Event)
    BY <1>1, <2>1, <2>2, <2>3, <2>5, FoldTyped
  <2>7. overtaken' \in BOOLEAN
    BY <2>1, Zenon
  <2> QED BY <1>1, <2>1, <2>2, <2>6, <2>7 DEF ViewType
<1>8. ASSUME Die \/ \E c \in Clients : ReleaseClosed(c)
      PROVE  ViewType'
  <2>1. <<>> \in Seq(Event)
    BY EmptySeq
  <2>2. folded' = <<>> /\ replayed' = <<>> /\ pushed' = 0 /\ ~stale' /\ ~overtaken'
        /\ stale' = FALSE /\ overtaken' = FALSE
    BY <1>8 DEF Die, ReleaseClosed, ForgetViews
  <2> QED BY <2>1, <2>2 DEF ViewType
<1>9. CASE ViewsStay
  BY <1>1, <1>9 DEF ViewsStay, ViewType
<1> QED BY <1>2, <1>3, <1>4, <1>5, <1>6, <1>7, <1>8, <1>9, OtherSteps

(* Marks are seqs from the read of the committed cursor to publication.    *)
LEMMA MarksKept ==
    ASSUME IInv, OwnerInv, MarkInv, [ProjectionNext]_allVars
    PROVE  MarkInv'
<1>1. step \in [Clients -> Stages] /\ mark \in [Clients -> Nat \cup {None}] /\ cursor \in Nat
  BY DEF OwnerInv, MarkInv, IInv, TypeOK, CoreType
<1>2. ASSUME mark' = mark,
             \/ step' = step
             \/ \E c \in Clients, s \in Stages \ {"publish"} : step' = [step EXCEPT ![c] = s]
      PROVE  MarkInv'
  BY <1>1, <1>2 DEF MarkInv
<1>3. ASSUME NEW c \in Clients, Installed(c)
      PROVE  MarkInv'
  <2>1. step' = [step EXCEPT ![c] = "none"] /\ mark' = [mark EXCEPT ![c] = None]
    BY <1>3 DEF Installed
  <2> QED BY <1>1, <2>1 DEF MarkInv
<1>4. ASSUME NEW c \in Clients, InstallRead(c)
      PROVE  MarkInv'
  <2>1. CASE Committed = None
    BY <1>3, <1>4, <2>1 DEF InstallRead
  <2>2. CASE Committed # None
    <3>1. step' = [step EXCEPT ![c] = "publish"] /\ mark' = [mark EXCEPT ![c] = Committed]
      BY <1>4, <2>2 DEF InstallRead
    <3>2. Committed \in Nat
      BY <1>1, <2>2 DEF Committed
    <3> QED BY <1>1, <3>1, <3>2 DEF MarkInv
  <2> QED BY <2>1, <2>2
<1>5. ASSUME NEW c \in Clients, InstallFlushed(c) \/ InstallPublish(c)
      PROVE  MarkInv'
  <2>1. \/ Installed(c)
        \/ step' = [step EXCEPT ![c] = "flushed"] /\ mark' = mark
    BY <1>5 DEF InstallFlushed, InstallPublish
  <2>2. "flushed" \in Stages \ {"publish"}
    BY DEF Stages
  <2> QED BY <1>2, <1>3, <2>1, <2>2
<1>6. ASSUME NEW c \in Clients,
             \/ UNCHANGED readVars
             \/ LaneFlushed(c) \/ LaneCommitted(c) \/ LaneRejected(c) \/ CutPending(c)
             \/ FoldDirect(c) \/ FoldTail(c) \/ InstallFlush(c) \/ LaneAppend(c)
             \/ LaneFlush(c) \/ LaneDurable(c) \/ ReadProjections(c) \/ ReadReplay(c)
             \/ ArmShared(c) \/ ArmCold(c)
      PROVE  MarkInv'
  <2>1. mark' = mark /\ step' = step
    BY <1>6, Zenon DEF LaneFlushed, LaneCommitted, LaneRejected, CutPending, FoldDirect,
       FoldTail, InstallFlush, LaneAppend, LaneFlush, LaneDurable, ReadProjections,
       ReadReplay, ArmShared, ArmCold, readVars, tableVars
  <2> QED BY <1>2, <2>1
<1>7. ASSUME NEW c \in Clients,
             InstallSeed(c) \/ Quiesce(c) \/ DiscardArmed(c) \/ ReleaseWriter(c)
             \/ ReleaseClosed(c)
      PROVE  MarkInv'
  <2>1. mark' = mark
    BY <1>7 DEF InstallSeed, Quiesce, DiscardArmed, ReleaseWriter, ReleaseClosed
  <2>2. \E s \in {"seeded", "unseeded", "leaving", "closing", "none"} :
           step' = [step EXCEPT ![c] = s]
    BY <1>7 DEF InstallSeed, Quiesce, DiscardArmed, ReleaseWriter, ReleaseClosed, LetGo
  <2>3. {"seeded", "unseeded", "leaving", "closing", "none"} \subseteq Stages \ {"publish"}
    BY DEF Stages
  <2> QED BY <1>2, <2>1, <2>2, <2>3
<1>8. CASE Die
  <2>1. step' = [c \in Clients |-> "none"] /\ mark' = [c \in Clients |-> None]
    BY <1>8 DEF Die
  <2> QED BY <2>1 DEF MarkInv
<1>9. CASE \/ WriterStep \/ TimerStep \/ UNCHANGED allVars
           \/ (LoadRepair \/ RepairInterrupted) /\ UNCHANGED readVars
  <2>1. mark' = mark /\ step' = step
    BY <1>9 DEF WriterStep, TimerStep, allVars, readVars, tableVars
  <2> QED BY <1>2, <2>1
<1>10. ASSUME NEW c \in Clients, CallStep(c) \/ ServiceCall(c) PROVE MarkInv'
  BY <1>4, <1>5, <1>6, <1>7, <1>10, Zenon DEF CallStep, ServiceCall
<1> QED BY <1>8, <1>9, <1>10, Zenon DEF ProjectionNext

\* The inductive invariant behind ReadType.
ReadInv == LaneType /\ CallInv /\ AscInv /\ MarkInv /\ ViewType

(* No service is in a call and nothing has been read at the start.         *)
LEMMA ReadInit == ProjectionInit => ReadInv
<1> SUFFICES ASSUME ProjectionInit PROVE ReadInv
  OBVIOUS
<1>1. /\ lane = Nobody /\ laneStep = "call" /\ copies = <<>> /\ taken = <<>>
      /\ folded = <<>> /\ replayed = <<>> /\ pushed = 0 /\ stale = FALSE /\ overtaken = FALSE
      /\ step = [c \in Clients |-> "none"] /\ mark = [c \in Clients |-> None]
      /\ pc = [c \in Clients |-> "idle"] /\ call = [c \in Clients |-> "none"]
      /\ up /\ ~seedDue
  BY DEF ProjectionInit, Init
<1>2. \A s : s = <<>> => s \in Seq(Event) /\ DOMAIN s = {} /\ 1 .. Len(s) = {}
  BY EmptySeq
<1>3. LaneType
  BY <1>1, <1>2 DEF LaneType
<1>4. CallInv
  BY <1>1 DEF CallInv
<1>5. AscInv
  BY <1>1, <1>2 DEF AscInv, Ascending
<1>6. MarkInv
  BY <1>1 DEF MarkInv
<1>7. ViewType
  BY <1>1, <1>2 DEF ViewType
<1> QED BY <1>3, <1>4, <1>5, <1>6, <1>7 DEF ReadInv

(* Every step of a service keeps the types and the calls in the lane.      *)
LEMMA ReadStep ==
    IInv /\ IInv' /\ OwnerInv /\ ReadInv /\ [ProjectionNext]_allVars => ReadInv'
<1> SUFFICES ASSUME IInv, IInv', OwnerInv, ReadInv, [ProjectionNext]_allVars
             PROVE  ReadInv'
  OBVIOUS
<1>1. LaneType /\ CallInv /\ AscInv /\ MarkInv /\ ViewType
  BY DEF ReadInv
<1>2. LaneType' /\ AscInv'
  BY <1>1, OutsideSteps, LaneTurnOrdered, OutsideOrdered
<1>3. CallInv' /\ MarkInv' /\ ViewType'
  BY <1>1, CallsKept, MarksKept, ViewsTyped
<1> QED BY <1>2, <1>3 DEF ReadInv

(* The invariant of what is read, with those of the journal and the owners. *)
LEMMA ReadHolds == ProjectionSpec => [](IInv /\ OwnerInv /\ ReadInv)
<1>1. IInv /\ OwnerInv /\ ReadInv /\ [ProjectionNext]_allVars => IInv' /\ OwnerInv' /\ ReadInv'
  <2>1. IInv /\ [ProjectionNext]_allVars => IInv'
    BY JournalSteps, TypeStep, ControlStep, DiskStep, QueueStep DEF IInv
  <2> QED BY <2>1, OwnerStep, ReadStep
<1>2. ProjectionInit => IInv /\ OwnerInv /\ ReadInv
  BY InitInvariant, OwnerInit, ReadInit DEF ProjectionInit
<1> QED BY <1>1, <1>2, PTL DEF ProjectionSpec

(* The readers' state stays in its domain.  What has been copied in the     *)
(* lane or folded are events of the journal whichever stream they came     *)
(* from, and what a refresh has taken out lasts no longer than the lane is *)
(* held.                                                                   *)
THEOREM ReadTypeCorrect == ProjectionSpec => []ReadType
<1>1. OwnerInv /\ ReadInv => ReadType
  BY Zenon DEF OwnerInv, ReadInv, LaneType, MarkInv, ViewType, ReadType, Phases, Stages
<1> QED BY <1>1, ReadHolds, PTL

-----------------------------------------------------------------------------
(* What a closed writer drops was never reported *)

\* A group a closed writer dropped was reported to nobody, nor will be.
LostInv ==
    /\ lost \subseteq Submitted
    /\ acked \cap lost = {}
    /\ up /\ ~closed => \A c \in Clients : Claimed(c) \cap lost = {}

(* Only a flush or a durable append reports, in the lane or of an install,  *)
(* and none of them is made of a coordinator that is being closed.         *)
LEMMA ReportsAreOpen ==
    ASSUME IInv, OwnerInv, CallInv, [ProjectionNext]_allVars, acked' # acked
    PROVE  ~closed
<1>1. PICK c \in Clients : LaneFlushed(c) \/ LaneCommitted(c) \/ InstallFlushed(c)
  <2>1. ASSUME NEW c \in Clients,
               \/ UNCHANGED readVars
                  /\ (FlushEnter(c) \/ FlushWake(c) \/ DiscardTail(c) \/ CloseJoin(c))
               \/ LaneRejected(c) \/ CutPending(c) \/ FoldDirect(c) \/ FoldTail(c)
               \/ InstallFlush(c) \/ InstallRead(c) \/ InstallPublish(c)
               \/ ReleaseWriter(c)
        PROVE  FALSE
    BY <2>1 DEF FlushEnter, FlushWake, DiscardTail, CloseJoin, LaneRejected, CutPending,
       FoldDirect, FoldTail, InstallFlush, InstallRead, InstallPublish, ReleaseWriter,
       DurableFailed, DiscardRefused, DurableRollback, FlushStart, CloseStart, vars, auxVars
  <2>2. ASSUME NEW c \in Clients, ReleaseClosed(c) \/ Die
        PROVE  FALSE
    BY <2>2 DEF ReleaseClosed, Die, Release, Crash
  <2>3. ASSUME NEW c \in Clients, ServiceCall(c) PROVE FALSE
    <3>1. CASE LaneAppend(c) \/ LaneFlush(c) \/ LaneDurable(c) \/ InstallSeed(c)
      BY <3>1 DEF LaneAppend, LaneFlush, LaneDurable, InstallSeed, AppendAtomic, FlushStart,
         DurableStart, EnqueueSeed, vars, auxVars
    <3>2. CASE ReadProjections(c) \/ ReadReplay(c) \/ ArmShared(c) \/ Quiesce(c)
               \/ DiscardArmed(c)
      BY <3>2 DEF ReadProjections, ReadReplay, ArmShared, Quiesce, DiscardArmed, vars, auxVars
    <3>3. CASE ArmCold(c)
      BY <3>3, Zenon DEF ArmCold, Reopen, auxVars
    <3> QED BY <2>3, <3>1, <3>2, <3>3 DEF ServiceCall
  <2>4. CASE \/ WriterStep \/ TimerStep \/ LoadRepair \/ RepairInterrupted
             \/ UNCHANGED allVars
    BY <2>4 DEF WriterStep, TimerStep, WorkerStep, WorkerTake, WriteCommits,
       WriteNotCommitted, WriteUnknown, WriteOutcome, SettleCommitted, SettleRestored,
       SettleDropped, WorkerExit, WindowExpires, LoadRepair, RepairInterrupted, auxVars,
       vars, allVars
  <2>5. ~Die
    BY DEF Die, Crash
  <2> QED BY <2>1, <2>2, <2>3, <2>4, <2>5, Zenon DEF ProjectionNext, CallStep
<1>2. step[c] # "closing" /\ c \in Holders
  <2>1. CASE LaneFlushed(c) \/ LaneCommitted(c)
    <3>1. lane = c
      BY <2>1 DEF LaneFlushed, LaneCommitted
    <3> QED BY <3>1, NobodyAssumption DEF CallInv, Holders
  <2>2. CASE InstallFlushed(c)
    BY <2>2 DEF InstallFlushed, OwnerInv, Holders
  <2> QED BY <1>1, <2>1, <2>2
<1> QED BY <1>2, NobodyAssumption DEF OwnerInv

(* A coordinator that is closed is never opened again. *)
LEMMA ClosedStays ==
    ASSUME [Next]_vars, up, up', closed
    PROVE  closed'
<1>1. ASSUME NEW c \in Clients, ClientCall(c) \/ ClientStep(c) PROVE closed'
  <2>1. CASE AppendAtomic(c) \/ DurableStart(c)
    BY <2>1 DEF AppendAtomic, DurableStart, EnqueueGroup, Enqueue
  <2>2. CASE FlushStart(c) \/ CloseStart(c) \/ CloseAgain(c) \/ FlushReturn(c)
             \/ DurableCommitted(c) \/ DurableFailed(c)
    BY <2>2 DEF FlushStart, CloseStart, CloseAgain, FlushReturn, DurableCommitted,
       DurableFailed, queueVars
  <2>3. CASE FlushEnter(c) \/ FlushWake(c) \/ DiscardTail(c) \/ DiscardRefused(c)
             \/ DurableRollback(c) \/ CloseJoin(c)
    BY <2>3 DEF FlushEnter, FlushWake, DiscardTail, DiscardRefused, DurableRollback,
       CloseJoin, queueVars
  <2> QED BY <1>1, <2>1, <2>2, <2>3 DEF ClientCall, ClientStep
<1>2. CASE EnqueueSeed \/ WorkerStep \/ WindowExpires \/ UNCHANGED vars
  BY <1>2 DEF EnqueueSeed, EnqueueGroup, Enqueue, WorkerStep, WorkerTake, WriteCommits,
     WriteNotCommitted, WriteUnknown, WriteOutcome, SettleCommitted, SettleRestored,
     SettleDropped, WorkerExit, WindowExpires, vars, queueVars
<1>3. ~(LoadRepair \/ RepairInterrupted \/ Reopen)
  BY DEF LoadRepair, RepairInterrupted, Reopen
<1>4. ~(Crash \/ Release)
  BY DEF Crash, Release, Forget
<1> QED BY <1>1, <1>2, <1>3, <1>4 DEF Next

(* What a closed writer drops was not reported, and is not reported later:  *)
(* the groups that are lost were submitted, and none of them is acked.     *)
LEMMA LostKept ==
    ASSUME IInv, DInv, OwnerInv, CallInv, LostInv, [ProjectionNext]_allVars
    PROVE  LostInv'
<1>1. [Next]_vars /\ TypeOK /\ NamesInv
  BY JournalSteps DEF IInv, DInv
<1>2. Submitted \subseteq Submitted'
  BY <1>1, SubmittedStep
<1>3. lost' = lost \/ SettleDropped
  <2>1. ASSUME NEW c \in Clients, ClientCall(c) \/ ClientStep(c) PROVE lost' = lost
    BY <2>1 DEF ClientCall, ClientStep, AppendAtomic, DurableStart, FlushStart, CloseStart,
       CloseAgain, FlushEnter, FlushWake, FlushReturn, DurableCommitted, DurableFailed,
       DiscardTail, DiscardRefused, DurableRollback, CloseJoin, auxVars
  <2>2. CASE \/ EnqueueSeed \/ WindowExpires \/ Crash \/ Release \/ LoadRepair
             \/ RepairInterrupted \/ Reopen \/ UNCHANGED vars
    BY <2>2 DEF EnqueueSeed, WindowExpires, Crash, Release, LoadRepair, RepairInterrupted,
       Reopen, auxVars, vars
  <2>3. CASE WorkerStep
    BY <2>3 DEF WorkerStep, WorkerTake, WriteCommits, WriteNotCommitted, WriteUnknown,
       WriteOutcome, SettleCommitted, SettleRestored, WorkerExit, auxVars
  <2> QED BY <1>1, <2>1, <2>2, <2>3 DEF Next
<1>4. CASE SettleDropped
  <2>1. /\ up /\ closed /\ closed' = closed /\ InFlight = batch
        /\ lost' = lost \cup GroupsOf(batch \o pending)
        /\ UNCHANGED <<acked, size>>
    BY <1>4 DEF SettleDropped, InFlight
  <2>2. batch \in Seq(Event) /\ pending \in Seq(Event)
    BY <1>1, Shape
  <2>3. ASSUME NEW g \in GroupsOf(batch \o pending)
        PROVE  g \in Groups /\ ~Absent(g)
    <3>1. g \in Groups /\ ~Without(g, batch \o pending)
      BY DEF GroupsOf, Without
    <3>2. PICK a \in Seq(Event), b \in Seq(Event) : a = batch /\ b = pending
      BY <2>2
    <3>3. ~(Without(g, a) /\ Without(g, b))
      BY <3>1, <3>2, WithoutConcat
    <3> QED BY <2>1, <3>1, <3>2, <3>3 DEF Absent
  <2>4. GroupsOf(batch \o pending) \subseteq Submitted
    BY <1>1, <2>3 DEF NamesInv
  <2>5. acked \cap GroupsOf(batch \o pending) = {}
    BY <2>3 DEF DInv, AckedInv, LostInv
  <2> QED BY <1>2, <2>1, <2>4, <2>5 DEF LostInv
<1>5. CASE lost' = lost
  <2>1. lost' \subseteq Submitted'
    BY <1>2, <1>5 DEF LostInv
  <2>2. acked' \cap lost' = {}
    <3>1. SUFFICES ASSUME NEW g \in acked', g \in lost PROVE FALSE
      BY <1>5
    <3>2. g \notin acked
      BY <3>1 DEF LostInv
    <3>3. up /\ \E c \in Clients : g \in Claimed(c)
      BY <1>1, <3>2, AckStep
    <3>4. ~closed
      BY <3>1, <3>2, ReportsAreOpen
    <3> QED BY <3>1, <3>3, <3>4 DEF LostInv
  <2>3. ASSUME up', ~closed', NEW c \in Clients, NEW g \in Claimed(c)', g \in lost
        PROVE  FALSE
    <3>1. g \in Submitted
      BY <2>3 DEF LostInv
    <3>2. g \in Claimed(c)
      <4>1. g \in Claimed(c) \/ (g = NextGroup /\ (AppendAtomic(c) \/ DurableStart(c)))
        BY <1>1, <2>3, ClaimStep
      <4>2. AppendAtomic(c) \/ DurableStart(c) => NextGroup \in Groups
        BY DEF AppendAtomic, DurableStart
      <4>3. NextGroup \in Groups => NextGroup \notin Submitted
        BY <1>1, NextGroupIsNew
      <4> QED BY <3>1, <4>1, <4>2, <4>3
    <3>3. up
      BY <1>1, <3>2 DEF NamesInv
    <3>4. ~closed
      BY <1>1, <2>3, <3>3, ClosedStays
    <3> QED BY <2>3, <3>2, <3>3, <3>4 DEF LostInv
  <2> QED BY <1>5, <2>1, <2>2, <2>3 DEF LostInv
<1> QED BY <1>3, <1>4, <1>5

-----------------------------------------------------------------------------
(* The session as the journal has it, and what the readers have of it *)

\* The copies reach up to here: a durable append registers its own last.
End == IF Held THEN txn[lane].start ELSE Len(Stream)

\* A flush has found everything written.
Settled(c) == pc[c] = "flushed" /\ result[c] = "ok"
Flushed == lane # Nobody /\ (laneStep = "cut" \/ Settled(lane))

\* The projections and the replay are beginnings of the session.
ViewInv ==
    /\ Lies(folded, 0, Stream)
    /\ pushed <= Len(Stream) /\ replayed = Replayable(SubSeq(Stream, 1, pushed))

\* What has left the copies is durable, and folded unless a refresh failed.
Reported(lo) ==
    \A i \in 1 .. lo : Stream[i].grp \in Groups =>
        i <= Len(log) /\ (stale \/ i <= Len(folded))

\* From lo on the session is what the lane has taken out, then the copies.
LaneAt(lo) ==
    /\ Lies(taken, lo, Stream) /\ Lies(copies, lo + Len(taken), Stream)
    /\ lo + Len(taken) + Len(copies) = End
    /\ taken # <<>> => lo + Len(taken) <= Len(log)
    /\ laneStep = "direct" => lo <= Len(folded)
    /\ Reported(lo)

\* The lane has the end of the session, and a flush of it the whole log.
LaneInv ==
    /\ \E lo \in 0 .. Len(Stream) : LaneAt(lo)
    /\ Flushed => Len(log) = Len(Stream)
    /\ Held => \A i \in txn[lane].start + 1 .. Len(Stream) : Stream[i].grp = txn[lane].grp

\* While client c installs, the last seed is at position s.
SeededAt(c, s) ==
    /\ Stream[s].grp = Seed /\ \A i \in s + 1 .. Len(Stream) : Stream[i].grp # Seed
    /\ Len(folded) >= s - 1 /\ pushed >= s - 1
    /\ step[c] # "seeded" \/ Settled(c) => s <= Len(log)
    /\ step[c] = "publish" => mark[c] \in s - 1 .. Len(log) - 1

\* Until its seed is admitted a coordinator's caches have the whole session.
SeedInv ==
    /\ seedDue => copies = <<>> /\ Len(folded) = Len(Stream) /\ pushed = Len(Stream)
    /\ \A c \in Clients : step[c] \in {"seeded", "flushed", "publish"} =>
          \E s \in 1 .. Len(Stream) : SeededAt(c, s)

-----------------------------------------------------------------------------
(* The steps of the journal under an ordinary session *)

(* A coordinator with its handle continues a dense log densely.            *)
LEMMA StreamFacts ==
    ASSUME IInv, DInv, up, handle
    PROVE  /\ Dense(Stream) /\ Stream \in Seq(Event) /\ Len(Stream) \in Nat
           /\ Len(log) \in Nat /\ Len(log) <= Len(Stream) /\ Lies(log, 0, Stream)
           /\ cursor = Len(log) /\ torn = 0 /\ ~fatal
           /\ ~closed /\ (\A c \in Clients : pc[c] # "rollback") => nextSeq = Len(Stream)
           /\ Committed = (IF Len(log) > 0 THEN Len(log) - 1 ELSE None)
<1>1. /\ log \in Seq(Event) /\ InFlight \in Seq(Event) /\ pending \in Seq(Event)
      /\ Queue \in Seq(Event) /\ Stream \in Seq(Event) /\ Len(log) \in Nat
      /\ Len(Stream) = Len(log) + Len(InFlight) + Len(pending)
      /\ Len(InFlight) \in Nat /\ Len(pending) \in Nat
  BY Shape DEF IInv
<1>2. cursor = Len(log) /\ torn = 0 /\ ~fatal
  BY DEF IInv, QueueInv, DInv, HandleInv
<1>3. ASSUME ~closed, \A c \in Clients : pc[c] # "rollback" PROVE nextSeq = Len(Stream)
  BY <1>1, <1>2, <1>3 DEF IInv, QueueInv, TailAt
<1>4. /\ \A i \in DOMAIN InFlight : InFlight[i].seq = Len(log) + i - 1
      /\ \A i \in DOMAIN pending : pending[i].seq = Len(log) + Len(InFlight) + i - 1
  BY <1>2, EmptySeq DEF IInv, QueueInv, InFlight, Undecided
<1>5. Queue \in Seq(Event) /\ \A i \in DOMAIN Queue : Queue[i].seq = Len(log) + i - 1
  <2>0. PICK s \in Seq(Event), t \in Seq(Event), b \in Int :
         s = InFlight /\ t = pending /\ b = Len(log)
    BY <1>1
  <2>1. /\ \A i \in DOMAIN s : s[i].seq = b + i - 1
        /\ \A i \in DOMAIN t : t[i].seq = b + Len(s) + i - 1
    BY <1>4, <2>0
  <2>2. s \o t \in Seq(Event) /\ \A i \in DOMAIN (s \o t) : (s \o t)[i].seq = b + i - 1
    BY <2>1, ConcatRuns
  <2> QED BY <2>0, <2>2 DEF Queue
<1>6. Dense(Stream)
  <2>1. \A i \in DOMAIN log : log[i].seq = 0 + i - 1
    <3>1. \A i \in DOMAIN log : log[i].seq = i - 1 /\ i \in Nat
      BY <1>1, SeqsAreNat DEF IInv, SeqIsPosition
    <3> QED BY <3>1
  <2>2. \A i \in DOMAIN Queue : Queue[i].seq = 0 + Len(log) + i - 1
    BY <1>1, <1>5
  <2>3. Stream \in Seq(Event) /\ \A i \in DOMAIN Stream : Stream[i].seq = 0 + i - 1
    BY <1>1, <2>1, <2>2, ConcatRuns DEF Stream
  <2> QED BY <2>3 DEF Dense
<1>7. Lies(log, 0, Stream)
  <2>1. /\ Len(log) <= Len(Stream)
        /\ \A i \in 1 .. Len(log) : Stream[i] = log[i]
    BY <1>1, Concat DEF Stream
  <2> QED BY <1>1, <2>1 DEF Lies
<1>8. Committed = (IF Len(log) > 0 THEN Len(log) - 1 ELSE None)
  BY <1>2 DEF Committed
<1> QED BY <1>1, <1>2, <1>3, <1>6, <1>7, <1>8

(* A step that admits nothing keeps the session and only makes more of it  *)
(* durable.                                                                *)
LEMMA NothingAdmitted ==
    ASSUME IInv, DInv, [Next]_vars, up, up', handle', ~closed, withdrawn' = {},
           nextSeq' = nextSeq
    PROVE  /\ Stream' = Stream /\ Len(log) <= Len(log') /\ Len(log') <= Len(Stream)
           /\ Len(log') \in Nat
<1>1. /\ log \in Seq(Event) /\ batch \in Seq(Event) /\ Queue \in Seq(Event)
      /\ Queue' \in Seq(Event) /\ log' \in Seq(Event) /\ nextSeq \in Nat
      /\ TypeOK
  <2>1. TypeOK /\ TypeOK'
    BY TypeStep DEF IInv
  <2>2. log' \in Seq(Event) /\ InFlight' \in Seq(Event) /\ pending' \in Seq(Event)
    BY <2>1, EmptySeq DEF TypeOK, DiskType, QueueType, WorkerType, InFlight
  <2>3. Queue' \in Seq(Event)
    <3> PICK s \in Seq(Event), t \in Seq(Event) : s = InFlight' /\ t = pending'
      BY <2>2
    <3> QED BY Concat DEF Queue
  <2> QED BY <2>1, <2>2, <2>3, Shape DEF TypeOK, DiskType, CoreType
<1>2. ~SettleDropped /\ ~WriteUnknown
  BY DEF SettleDropped, WriteUnknown
<1>3. ASSUME NEW c \in Clients PROVE ~AppendAtomic(c) /\ ~DurableStart(c) /\ ~DiscardTail(c)
  <2>1. \A n \in 1 .. MaxGroupSize : nextSeq + n # nextSeq
    BY <1>1
  <2>2. ~AppendAtomic(c) /\ ~DurableStart(c)
    BY <2>1 DEF AppendAtomic, DurableStart, EnqueueGroup
  <2>3. ~DiscardTail(c)
    BY DEF DiscardTail
  <2> QED BY <2>2, <2>3
<1>4. ~EnqueueSeed
  <2>1. nextSeq + 1 # nextSeq
    BY <1>1
  <2> QED BY <2>1 DEF EnqueueSeed, EnqueueGroup
<1>5. Stream' = Stream /\ (~WriteCommits => log' = log)
  BY <1>1, <1>2, <1>3, <1>4, StreamKept
<1>6. Len(log) <= Len(log')
  <2>1. CASE WriteCommits
    <3>1. log' = log \o batch
      BY <2>1 DEF WriteCommits
    <3> QED BY <1>1, <3>1, Concat
  <2>2. CASE ~WriteCommits
    BY <1>1, <1>5, <2>2, LenProperties
  <2> QED BY <2>1, <2>2
<1>7. Len(log') <= Len(Stream') /\ Len(log') \in Nat
  <2> PICK s \in Seq(Event), t \in Seq(Event) : s = log' /\ t = Queue'
    BY <1>1
  <2>1. Len(s) \in Nat /\ Len(s) <= Len(s \o t)
    BY Concat
  <2> QED BY <2>1 DEF Stream
<1> QED BY <1>5, <1>6, <1>7

(* An admitted group is the end of the session. *)
LEMMA Admitted ==
    ASSUME TypeOK, NEW g \in 0 .. MaxGroups + 1, NEW n \in 1 .. MaxGroupSize,
           EnqueueGroup(g, n), UNCHANGED <<log, workerVars>>,
           NEW e, e = GroupEvents(g, nextSeq, n)
    PROVE  /\ e \in Seq(Event) /\ Len(e) = n /\ Stream' = Stream \o e
           /\ \A i \in 1 .. n : e[i].grp = g /\ e[i].seq = nextSeq + i - 1
           /\ Stream' \in Seq(Event) /\ Lies(Stream, 0, Stream')
           /\ Lies(e, Len(Stream), Stream') /\ Len(Stream') = Len(Stream) + n
           /\ Len(Stream) \in Nat
<1>1. /\ log \in Seq(Event) /\ InFlight \in Seq(Event) /\ pending \in Seq(Event)
      /\ Queue \in Seq(Event) /\ Stream \in Seq(Event) /\ nextSeq \in Nat /\ n \in Nat
  BY Shape, BoundsAssumption DEF TypeOK, CoreType
<1>2. /\ e \in Seq(Event) /\ Len(e) = n
      /\ \A i \in 1 .. n : e[i].grp = g /\ e[i].seq = nextSeq + i - 1
  <2>1. PICK x \in Nat : x = nextSeq /\ e = GroupEvents(g, x, n)
    BY <1>1
  <2>2. /\ GroupEvents(g, x, n) \in Seq(Event) /\ Len(GroupEvents(g, x, n)) = n
        /\ \A i \in 1 .. n : /\ GroupEvents(g, x, n)[i].grp = g
                             /\ GroupEvents(g, x, n)[i].seq = x + i - 1
    BY <1>1, GroupEventsGroup
  <2> QED BY <2>1, <2>2
<1>3. pending' = pending \o e /\ InFlight' = InFlight /\ log' = log
  BY DEF EnqueueGroup, Enqueue, InFlight, workerVars
<1>4. Queue' = Queue \o e
  <2>1. (InFlight \o pending) \o e = InFlight \o (pending \o e)
    <3>1. PICK x \in Seq(Event), y \in Seq(Event), z \in Seq(Event) :
             x = InFlight /\ y = pending /\ z = e
      BY <1>1, <1>2
    <3>2. (x \o y) \o z = x \o (y \o z)
      BY ConcatAssociates
    <3> QED BY <3>1, <3>2
  <2>2. Queue' = InFlight' \o pending'
    BY DEF Queue
  <2> QED BY <1>3, <2>1, <2>2 DEF Queue
<1>5. Stream' = Stream \o e
  <2> PICK s \in Seq(Event), t \in Seq(Event) : s = log /\ t = Queue
    BY <1>1
  <2>1. (s \o t) \o e = s \o (t \o e)
    BY <1>2, ConcatAssociates
  <2>2. Stream' = log' \o Queue'
    BY DEF Stream
  <2> QED BY <1>3, <1>4, <2>1, <2>2 DEF Stream
<1> HIDE DEF Stream
<1>6. PICK S, T : S = Stream /\ T = Stream' /\ S \in Seq(Event)
  BY <1>1
<1>7. /\ T \in Seq(Event) /\ Len(T) = Len(S) + Len(e) /\ Len(S) \in Nat
      /\ \A i \in 1 .. Len(S) : T[i] = S[i]
      /\ \A i \in 1 .. Len(e) : T[Len(S) + i] = e[i]
  <2>1. PICK u \in Seq(Event) : u = e
    BY <1>2
  <2>2. T = S \o u
    BY <1>5, <1>6, <2>1
  <2>3. /\ S \o u \in Seq(Event) /\ Len(S \o u) = Len(S) + Len(u) /\ Len(S) \in Nat
        /\ \A i \in 1 .. Len(S) : (S \o u)[i] = S[i]
        /\ \A i \in 1 .. Len(u) : (S \o u)[Len(S) + i] = u[i]
    BY <1>6, Concat
  <2> QED BY <2>1, <2>2, <2>3
<1>8. Lies(S, 0, T) /\ Lies(e, Len(S), T)
  BY <1>2, <1>7 DEF Lies
<1> QED BY <1>2, <1>5, <1>6, <1>7, <1>8

-----------------------------------------------------------------------------
(* What a read, a fold and a publication make of the views *)

(* The floor is the number of events folded. *)
LEMMA FloorIsCount ==
    ASSUME NEW S \in Seq(Event), Dense(S), folded \in Seq(Event), Lies(folded, 0, S)
    PROVE  Floor = Len(folded) /\ Len(folded) \in Nat
<1>1. Len(folded) \in Nat /\ \A i \in 1 .. Len(folded) : folded[i].seq = 0 + i - 1
  BY LiesAscending
<1>2. CASE folded = <<>>
  BY <1>2, EmptySeq DEF Floor
<1>3. CASE folded # <<>>
  <2>1. Len(folded) \in 1 .. Len(folded)
    BY <1>1, <1>3, EmptySeq
  <2> QED BY <1>1, <1>3, <2>1 DEF Floor
<1> QED BY <1>1, <1>2, <1>3

\* The projections go on along the session.
FoldsOn ==
    /\ folded' \in Seq(Event) /\ Lies(folded', 0, Stream) /\ Len(folded') \in Nat
    /\ Len(folded) <= Len(folded')

(* A read beside the lane folds on, and a read that succeeds has the whole *)
(* log.                                                                    *)
LEMMA ReadsFoldOn ==
    ASSUME IInv, DInv, up, handle, ViewType, Lies(folded, 0, Stream),
           Refreshed \/ RefreshFails
    PROVE  FoldsOn /\ (stale' = stale \/ Len(log) <= Len(folded'))
<1>1. /\ Dense(Stream) /\ Stream \in Seq(Event) /\ torn = 0 /\ Len(log) \in Nat
      /\ Committed = (IF Len(log) > 0 THEN Len(log) - 1 ELSE None)
  BY StreamFacts
<1>2. folded \in Seq(Event)
  BY DEF ViewType
<1>3. Floor = Len(folded) /\ Len(folded) \in Nat
  BY <1>1, <1>2, FloorIsCount
<1>4. CASE folded' = folded
  <2>1. RefreshFails \/ ~(Committed >= Floor) \/ Committed >= Floor
    OBVIOUS
  <2>2. stale' = stale \/ Len(log) <= Len(folded')
    <3>1. CASE ~(Committed >= Floor)
      BY <1>1, <1>3, <1>4, <3>1 DEF None
    <3>2. CASE Committed >= Floor /\ Refreshed
      <4>1. PICK seen \in Streams : folded' = FoldAll(seen)
        BY <3>2 DEF Refreshed
      <4>2. Dense(seen) /\ Lies(seen, 0, Stream) /\ Len(seen) >= Len(log) - torn
        BY StreamsShape
      <4>3. seen \in Seq(Event)
        BY <4>2 DEF Dense
      <4>4. 0 + Len(seen) <= Len(folded')
        BY <1>1, <1>2, <1>3, <4>1, <4>2, <4>3, FoldLies
      <4> QED BY <1>1, <4>2, <4>3, <4>4, LenProperties
    <3>3. CASE RefreshFails
      BY <3>3 DEF RefreshFails
    <3> QED BY <3>1, <3>2, <3>3
  <2> QED BY <1>2, <1>3, <1>4, <2>2 DEF FoldsOn
<1>5. CASE \E seen \in Streams : folded' = FoldAll(seen)
  <2>1. PICK seen \in Streams : folded' = FoldAll(seen)
    BY <1>5
  <2>2. Dense(seen) /\ Lies(seen, 0, Stream) /\ Len(seen) >= Len(log) - torn
    BY StreamsShape
  <2>3. seen \in Seq(Event) /\ Len(seen) \in Nat
    BY <2>2, LenProperties DEF Dense
  <2>4. /\ folded' \in Seq(Event) /\ Lies(folded', 0, Stream) /\ Len(folded') \in Nat
        /\ Len(folded) <= Len(folded') /\ 0 + Len(seen) <= Len(folded')
    BY <1>1, <1>2, <1>3, <2>1, <2>2, <2>3, FoldLies
  <2> QED BY <1>1, <2>2, <2>3, <2>4 DEF FoldsOn
<1>6. CASE RefreshFails
  <2>1. PICK seen \in BrokenStreams : folded' = FoldAll(seen)
    BY <1>6 DEF RefreshFails
  <2>2. Dense(seen) /\ Lies(seen, 0, Stream)
    BY BrokenShape
  <2>3. seen \in Seq(Event)
    BY <2>2 DEF Dense
  <2>4. /\ folded' \in Seq(Event) /\ Lies(folded', 0, Stream) /\ Len(folded') \in Nat
        /\ Len(folded) <= Len(folded')
    BY <1>1, <1>2, <1>3, <2>1, <2>2, <2>3, FoldLies
  <2> QED BY <1>6, <2>4 DEF FoldsOn, RefreshFails
<1> QED BY <1>4, <1>5, <1>6 DEF Refreshed

\* The replay goes on along the session.
PushesOn ==
    /\ pushed' \in Nat /\ pushed <= pushed' /\ pushed' <= Len(Stream)
    /\ replayed' = Replayable(SubSeq(Stream, 1, pushed'))

(* A catch-up pushes on. *)
LEMMA CatchUpPushesOn ==
    ASSUME IInv, DInv, up, handle, ViewType, ViewInv, CaughtUp \/ CatchUpFails
    PROVE  PushesOn
<1>1. Dense(Stream) /\ Stream \in Seq(Event) /\ Len(Stream) \in Nat
  BY StreamFacts
<1>2. pushed \in Nat /\ pushed \in 0 .. Len(Stream)
  BY <1>1 DEF ViewType, ViewInv
<1>3. CASE UNCHANGED <<replayed, pushed>>
  BY <1>2, <1>3 DEF ViewInv, PushesOn
<1>4. CASE \E seen \in Streams : /\ replayed' = replayed \o Replayable(From(pushed, seen))
                                /\ pushed' = pushed + Len(From(pushed, seen))
  <2>1. PICK seen \in Streams : /\ replayed' = replayed \o Replayable(From(pushed, seen))
                                /\ pushed' = pushed + Len(From(pushed, seen))
    BY <1>4
  <2>2. Dense(seen) /\ Lies(seen, 0, Stream)
    BY StreamsShape
  <2>3. seen \in Seq(Event)
    BY <2>2 DEF Dense
  <2>4. PICK r : r = From(pushed, seen)
    OBVIOUS
  <2>5. /\ pushed + Len(r) \in pushed .. Len(Stream)
        /\ Replayable(SubSeq(Stream, 1, pushed)) \o Replayable(r)
              = Replayable(SubSeq(Stream, 1, pushed + Len(r)))
    <3>1. PICK S \in Seq(Event) : S = Stream /\ Dense(S) /\ Lies(seen, 0, S)
      BY <1>1, <2>2
    <3>2. PICK p \in 0 .. Len(S) : p = pushed /\ r = From(p, seen)
      BY <1>2, <2>4, <3>1
    <3>3. /\ p + Len(r) \in p .. Len(S)
          /\ Replayable(SubSeq(S, 1, p)) \o Replayable(r) = Replayable(SubSeq(S, 1, p + Len(r)))
      <4>1. /\ S \in Seq(Event) /\ Dense(S) /\ p \in 0 .. Len(S)
            /\ seen \in Seq(Event) /\ Lies(seen, 0, S)
        BY <2>3, <3>1, <3>2
      <4>2. r = From(p, seen)
        BY <3>2
      <4> QED BY <4>1, <4>2, ReplayLies, ZenonT(40)
    <3> QED BY <3>1, <3>2, <3>3
  <2> QED BY <1>1, <1>2, <2>1, <2>4, <2>5 DEF ViewInv, PushesOn
<1> QED BY <1>3, <1>4 DEF CaughtUp, CatchUpFails

(* A publication that nothing has overtaken: the seed is the last event.   *)
LEMMA PublishGoesOn ==
    ASSUME IInv, DInv, up, handle, ViewType, ViewInv,
           NEW c \in Clients, InstallPublish(c), ~overtaken', overtaken \in BOOLEAN,
           NEW s \in 1 .. Len(Stream), SeededAt(c, s)
    PROVE  FoldsOn /\ PushesOn /\ pushed' = Len(Stream)
<1>1. Dense(Stream) /\ Stream \in Seq(Event) /\ Len(Stream) \in Nat /\ Len(log) <= Len(Stream)
      /\ Len(log) \in Nat
  BY StreamFacts
<1>2. PICK m : m = mark[c]
  OBVIOUS
<1>3. /\ step[c] = "publish" /\ pushed' = m + 1 /\ replayed' = replayed
      /\ folded' = FoldAll(<<[seq |-> m, grp |-> Seed]>>) /\ LastAdmitted.grp = Seed
  BY <1>2 DEF InstallPublish
<1>4. Stream[Len(Stream)].grp = Seed
  BY <1>3 DEF LastAdmitted, Stream
<1>5. s = Len(Stream)
  BY <1>1, <1>4 DEF SeededAt
<1>6. m = Len(Stream) - 1 /\ m \in Nat /\ Len(log) = Len(Stream)
  BY <1>1, <1>2, <1>3, <1>5 DEF SeededAt
<1>7. /\ Len(folded) >= m /\ pushed >= m /\ pushed \in Nat /\ pushed <= Len(Stream)
      /\ folded \in Seq(Event) /\ Lies(folded, 0, Stream) /\ Len(folded) \in Nat
  BY <1>1, <1>5, <1>6, LenProperties DEF SeededAt, ViewInv, ViewType
<1>8. FoldsOn
  <2>1. PICK e : e = [seq |-> m, grp |-> Seed]
    OBVIOUS
  <2>2. Stream[m + 1] = e /\ e \in Event
    <3>1. m + 1 \in DOMAIN Stream /\ Stream[m + 1].grp = Seed /\ m + 1 \in 1 .. Len(Stream)
      BY <1>1, <1>4, <1>6, LenProperties
    <3>2. Stream[m + 1].seq = m
      BY <1>1, <1>6, <3>1 DEF Dense
    <3>3. Stream[m + 1] \in Event
      BY <1>1, <3>1, ElementOfSeq
    <3> QED BY <2>1, <3>1, <3>2, <3>3 DEF Event
  <2>3. <<e>> \in Seq(Event) /\ Len(<<e>>) = 1 /\ <<e>>[1] = e
    BY <2>2
  <2>4. Lies(<<e>>, m, Stream)
    BY <1>1, <1>6, <2>2, <2>3 DEF Lies
  <2>5. PICK one \in Seq(Event) : one = <<e>>
    BY <2>3
  <2>6. folded' = FoldAll(one)
    BY <1>3, <2>1, <2>5
  <2>7. Lies(one, m, Stream) /\ m <= Len(folded)
    BY <1>7, <2>4, <2>5
  <2> QED BY <1>1, <1>6, <1>7, <2>6, <2>7, FoldLies DEF FoldsOn
<1>9. replayed = Replayable(SubSeq(Stream, 1, Len(Stream)))
  <2>1. CASE pushed = Len(Stream)
    BY <2>1 DEF ViewInv
  <2>2. CASE pushed # Len(Stream)
    <3>1. pushed = Len(Stream) - 1 /\ pushed \in 0 .. Len(Stream)
      BY <1>1, <1>6, <1>7, <2>2
    <3>2. PICK L, M : L = SubSeq(Stream, 1, Len(Stream)) /\ M = SubSeq(Stream, 1, pushed)
      OBVIOUS
    <3>3. /\ L \in Seq(Event) /\ Len(L) = Len(Stream) /\ M \in Seq(Event) /\ Len(M) = pushed
          /\ Lies(L, 0, Stream) /\ Lies(M, 0, Stream)
      BY <1>1, <3>1, <3>2, LiesPrefix
    <3>4. Lies(M, 0, L) /\ Len(L) = Len(M) + 1
      BY <1>1, <3>1, <3>3 DEF Lies
    <3>5. L[Len(L)].grp = Seed
      BY <1>1, <1>4, <1>5, <3>3 DEF Lies
    <3>6. Replayable(L) = Replayable(M)
      BY <3>3, <3>4, <3>5, ReplaySeed
    <3> QED BY <3>2, <3>6 DEF ViewInv
  <2> QED BY <2>1, <2>2
<1>10. pushed' = Len(Stream)
  BY <1>1, <1>3, <1>6
<1> QED BY <1>1, <1>3, <1>7, <1>8, <1>9, <1>10 DEF PushesOn

-----------------------------------------------------------------------------
(* An ordinary session was ordinary before, or has just been opened *)

(* A coordinator that has lost its handle gets no other, and what was      *)
(* rejected or withdrawn stays so.                                         *)
LEMMA TroubleStays ==
    ASSUME [Next]_vars, up
    PROVE  /\ handle' => handle
           /\ rejected \subseteq rejected' /\ withdrawn \subseteq withdrawn'
<1>1. ASSUME NEW c \in Clients, ClientCall(c) \/ ClientStep(c)
      PROVE  /\ handle' => handle
             /\ rejected \subseteq rejected' /\ withdrawn \subseteq withdrawn'
  <2>1. handle' => handle
    <3>1. CASE CloseAgain(c) \/ CloseJoin(c)
      BY <3>1 DEF CloseAgain, CloseJoin, CloseCore
    <3>2. CASE ~(CloseAgain(c) \/ CloseJoin(c))
      BY <1>1, <3>2 DEF ClientCall, ClientStep, AppendAtomic, DurableStart, FlushStart,
         CloseStart, FlushEnter, FlushWake, FlushReturn, DurableCommitted, DurableFailed,
         DiscardTail, DiscardRefused, DurableRollback, coreVars
    <3> QED BY <3>1, <3>2
  <2>2. rejected \subseteq rejected'
    BY <1>1 DEF ClientCall, ClientStep, AppendAtomic, DurableStart, FlushStart, CloseStart,
       CloseAgain, FlushEnter, FlushWake, FlushReturn, DurableCommitted, DurableFailed,
       DiscardTail, DiscardRefused, DurableRollback, CloseJoin, auxVars
  <2>3. withdrawn \subseteq withdrawn'
    BY <1>1 DEF ClientCall, ClientStep, AppendAtomic, DurableStart, FlushStart, CloseStart,
       CloseAgain, FlushEnter, FlushWake, FlushReturn, DurableCommitted, DurableFailed,
       DiscardTail, DiscardRefused, DurableRollback, CloseJoin, auxVars
  <2> QED BY <2>1, <2>2, <2>3
<1>2. CASE EnqueueSeed \/ WorkerStep \/ WindowExpires \/ UNCHANGED vars
  BY <1>2 DEF EnqueueSeed, WorkerStep, WorkerTake, WriteCommits, WriteNotCommitted,
     WriteUnknown, WriteOutcome, SettleCommitted, SettleRestored, SettleDropped,
     WorkerExit, WindowExpires, vars, coreVars, auxVars
<1>3. ~(LoadRepair \/ RepairInterrupted \/ Reopen)
  BY DEF LoadRepair, RepairInterrupted, Reopen
<1>4. CASE Crash \/ Release
  BY <1>4 DEF Crash, Release, Forget
<1> QED BY <1>1, <1>2, <1>3, <1>4 DEF Next

(* What is overtaken stays so while the coordinator is there. *)
LEMMA OvertakenStays ==
    ASSUME [ProjectionNext]_allVars, up'
    PROVE  overtaken => overtaken'
<1>1. ASSUME NEW c \in Clients, ReleaseClosed(c) \/ Die PROVE FALSE
  BY <1>1 DEF ReleaseClosed, Die, Release, Crash, Forget
<1>2. ASSUME NEW c \in Clients, InstallPublish(c) PROVE overtaken => overtaken'
  BY <1>2 DEF InstallPublish
<1>3. ASSUME NEW c \in Clients,
             \/ FoldDirect(c) \/ FoldTail(c) \/ ReadProjections(c) \/ ReadReplay(c)
             \/ ArmShared(c) \/ ArmCold(c) \/ Quiesce(c)
      PROVE  overtaken' = overtaken
  <2>1. ASSUME ArmCold(c) PROVE overtaken' = overtaken
    BY <2>1, Zenon DEF ArmCold
  <2>2. ASSUME ArmShared(c) PROVE overtaken' = overtaken
    BY <2>2, Zenon DEF ArmShared
  <2> QED BY <1>3, <2>1, <2>2 DEF FoldDirect, FoldTail, ReadProjections, ReadReplay,
         Quiesce, tableVars
<1>4. CASE ViewsStay
  BY <1>4 DEF ViewsStay
<1>5. ~Die
  BY DEF Die, Crash, Forget
<1> QED BY <1>1, <1>2, <1>3, <1>4, <1>5, OtherSteps

(* Only a cold arming opens a session. *)
LEMMA OpenedByArming ==
    ASSUME IInv, [ProjectionNext]_allVars, ~up, up'
    PROVE  \E c \in Clients : ArmCold(c)
<1>1. \A c \in Clients : pc[c] = "idle"
  BY DEF IInv, ControlInv, DownControl
<1>2. ASSUME NEW c \in Clients, CallStep(c) PROVE FALSE
  <2>1. CASE \/ up /\ (FlushEnter(c) \/ FlushWake(c) \/ DiscardTail(c) \/ CloseJoin(c))
             \/ LaneFlushed(c) \/ LaneCommitted(c) \/ LaneRejected(c) \/ InstallFlushed(c)
    BY <1>1, <2>1 DEF LaneFlushed, LaneCommitted, LaneRejected, InstallFlushed,
       FlushReturn, DurableCommitted, DurableFailed, DiscardRefused, DurableRollback
  <2>2. CASE CutPending(c) \/ FoldDirect(c) \/ FoldTail(c) \/ InstallRead(c)
             \/ InstallPublish(c)
    BY <2>2 DEF CutPending, FoldDirect, FoldTail, InstallRead, InstallPublish, vars,
       clientVars
  <2>3. CASE InstallFlush(c) \/ ReleaseWriter(c) \/ ReleaseClosed(c)
    BY <2>3 DEF InstallFlush, ReleaseWriter, ReleaseClosed, FlushStart, CloseStart,
       Release, vars, clientVars
  <2> QED BY <1>2, <2>1, <2>2, <2>3 DEF CallStep
<1>3. ASSUME NEW c \in Clients, ServiceCall(c) PROVE ArmCold(c)
  BY <1>3 DEF ServiceCall, LaneAppend, LaneFlush, LaneDurable, ReadProjections,
     ReadReplay, ArmShared, InstallSeed, Quiesce, DiscardArmed, AppendAtomic, FlushStart,
     DurableStart, EnqueueSeed, vars, clientVars
<1>4. ~(WriterStep \/ TimerStep \/ Die \/ UNCHANGED allVars)
  BY DEF WriterStep, TimerStep, Die, WorkerStep, WorkerTake, WriteCommits,
     WriteNotCommitted, WriteUnknown, SettleCommitted, SettleRestored, SettleDropped,
     WorkerExit, WindowExpires, Crash, allVars, vars, clientVars
<1>5. ~(LoadRepair \/ RepairInterrupted)
  BY DEF LoadRepair, RepairInterrupted, clientVars
<1> QED BY <1>2, <1>3, <1>4, <1>5 DEF ProjectionNext

(* An ordinary session was ordinary before the step, or the step opens it. *)
LEMMA OrdinaryBefore ==
    ASSUME IInv, [ProjectionNext]_allVars, Ordinary'
    PROVE  Ordinary \/ (~up /\ \E c \in Clients : ArmCold(c))
<1>1. [Next]_vars /\ up'
  BY JournalSteps DEF Ordinary
<1>2. CASE ~up
  BY <1>1, <1>2, OpenedByArming
<1>3. CASE up
  <2>1. handle /\ rejected = {} /\ withdrawn = {}
    BY <1>1, <1>3, TroubleStays DEF Ordinary
  <2>2. ~closed
    BY <1>1, <1>3, ClosedStays DEF Ordinary
  <2>3. ~overtaken
    BY <1>1, OvertakenStays DEF Ordinary
  <2> QED BY <1>3, <2>1, <2>2, <2>3 DEF Ordinary
<1> QED BY <1>2, <1>3

-----------------------------------------------------------------------------
(* How the session grows *)

(* Whoever admits an event admits a group in the lane or the seed.         *)
LEMMA WhoAdmits ==
    ASSUME [ProjectionNext]_allVars, Ordinary, Ordinary'
    PROVE  \/ nextSeq' = nextSeq
           \/ \E c \in Clients : \/ LaneAppend(c) \/ LaneDurable(c)
                                 \/ InstallSeed(c) /\ EnqueueSeed
<1>1. up /\ up' /\ rejected' = {}
  BY DEF Ordinary
<1>2. ASSUME NEW c \in Clients, CallStep(c) PROVE nextSeq' = nextSeq
  <2>1. CASE FlushEnter(c) \/ FlushWake(c) \/ DiscardTail(c) \/ CloseJoin(c)
    BY <2>1 DEF FlushEnter, FlushWake, DiscardTail, CloseJoin, coreVars
  <2>2. CASE LaneFlushed(c) \/ LaneCommitted(c) \/ InstallFlushed(c)
    BY <2>2 DEF LaneFlushed, LaneCommitted, InstallFlushed, FlushReturn, DurableCommitted,
       coreVars
  <2>3. CASE LaneRejected(c)
    <3>1. ~DurableRollback(c)
      BY <1>1 DEF DurableRollback
    <3> QED BY <2>3, <3>1 DEF LaneRejected, DurableFailed, DiscardRefused
  <2>4. CASE CutPending(c) \/ FoldDirect(c) \/ FoldTail(c) \/ InstallRead(c)
             \/ InstallPublish(c)
    BY <2>4 DEF CutPending, FoldDirect, FoldTail, InstallRead, InstallPublish, vars,
       coreVars
  <2>5. CASE InstallFlush(c) \/ ReleaseWriter(c)
    BY <2>5 DEF InstallFlush, ReleaseWriter, FlushStart, CloseStart, vars, coreVars
  <2>6. ~ReleaseClosed(c)
    BY <1>1 DEF ReleaseClosed, Release, Forget
  <2> QED BY <1>2, <2>1, <2>2, <2>3, <2>4, <2>5, <2>6 DEF CallStep
<1>3. ASSUME NEW c \in Clients, ServiceCall(c),
             ~LaneAppend(c), ~LaneDurable(c), ~(InstallSeed(c) /\ EnqueueSeed)
      PROVE  nextSeq' = nextSeq
  <2>1. ~ArmCold(c)
    BY <1>1 DEF ArmCold, Reopen
  <2>2. CASE InstallSeed(c)
    BY <1>3, <2>2 DEF InstallSeed, vars, coreVars
  <2>3. CASE LaneFlush(c) \/ ReadProjections(c) \/ ReadReplay(c) \/ ArmShared(c)
             \/ Quiesce(c) \/ DiscardArmed(c)
    <3>1. ArmShared(c) => UNCHANGED vars
      BY Zenon DEF ArmShared
    <3> QED BY <2>3, <3>1 DEF LaneFlush, ReadProjections, ReadReplay, Quiesce, DiscardArmed,
           FlushStart, vars, coreVars
  <2> QED BY <1>3, <2>1, <2>2, <2>3 DEF ServiceCall
<1>4. CASE WriterStep \/ TimerStep \/ UNCHANGED allVars
  BY <1>4 DEF WriterStep, TimerStep, WorkerStep, WorkerTake, WriteCommits,
     WriteNotCommitted, WriteUnknown, WriteOutcome, SettleCommitted, SettleRestored,
     SettleDropped, WorkerExit, WindowExpires, allVars, vars, coreVars
<1>5. ~(Die \/ LoadRepair \/ RepairInterrupted)
  BY <1>1 DEF Die, Crash, Forget, LoadRepair, RepairInterrupted
<1> QED BY <1>2, <1>3, <1>4, <1>5 DEF ProjectionNext

\* The session goes on, and so does what of it is durable.
GoesOn ==
    /\ Stream \in Seq(Event) /\ Stream' \in Seq(Event) /\ Lies(Stream, 0, Stream')
    /\ Len(Stream) \in Nat /\ Len(Stream') \in Nat /\ Len(Stream) <= Len(Stream')
    /\ Len(log) \in Nat /\ Len(log') \in Nat /\ Len(log) <= Len(log')
    /\ Len(log') <= Len(Stream')

(* An admitted group is the end of what goes on. *)
LEMMA GroupGoesOn ==
    ASSUME IInv, DInv, up, handle, NEW g \in 0 .. MaxGroups + 1,
           NEW n \in 1 .. MaxGroupSize, EnqueueGroup(g, n), UNCHANGED <<log, workerVars>>,
           NEW e, e = GroupEvents(g, nextSeq, n)
    PROVE  /\ GoesOn /\ e \in Seq(Event) /\ Len(e) = n /\ n \in Nat \ {0}
           /\ Lies(e, Len(Stream), Stream') /\ Len(Stream') = Len(Stream) + n
           /\ \A i \in Len(Stream) + 1 .. Len(Stream') : Stream'[i].grp = g
           /\ log' = log
<1>1. TypeOK /\ n \in Nat \ {0}
  BY BoundsAssumption DEF IInv
<1>2. /\ e \in Seq(Event) /\ Len(e) = n /\ Stream' \in Seq(Event)
      /\ \A i \in 1 .. n : e[i].grp = g
      /\ Lies(Stream, 0, Stream') /\ Lies(e, Len(Stream), Stream')
      /\ Len(Stream') = Len(Stream) + n /\ Len(Stream) \in Nat
  BY <1>1, Admitted
<1>3. /\ Stream \in Seq(Event) /\ Len(log) \in Nat /\ Len(log) <= Len(Stream)
  BY StreamFacts
<1>4. GoesOn
  BY <1>1, <1>2, <1>3 DEF GoesOn
<1>5. ASSUME NEW i \in Len(Stream) + 1 .. Len(Stream') PROVE Stream'[i].grp = g
  <2>1. PICK j : j = i - Len(Stream)
    OBVIOUS
  <2>2. j \in 1 .. n /\ i = Len(Stream) + j
    BY <1>1, <1>2, <2>1
  <2> QED BY <1>2, <2>2 DEF Lies
<1> QED BY <1>1, <1>2, <1>4, <1>5

(* The session under a step of an ordinary session. *)
LEMMA SessionGoesOn ==
    ASSUME IInv, DInv, [ProjectionNext]_allVars, Ordinary, Ordinary'
    PROVE  GoesOn /\ (nextSeq' = nextSeq => Stream' = Stream)
<1>1. /\ [Next]_vars /\ up /\ up' /\ handle /\ handle' /\ ~closed /\ withdrawn' = {}
      /\ TypeOK /\ nextSeq \in Nat
  BY JournalSteps DEF Ordinary, IInv, TypeOK, CoreType
<1>2. /\ Stream \in Seq(Event) /\ Len(Stream) \in Nat /\ Len(log) \in Nat
      /\ Len(log) <= Len(Stream)
  BY <1>1, StreamFacts
<1>3. CASE nextSeq' = nextSeq
  <2>1. Stream' = Stream /\ Len(log) <= Len(log') /\ Len(log') <= Len(Stream) /\ Len(log') \in Nat
    BY <1>1, <1>3, NothingAdmitted
  <2>2. Lies(Stream, 0, Stream)
    BY <1>2 DEF Lies
  <2> QED BY <1>2, <2>1, <2>2 DEF GoesOn
<1>4. ASSUME NEW g \in 0 .. MaxGroups + 1, NEW n \in 1 .. MaxGroupSize,
             EnqueueGroup(g, n), UNCHANGED <<log, workerVars>>
      PROVE  GoesOn /\ nextSeq' # nextSeq
  <2>1. PICK e : e = GroupEvents(g, nextSeq, n)
    OBVIOUS
  <2>2. GoesOn /\ n \in Nat \ {0}
    BY <1>1, <1>4, <2>1, GroupGoesOn
  <2> QED BY <1>1, <1>4, <2>2 DEF EnqueueGroup
<1>5. ASSUME NEW c \in Clients, AppendAtomic(c) \/ DurableStart(c)
      PROVE  GoesOn /\ nextSeq' # nextSeq
  <2>1. PICK n \in 1 .. MaxGroupSize : EnqueueGroup(NextGroup, n)
    BY <1>5 DEF AppendAtomic, DurableStart
  <2>2. NextGroup \in 0 .. MaxGroups + 1 /\ UNCHANGED <<log, workerVars>>
    BY <1>5, BoundsAssumption DEF AppendAtomic, DurableStart, diskVars, Groups
  <2> QED BY <1>4, <2>1, <2>2
<1>6. ASSUME EnqueueSeed PROVE GoesOn /\ nextSeq' # nextSeq
  <2>1. EnqueueGroup(Seed, 1) /\ UNCHANGED <<log, workerVars>>
    BY <1>6 DEF EnqueueSeed, diskVars
  <2>2. Seed \in 0 .. MaxGroups + 1 /\ 1 \in 1 .. MaxGroupSize
    BY BoundsAssumption DEF Seed
  <2> QED BY <1>4, <2>1, <2>2
<1> QED BY <1>3, <1>5, <1>6, WhoAdmits DEF LaneAppend, LaneDurable

-----------------------------------------------------------------------------
(* The views of an ordinary session *)

(* A part of the session stays where it is. *)
LEMMA LiesOn ==
    ASSUME NEW S, NEW T, Lies(S, 0, T), Len(S) \in Nat, Len(T) \in Nat,
           NEW s \in Seq(Event), NEW lo \in Nat, Lies(s, lo, S)
    PROVE  Lies(s, lo, T)
<1>1. Len(s) \in Nat
  BY LenProperties
<1>2. lo + Len(s) <= Len(T)
  BY <1>1 DEF Lies
<1>3. ASSUME NEW i \in 1 .. Len(s) PROVE s[i] = T[lo + i]
  <2>1. lo + i \in 1 .. Len(S)
    BY <1>1 DEF Lies
  <2> QED BY <2>1 DEF Lies
<1> QED BY <1>2, <1>3 DEF Lies

(* What is a beginning of the session stays one. *)
LEMMA BeginningsStay ==
    ASSUME NEW S \in Seq(Event), NEW T \in Seq(Event), Lies(S, 0, T), NEW k \in 0 .. Len(S)
    PROVE  SubSeq(S, 1, k) = SubSeq(T, 1, k)
<1>1. Len(S) \in Nat /\ Len(T) \in Nat /\ k \in 0 .. Len(T)
  BY LenProperties DEF Lies
<1>2. PICK a, b : a = SubSeq(S, 1, k) /\ b = SubSeq(T, 1, k)
  OBVIOUS
<1>3. /\ a \in Seq(Event) /\ Len(a) = k /\ \A i \in 1 .. k : a[i] = S[i]
      /\ b \in Seq(Event) /\ Len(b) = k /\ \A i \in 1 .. k : b[i] = T[i]
  BY <1>1, <1>2, Cut
<1>4. \A i \in 1 .. k : a[i] = b[i]
  <2>1. \A i \in 1 .. k : i \in 1 .. Len(S)
    BY <1>1
  <2> QED BY <1>3, <2>1 DEF Lies
<1> QED BY <1>2, <1>3, <1>4, SameSeq

\* The views go on along the session, which stays or goes on itself.
ViewsGoOn ==
    /\ ViewInv' /\ Len(folded) \in Nat /\ Len(folded') \in Nat /\ pushed \in Nat
    /\ pushed' \in Nat /\ Len(folded) <= Len(folded') /\ pushed <= pushed'

(* Views that nobody touches. *)
LEMMA ViewsLeft ==
    ASSUME GoesOn, ViewType, ViewInv, ViewsStay
    PROVE  ViewsGoOn
<1>1. /\ folded \in Seq(Event) /\ pushed \in Nat /\ Len(folded) \in Nat
      /\ folded' = folded /\ pushed' = pushed /\ replayed' = replayed
  BY LenProperties DEF ViewType, ViewsStay
<1>2. Lies(folded', 0, Stream')
  BY <1>1, LiesOn DEF GoesOn, ViewInv
<1>3. SubSeq(Stream', 1, pushed) = SubSeq(Stream, 1, pushed)
  <2>1. pushed \in 0 .. Len(Stream)
    BY <1>1 DEF GoesOn, ViewInv
  <2> QED BY <2>1, BeginningsStay DEF GoesOn
<1>4. ViewInv'
  <2>1. pushed' <= Len(Stream')
    BY <1>1 DEF ViewInv, GoesOn
  <2>2. replayed' = Replayable(SubSeq(Stream', 1, pushed'))
    BY <1>1, <1>3 DEF ViewInv
  <2> QED BY <1>2, <2>1, <2>2 DEF ViewInv
<1> QED BY <1>1, <1>4 DEF ViewsGoOn

(* Views that go on along a session that stays. *)
LEMMA ViewsFollow ==
    ASSUME UNCHANGED vars, ViewType, ViewInv, Len(Stream) \in Nat,
           FoldsOn \/ folded' = folded,
           PushesOn \/ UNCHANGED <<replayed, pushed>>
    PROVE  ViewsGoOn
<1>1. Stream' = Stream
  BY DEF Stream, Queue, InFlight, vars, diskVars, workerVars, queueVars
<1>2. /\ folded \in Seq(Event) /\ pushed \in Nat /\ Len(folded) \in Nat
      /\ Lies(folded, 0, Stream) /\ pushed <= Len(Stream)
      /\ replayed = Replayable(SubSeq(Stream, 1, pushed))
  BY LenProperties DEF ViewType, ViewInv
<1>3. Lies(folded', 0, Stream) /\ Len(folded') \in Nat /\ Len(folded) <= Len(folded')
  BY <1>2 DEF FoldsOn
<1>4. /\ pushed' \in Nat /\ pushed <= pushed' /\ pushed' <= Len(Stream)
      /\ replayed' = Replayable(SubSeq(Stream, 1, pushed'))
  BY <1>2 DEF PushesOn
<1> QED BY <1>1, <1>2, <1>3, <1>4 DEF ViewsGoOn, ViewInv

(* What the lane folds continues the projections, and covers what it took. *)
LEMMA LaneFolds ==
    ASSUME IInv, DInv, up, handle, ViewType, taken \in Seq(Event),
           NEW c \in Clients, FoldDirect(c) \/ FoldTail(c), ViewInv,
           NEW lo \in 0 .. Len(Stream), LaneAt(lo), taken # <<>>
    PROVE  /\ FoldsOn \/ folded' = folded
           /\ \/ stale' = TRUE
              \/ stale' = FALSE /\ FoldsOn /\ lo + Len(taken) <= Len(folded')
<1>1. /\ Dense(Stream) /\ Stream \in Seq(Event) /\ torn = 0 /\ Len(log) \in Nat
      /\ folded \in Seq(Event) /\ Lies(folded, 0, Stream) /\ Len(folded) \in Nat
      /\ lo \in Nat /\ Len(taken) \in Nat /\ Len(Stream) \in Nat
  BY StreamFacts, LenProperties DEF ViewType, ViewInv
<1>2. Lies(taken, lo, Stream) /\ lo + Len(taken) <= Len(log)
  BY DEF LaneAt
<1>3. CASE FoldDirect(c)
  <2>1. folded' = FoldAll(taken) /\ stale' = FALSE /\ lo <= Len(folded)
    BY <1>3 DEF FoldDirect, LaneAt
  <2>2. /\ folded' \in Seq(Event) /\ Lies(folded', 0, Stream) /\ Len(folded') \in Nat
        /\ Len(folded) <= Len(folded') /\ lo + Len(taken) <= Len(folded')
    BY <1>1, <1>2, <2>1, FoldLies
  <2> QED BY <2>1, <2>2 DEF FoldsOn
<1>4. CASE FoldTail(c)
  <2>1. CASE stale' = TRUE /\ folded' = folded
    BY <2>1
  <2>2. CASE stale' = FALSE /\ \E seen \in Streams : folded' = FoldAll(seen)
    <3>1. PICK seen \in Streams : folded' = FoldAll(seen)
      BY <2>2
    <3>2. Dense(seen) /\ Lies(seen, 0, Stream) /\ Len(seen) >= Len(log) - torn
      BY StreamsShape
    <3>3. seen \in Seq(Event) /\ Len(seen) \in Nat
      BY <3>2, LenProperties DEF Dense
    <3>4. /\ folded' \in Seq(Event) /\ Lies(folded', 0, Stream) /\ Len(folded') \in Nat
          /\ Len(folded) <= Len(folded') /\ 0 + Len(seen) <= Len(folded')
      BY <1>1, <3>1, <3>2, <3>3, FoldLies
    <3>5. lo + Len(taken) <= Len(folded')
      BY <1>1, <1>2, <3>2, <3>3, <3>4
    <3> QED BY <2>2, <3>4, <3>5 DEF FoldsOn
  <2> QED BY <1>4, <2>1, <2>2 DEF FoldTail
<1> QED BY <1>3, <1>4

(* Whoever moves the views of an ordinary session moves them along it, and *)
(* only a read of the whole log, or the lane, settles what was stale.      *)
LEMMA ViewsKept ==
    ASSUME IInv, DInv, OwnerInv, ReadInv, [ProjectionNext]_allVars, Ordinary, Ordinary',
           ViewInv, LaneInv, SeedInv
    PROVE  /\ ViewsGoOn
           /\ \/ stale' = stale \/ Len(log) <= Len(folded')
              \/ \E c \in Clients : FoldDirect(c) \/ FoldTail(c)
<1>1. /\ up /\ up' /\ handle /\ ViewType /\ taken \in Seq(Event) /\ LaneType
      /\ Lies(folded, 0, Stream) /\ ~overtaken' /\ overtaken \in BOOLEAN
  BY DEF Ordinary, ReadInv, LaneType, ViewInv, ViewType
<1>2. Stream \in Seq(Event) /\ Len(Stream) \in Nat
  BY <1>1, StreamFacts
<1>3. CASE ViewsStay
  <2>1. GoesOn
    BY SessionGoesOn
  <2>2. ViewsGoOn
    BY <1>1, <1>3, <2>1, ViewsLeft
  <2> QED BY <1>3, <2>2 DEF ViewsStay
<1>4. ASSUME NEW c \in Clients, FoldDirect(c) \/ FoldTail(c)
      PROVE  ViewsGoOn
  <2>1. UNCHANGED vars /\ UNCHANGED <<replayed, pushed>> /\ laneStep \in {"direct", "tail"}
    BY <1>4 DEF FoldDirect, FoldTail
  <2>2. PICK lo \in 0 .. Len(Stream) : LaneAt(lo)
    BY DEF LaneInv
  <2>3. taken # <<>>
    BY <1>1, <2>1 DEF LaneType
  <2>4. FoldsOn \/ folded' = folded
    BY <1>1, <1>4, <2>2, <2>3, LaneFolds
  <2> QED BY <1>1, <1>2, <2>1, <2>4, ViewsFollow
<1>5. ASSUME NEW c \in Clients,
             ReadProjections(c) \/ ReadReplay(c) \/ ArmShared(c) \/ Quiesce(c)
      PROVE  ViewsGoOn /\ (stale' = stale \/ Len(log) <= Len(folded'))
  <2>1. /\ UNCHANGED vars
        /\ (Refreshed \/ RefreshFails) \/ UNCHANGED <<folded, stale>>
        /\ (CaughtUp \/ CatchUpFails) \/ UNCHANGED <<replayed, pushed>>
    <3>1. CASE ArmShared(c)
      <4>1. /\ UNCHANGED vars
            /\ \/ Refreshed /\ CaughtUp
               \/ RefreshFails /\ UNCHANGED <<replayed, pushed>>
               \/ Refreshed /\ CatchUpFails
        BY <3>1, Zenon DEF ArmShared
      <4> QED BY <4>1
    <3>2. CASE ReadProjections(c) \/ Quiesce(c)
      BY <3>2 DEF ReadProjections, Quiesce
    <3>3. CASE ReadReplay(c)
      BY <3>3 DEF ReadReplay
    <3> QED BY <1>5, <3>1, <3>2, <3>3
  <2>2. Refreshed \/ RefreshFails => FoldsOn /\ (stale' = stale \/ Len(log) <= Len(folded'))
    BY <1>1, ReadsFoldOn
  <2>3. CaughtUp \/ CatchUpFails => PushesOn
    BY <1>1, CatchUpPushesOn
  <2>4. FoldsOn \/ folded' = folded
    BY <2>1, <2>2
  <2>5. PushesOn \/ UNCHANGED <<replayed, pushed>>
    BY <2>1, <2>3
  <2>6. ViewsGoOn
    BY <1>1, <1>2, <2>1, <2>4, <2>5, ViewsFollow
  <2> QED BY <2>1, <2>2, <2>6
<1>6. ASSUME NEW c \in Clients, InstallPublish(c) PROVE ViewsGoOn /\ stale' = stale
  <2>1. UNCHANGED vars /\ stale' = stale /\ step[c] = "publish"
    BY <1>6 DEF InstallPublish
  <2>2. PICK s \in 1 .. Len(Stream) : SeededAt(c, s)
    BY <2>1 DEF SeedInv
  <2>3. FoldsOn /\ PushesOn
    BY <1>1, <1>6, <2>2, PublishGoesOn
  <2>4. ViewsGoOn
    BY <1>1, <1>2, <2>1, <2>3, ViewsFollow
  <2> QED BY <2>1, <2>4
<1>7. \A c \in Clients : ~ArmCold(c) /\ ~ReleaseClosed(c) /\ ~Die
  BY <1>1 DEF ArmCold, Reopen, ReleaseClosed, Release, Forget, Die, Crash
<1>8. ~Die
  BY <1>1 DEF Die, Crash, Forget
<1> QED BY <1>3, <1>4, <1>5, <1>6, <1>7, <1>8, OtherSteps

\* What the readers of an ordinary session have of it.
Faithful == ViewInv /\ LaneInv /\ SeedInv

(* A cold arming starts with the whole log. *)
LEMMA ArmingIsFaithful ==
    ASSUME IInv, IInv', OwnerInv, ReadInv, ~up, NEW c \in Clients, ArmCold(c)
    PROVE  Faithful'
<1>1. /\ UNCHANGED <<lane, laneStep, copies, taken, step, stale>> /\ Holders = {}
      /\ folded' = log' /\ replayed' = Replayable(log') /\ pushed' = Len(log') /\ Reopen
  BY Zenon DEF ArmCold, laneVars
<1>2. lane' = Nobody /\ copies' = <<>> /\ taken' = <<>> /\ laneStep' = "call"
  BY <1>1 DEF ReadInv, CallInv, LaneType
<1>3. /\ pending' = <<>> /\ workerPc' = "wait"
  BY <1>1 DEF Reopen, queueVars, IInv, ControlInv, DownControl
<1>4. log' \in Seq(Event) /\ Len(log') \in Nat
  BY LenProperties DEF IInv, TypeOK, DiskType
<1>5. Stream' = log'
  <2>1. InFlight' = <<>>
    BY <1>3 DEF InFlight
  <2>2. Queue' = <<>>
    <3>1. <<>> \o <<>> = <<>>
      BY EmptySeq, ConcatEmpty
    <3> QED BY <1>3, <2>1, <3>1 DEF Queue
  <2>3. log' \o <<>> = log'
    BY <1>4, ConcatEmpty
  <2> QED BY <2>2, <2>3 DEF Stream
<1>6. PICK L \in Seq(Event) : L = log'
  BY <1>4
<1>7. Lies(L, 0, L) /\ SubSeq(L, 1, Len(L)) = L /\ Len(L) \in Nat /\ Len(<<>>) = 0
  <2>1. Len(L) \in 0 .. Len(L) /\ Lies(L, 0, L)
    BY LenProperties DEF Lies
  <2> QED BY <2>1, LiesPrefix, EmptySeq
<1>8. ViewInv'
  <2>1. Lies(folded', 0, Stream')
    BY <1>1, <1>5, <1>6, <1>7
  <2>2. pushed' = Len(L) /\ Stream' = L /\ replayed' = Replayable(L)
    BY <1>1, <1>5, <1>6
  <2>3. pushed' <= Len(Stream')
    BY <1>7, <2>2
  <2>4. replayed' = Replayable(SubSeq(Stream', 1, pushed'))
    BY <1>7, <2>2
  <2> QED BY <2>1, <2>3, <2>4 DEF ViewInv
<1>9. LaneInv'
  <2>1. ~Held' /\ ~Flushed'
    BY <1>2 DEF Held, Flushed
  <2>2. End' = Len(L)
    BY <1>5, <1>6, <2>1 DEF End
  <2>3. Lies(<<>>, Len(L), L)
    BY <1>7 DEF Lies
  <2>4. Reported(Len(L))'
    <3>1. \A i \in 1 .. Len(L) : i <= Len(log') /\ i <= Len(folded')
      BY <1>1, <1>6, <1>7
    <3> QED BY <3>1 DEF Reported
  <2>5. LaneAt(Len(L))'
    <3>1. Lies(taken', Len(L), Stream') /\ Lies(copies', Len(L) + Len(taken'), Stream')
      BY <1>2, <1>5, <1>6, <1>7, <2>3
    <3>2. Len(L) + Len(taken') + Len(copies') = End'
      BY <1>2, <1>7, <2>2
    <3> QED BY <1>2, <2>4, <3>1, <3>2 DEF LaneAt
  <2>6. Len(L) \in 0 .. Len(Stream')
    BY <1>5, <1>6, <1>7
  <2> QED BY <2>1, <2>5, <2>6 DEF LaneInv
<1>10. SeedInv'
  <2>1. \A d \in Clients : step'[d] = "none"
    BY <1>1 DEF OwnerInv, Holders
  <2> QED BY <1>1, <1>2, <1>5, <2>1 DEF SeedInv
<1> QED BY <1>8, <1>9, <1>10 DEF Faithful

(* A seed keeps its place while its install goes on.                       *)
LEMMA SeedsStay ==
    ASSUME GoesOn, ViewsGoOn, NEW c \in Clients, NEW s \in 1 .. Len(Stream), SeededAt(c, s),
           \A i \in Len(Stream) + 1 .. Len(Stream') : Stream'[i].grp # Seed,
           step'[c] # "seeded" \/ Settled(c)' => s <= Len(log'),
           step'[c] = "publish" => mark'[c] \in s - 1 .. Len(log') - 1
    PROVE  s \in 1 .. Len(Stream') /\ SeededAt(c, s)'
<1>1. /\ Len(Stream) \in Nat /\ Len(Stream') \in Nat /\ Len(Stream) <= Len(Stream')
      /\ Len(log) \in Nat /\ Len(log') \in Nat /\ Len(log) <= Len(log')
      /\ \A i \in 1 .. Len(Stream) : Stream'[i] = Stream[i]
      /\ Len(folded) \in Nat /\ Len(folded') \in Nat /\ pushed \in Nat /\ pushed' \in Nat
      /\ Len(folded) <= Len(folded') /\ pushed <= pushed'
  BY DEF GoesOn, ViewsGoOn, Lies
<1>2. Stream'[s].grp = Seed /\ \A i \in s + 1 .. Len(Stream') : Stream'[i].grp # Seed
  <2>1. ASSUME NEW i \in s + 1 .. Len(Stream') PROVE Stream'[i].grp # Seed
    <3>1. CASE i \in s + 1 .. Len(Stream)
      <4>1. i \in 1 .. Len(Stream)
        BY <3>1
      <4> QED BY <1>1, <3>1, <4>1 DEF SeededAt
    <3>2. CASE i \notin s + 1 .. Len(Stream)
      BY <1>1, <3>2
    <3> QED BY <3>1, <3>2
  <2> QED BY <1>1, <2>1 DEF SeededAt
<1>3. Len(folded') >= s - 1 /\ pushed' >= s - 1
  BY <1>1 DEF SeededAt
<1> QED BY <1>1, <1>2, <1>3 DEF SeededAt

(* When a flush finds everything written, the whole session is durable.    *)
LEMMA SettlesWhenDrained ==
    ASSUME IInv, [Next]_vars, NEW c \in Clients, Settled(c)'
    PROVE  Settled(c) \/ Len(log') = Len(Stream')
<1>1. ClientType /\ WriterControl /\ log \in Seq(Event)
  BY DEF IInv, ControlInv, TypeOK, DiskType
<1>2. pc'[c] = "flushed" /\ result'[c] = "ok"
  BY DEF Settled
<1>3. CASE FlushEnter(c) \/ FlushWake(c)
  <2>1. Drained /\ UNCHANGED <<log, pending, workerPc, batch, written>>
    BY <1>1, <1>2, <1>3 DEF FlushEnter, FlushWake, Decided, workerVars, diskVars, ClientType
  <2>2. pending = <<>> /\ InFlight = <<>>
    BY <1>1, <2>1 DEF Drained, WriterControl, InFlight
  <2>3. Queue = <<>>
    <3>1. <<>> \o <<>> = <<>>
      BY EmptySeq, ConcatEmpty
    <3> QED BY <2>2, <3>1 DEF Queue
  <2>4. Stream = log
    BY <1>1, <2>3, ConcatEmpty DEF Stream
  <2>5. Stream' = Stream
    BY <2>1 DEF Stream, Queue, InFlight
  <2> QED BY <2>1, <2>4, <2>5
<1>4. ASSUME ~Settled(c), ~FlushEnter(c), ~FlushWake(c) PROVE FALSE
  <2>0. ~(pc[c] = "flushed" /\ result[c] = "ok")
    BY <1>4 DEF Settled
  <2>1. ASSUME NEW d \in Clients, d # c, FlushEnter(d) \/ FlushWake(d)
        PROVE  FALSE
    BY <1>1, <1>2, <2>0, <2>1 DEF FlushEnter, FlushWake, ClientType
  <2>2. ASSUME NEW d \in Clients,
               \/ AppendAtomic(d) \/ DurableStart(d) \/ FlushStart(d)
               \/ CloseStart(d) \/ CloseAgain(d) \/ FlushReturn(d)
               \/ DurableCommitted(d) \/ DurableFailed(d) \/ DiscardTail(d)
               \/ DiscardRefused(d) \/ DurableRollback(d) \/ CloseJoin(d)
        PROVE  FALSE
    BY <1>1, <1>2, <2>0, <2>2 DEF AppendAtomic, DurableStart, FlushStart, CloseStart,
       CloseAgain, FlushReturn, DurableCommitted, DurableFailed, DiscardTail,
       DiscardRefused, DurableRollback, CloseJoin, DurableReturn, Return,
       ClientType, clientVars
  <2>3. CASE EnqueueSeed \/ WorkerStep \/ WindowExpires \/ UNCHANGED vars
             \/ LoadRepair \/ RepairInterrupted \/ Reopen
    BY <1>2, <2>0, <2>3 DEF EnqueueSeed, WorkerStep, WorkerTake, WriteCommits,
       WriteNotCommitted, WriteUnknown, WriteOutcome, SettleCommitted,
       SettleRestored, SettleDropped, WorkerExit, WindowExpires, LoadRepair,
       RepairInterrupted, Reopen, vars, clientVars
  <2>4. CASE Crash \/ Release
    BY <1>2, <2>4 DEF Crash, Release, Forget
  <2> QED BY <1>4, <2>1, <2>2, <2>3, <2>4 DEF Next, ClientCall, ClientStep
<1> QED BY <1>3, <1>4

(* How an install comes to be where it is. *)
LEMMA InstallMoves ==
    ASSUME OwnerInv, ReadInv, [ProjectionNext]_allVars, Ordinary, Ordinary', NEW c \in Clients,
           step'[c] \in {"seeded", "flushed", "publish"}
    PROVE  \/ step'[c] = step[c] /\ mark'[c] = mark[c]
           \/ InstallSeed(c) /\ EnqueueSeed /\ step'[c] = "seeded"
           \/ step'[c] = "flushed" /\ step[c] = "seeded" /\ Settled(c)
           \/ /\ step'[c] = "publish" /\ step[c] = "flushed" /\ UNCHANGED vars
              /\ mark'[c] = Committed /\ Committed # None
<1>1. /\ up /\ up' /\ step \in [Clients -> Stages] /\ mark \in [Clients -> Nat \cup {None}]
  BY DEF Ordinary, OwnerInv, ReadInv, MarkInv
<1>2. ASSUME UNCHANGED <<step, mark>> PROVE step'[c] = step[c] /\ mark'[c] = mark[c]
  BY <1>2
<1>3. ASSUME NEW d \in Clients, CallStep(d)
      PROVE  \/ step'[c] = step[c] /\ mark'[c] = mark[c]
             \/ step'[c] = "flushed" /\ step[c] = "seeded" /\ Settled(c)
             \/ /\ step'[c] = "publish" /\ step[c] = "flushed" /\ UNCHANGED vars
                /\ mark'[c] = Committed /\ Committed # None
  <2>1. CASE \/ UNCHANGED readVars
             \/ LaneFlushed(d) \/ LaneCommitted(d) \/ LaneRejected(d)
             \/ CutPending(d) \/ FoldDirect(d) \/ FoldTail(d) \/ InstallFlush(d)
    <3>1. UNCHANGED <<step, mark>>
      BY <2>1 DEF LaneFlushed, LaneCommitted, LaneRejected, CutPending, FoldDirect, FoldTail,
         InstallFlush, readVars, tableVars
    <3> QED BY <1>2, <3>1
  <2>2. CASE InstallFlushed(d)
    <3>1. \/ /\ step' = [step EXCEPT ![d] = "flushed"] /\ mark' = mark
             /\ step[d] = "seeded" /\ result[d] = "ok" /\ pc[d] = "flushed"
          \/ /\ step' = [step EXCEPT ![d] = "none"] /\ mark' = [mark EXCEPT ![d] = None]
      BY <2>2, Zenon DEF InstallFlushed, Installed, FlushReturn
    <3>2. CASE d # c
      BY <1>1, <3>1, <3>2
    <3>3. CASE d = c
      BY <1>1, <3>1, <3>3 DEF Settled
    <3> QED BY <3>2, <3>3
  <2>3. CASE InstallRead(d)
    <3>1. UNCHANGED vars
      BY <2>3 DEF InstallRead
    <3>2. \/ /\ step' = [step EXCEPT ![d] = "publish"] /\ mark' = [mark EXCEPT ![d] = Committed]
             /\ step[d] = "flushed" /\ Committed # None
          \/ /\ step' = [step EXCEPT ![d] = "none"] /\ mark' = [mark EXCEPT ![d] = None]
      BY <2>3, Zenon DEF InstallRead, Installed
    <3>3. CASE d # c
      BY <1>1, <3>2, <3>3
    <3>4. CASE d = c
      <4>1. step'[c] # "none"
        OBVIOUS
      <4>2. /\ step' = [step EXCEPT ![c] = "publish"] /\ mark' = [mark EXCEPT ![c] = Committed]
            /\ step[c] = "flushed" /\ Committed # None
        BY <1>1, <3>2, <3>4, <4>1
      <4> QED BY <1>1, <3>1, <4>2
    <3> QED BY <3>3, <3>4
  <2>4. CASE InstallPublish(d)
    <3>1. step' = [step EXCEPT ![d] = "none"] /\ mark' = [mark EXCEPT ![d] = None]
      BY <2>4 DEF InstallPublish, Installed
    <3> QED BY <1>1, <3>1
  <2>5. CASE ReleaseWriter(d)
    <3>1. mark' = mark /\ \E s \in {"closing", "none"} : step' = [step EXCEPT ![d] = s]
      BY <2>5 DEF ReleaseWriter, LetGo
    <3> QED BY <1>1, <3>1
  <2>6. ~ReleaseClosed(d)
    BY <1>1 DEF ReleaseClosed, Release, Forget
  <2> QED BY <1>3, <2>1, <2>2, <2>3, <2>4, <2>5, <2>6 DEF CallStep
<1>4. ASSUME NEW d \in Clients, ServiceCall(d)
      PROVE  \/ step'[c] = step[c] /\ mark'[c] = mark[c]
             \/ InstallSeed(c) /\ EnqueueSeed /\ step'[c] = "seeded"
  <2>1. CASE LaneAppend(d) \/ LaneFlush(d) \/ LaneDurable(d) \/ ReadProjections(d)
             \/ ReadReplay(d) \/ ArmShared(d) \/ ArmCold(d)
    <3>1. ArmShared(d) \/ ArmCold(d) => UNCHANGED <<step, mark>>
      BY Zenon DEF ArmShared, ArmCold
    <3>2. UNCHANGED <<step, mark>>
      BY <2>1, <3>1 DEF LaneAppend, LaneFlush, LaneDurable, ReadProjections, ReadReplay,
         tableVars
    <3> QED BY <1>2, <3>2
  <2>2. CASE InstallSeed(d)
    <3>1. /\ mark' = mark
          /\ \/ EnqueueSeed /\ step' = [step EXCEPT ![d] = "seeded"]
             \/ step' = [step EXCEPT ![d] = "unseeded"]
      BY <2>2, Zenon DEF InstallSeed
    <3>2. CASE d # c
      BY <1>1, <3>1, <3>2
    <3>3. CASE d = c
      BY <1>1, <2>2, <3>1, <3>3
    <3> QED BY <3>2, <3>3
  <2>3. CASE Quiesce(d) \/ DiscardArmed(d)
    <3>1. mark' = mark /\ step' = [step EXCEPT ![d] = "leaving"]
      BY <2>3, Zenon DEF Quiesce, DiscardArmed
    <3> QED BY <1>1, <3>1
  <2> QED BY <1>4, <2>1, <2>2, <2>3 DEF ServiceCall
<1>5. CASE \/ WriterStep \/ TimerStep \/ UNCHANGED allVars
           \/ (LoadRepair \/ RepairInterrupted) /\ UNCHANGED readVars
  <2>1. UNCHANGED <<step, mark>>
    BY <1>5 DEF WriterStep, TimerStep, readVars, tableVars, allVars
  <2> QED BY <1>2, <2>1
<1>6. ~Die
  BY <1>1 DEF Die, Crash, Forget
<1> QED BY <1>3, <1>4, <1>5, <1>6 DEF ProjectionNext

(* Behind the seed of an install nothing but groups of the lane is admitted. *)
LEMMA NoOtherSeed ==
    ASSUME IInv, DInv, [ProjectionNext]_allVars, Ordinary, Ordinary', ~EnqueueSeed
    PROVE  \A i \in Len(Stream) + 1 .. Len(Stream') : Stream'[i].grp # Seed
<1>1. IInv /\ DInv /\ up /\ handle
  BY DEF Ordinary
<1>2. CASE nextSeq' = nextSeq
  <2>1. Stream' = Stream /\ Len(Stream) \in Nat
    BY <1>2, SessionGoesOn DEF GoesOn
  <2> QED BY <2>1
<1>3. ASSUME NEW c \in Clients, AppendAtomic(c) \/ DurableStart(c)
      PROVE  \A i \in Len(Stream) + 1 .. Len(Stream') : Stream'[i].grp # Seed
  <2>1. PICK n \in 1 .. MaxGroupSize : EnqueueGroup(NextGroup, n)
    BY <1>3 DEF AppendAtomic, DurableStart
  <2>2. PICK g \in Groups : g = NextGroup
    BY <1>3 DEF AppendAtomic, DurableStart
  <2>3. g \in 0 .. MaxGroups + 1 /\ g # Seed
    BY BoundsAssumption DEF Groups, Seed
  <2>4. UNCHANGED <<log, workerVars>>
    BY <1>3 DEF AppendAtomic, DurableStart, diskVars
  <2>5. PICK e : e = GroupEvents(g, nextSeq, n)
    OBVIOUS
  <2>6. \A i \in Len(Stream) + 1 .. Len(Stream') : Stream'[i].grp = g
    BY <1>1, <2>1, <2>2, <2>3, <2>4, <2>5, GroupGoesOn
  <2> QED BY <2>3, <2>6
<1> QED BY <1>2, <1>3, WhoAdmits DEF LaneAppend, LaneDurable

(* The copies of a coordinator whose seed is due. *)
LEMMA NothingCopied ==
    ASSUME IInv, OwnerInv, ReadInv, [ProjectionNext]_allVars, Ordinary, seedDue, copies = <<>>,
           \A c \in Clients : ~AppendAtomic(c) /\ ~DurableStart(c)
    PROVE  copies' = <<>>
<1>1. /\ \A c \in Clients : holds[c] # "active"
      /\ lane = Nobody /\ LaneType /\ CallInv
  <2>1. up /\ LaneType /\ CallInv
    BY DEF Ordinary, ReadInv
  <2> QED BY <2>1 DEF CallInv, LaneType
<1>2. ASSUME NEW c \in Clients, LaneTurn(c) PROVE FALSE
  BY <1>1, <1>2, NobodyAssumption DEF LaneTurn, LaneAppend, LaneFlush, LaneDurable, LaneFlushed,
     LaneCommitted, LaneRejected, CutPending, FoldDirect, FoldTail, InUse
<1>3. CASE Outside
  BY <1>3 DEF Outside, laneVars
<1>4. CASE LaneEmpty'
  BY <1>4 DEF LaneEmpty
<1> QED BY <1>1, <1>2, <1>3, <1>4, OutsideSteps

(* The seed of an install keeps its place, and the views stay behind it.   *)
LEMMA SeedsKept ==
    ASSUME IInv, DInv, OwnerInv, ReadInv, [ProjectionNext]_allVars, Ordinary, Ordinary',
           Faithful
    PROVE  SeedInv'
<1>1. /\ GoesOn /\ (nextSeq' = nextSeq => Stream' = Stream)
      /\ ViewsGoOn /\ [Next]_vars /\ CallInv /\ up /\ up' /\ handle /\ SeedInv /\ ViewInv'
      /\ IInv /\ DInv
  BY SessionGoesOn, ViewsKept, JournalSteps DEF Faithful, Ordinary, ReadInv, ViewsGoOn
<1>2. /\ Len(Stream) \in Nat /\ Len(Stream') \in Nat /\ Len(Stream) <= Len(Stream')
      /\ Len(log) \in Nat /\ Len(log') \in Nat /\ Len(log) <= Len(log')
      /\ Len(folded) \in Nat /\ Len(folded') \in Nat /\ pushed \in Nat /\ pushed' \in Nat
      /\ Len(folded) <= Len(folded') /\ pushed <= pushed'
      /\ Len(folded') <= Len(Stream') /\ pushed' <= Len(Stream')
  BY <1>1 DEF GoesOn, ViewsGoOn, ViewInv, Lies
<1>3. ASSUME seedDue'
      PROVE  copies' = <<>> /\ Len(folded') = Len(Stream') /\ pushed' = Len(Stream')
  <2>1. ~Reopen
    BY <1>1 DEF Reopen
  <2>2. /\ seedDue /\ ~EnqueueSeed
        /\ \A c \in Clients : ~AppendAtomic(c) /\ ~DurableStart(c)
    BY <1>1, <1>3, <2>1, SeedStep
  <2>3. Stream' = Stream
    BY <1>1, <2>2, WhoAdmits DEF LaneAppend, LaneDurable
  <2>4. copies = <<>> /\ Len(folded) = Len(Stream) /\ pushed = Len(Stream)
    BY <1>1, <2>2 DEF SeedInv
  <2>5. copies' = <<>>
    BY <2>2, <2>4, NothingCopied
  <2> QED BY <1>2, <2>3, <2>4, <2>5
<1>4. ASSUME NEW c \in Clients, step'[c] \in {"seeded", "flushed", "publish"}
      PROVE  \E s \in 1 .. Len(Stream') : SeededAt(c, s)'
  <2>1. Settled(c)' => Settled(c) \/ Len(log') = Len(Stream')
    BY <1>1, SettlesWhenDrained
  <2>2. ASSUME step[c] \in {"seeded", "flushed", "publish"}
        PROVE  /\ \A i \in Len(Stream) + 1 .. Len(Stream') : Stream'[i].grp # Seed
               /\ \E s \in 1 .. Len(Stream) : SeededAt(c, s)
    <3>1. ~seedDue
      BY <1>1, <2>2 DEF CallInv
    <3>2. ~EnqueueSeed
      BY <3>1 DEF EnqueueSeed
    <3> QED BY <1>1, <2>2, <3>2, NoOtherSeed DEF SeedInv
  <2>3. CASE step'[c] = step[c] /\ mark'[c] = mark[c]
    <3>1. PICK s \in 1 .. Len(Stream) : SeededAt(c, s)
      BY <1>4, <2>2, <2>3
    <3>2. step'[c] # "seeded" \/ Settled(c)' => s <= Len(log')
      BY <1>2, <2>1, <2>3, <3>1 DEF SeededAt
    <3>3. step'[c] = "publish" => mark'[c] \in s - 1 .. Len(log') - 1
      BY <1>2, <2>3, <3>1 DEF SeededAt
    <3> QED BY <1>1, <1>4, <2>2, <2>3, <3>1, <3>2, <3>3, SeedsStay
  <2>4. CASE InstallSeed(c) /\ EnqueueSeed /\ step'[c] = "seeded"
    <3>1. /\ EnqueueGroup(Seed, 1) /\ seedDue /\ UNCHANGED <<log, workerVars>>
          /\ step[c] = "none" /\ holds[c] = "armed"
      BY <2>4 DEF InstallSeed, EnqueueSeed, diskVars
    <3>2. Seed \in 0 .. MaxGroups + 1 /\ 1 \in 1 .. MaxGroupSize
      BY BoundsAssumption DEF Seed
    <3>3. PICK e : e = GroupEvents(Seed, nextSeq, 1)
      OBVIOUS
    <3>4. /\ Len(Stream') = Len(Stream) + 1
          /\ \A i \in Len(Stream) + 1 .. Len(Stream') : Stream'[i].grp = Seed
      BY <1>1, <3>1, <3>2, <3>3, GroupGoesOn
    <3>5. Len(folded) = Len(Stream) /\ pushed = Len(Stream)
      BY <1>1, <3>1 DEF SeedInv
    <3>6. ~Settled(c)
      BY <1>1, <3>1, NobodyAssumption DEF CallInv, Settled
    <3>7. PICK s \in Nat : s = Len(Stream) + 1
      BY <1>2
    <3>8. s \in 1 .. Len(Stream') /\ Stream'[s].grp = Seed /\ s + 1 .. Len(Stream') = {}
      BY <1>2, <3>4, <3>7
    <3>9. Len(folded') >= s - 1 /\ pushed' >= s - 1 /\ (Settled(c)' => s <= Len(log'))
      BY <1>2, <2>1, <3>4, <3>5, <3>6, <3>7
    <3>10. SeededAt(c, s)'
      BY <2>4, <3>8, <3>9 DEF SeededAt
    <3> QED BY <3>8, <3>10
  <2>5. CASE step'[c] = "flushed" /\ step[c] = "seeded" /\ Settled(c)
    <3>1. PICK s \in 1 .. Len(Stream) : SeededAt(c, s)
      BY <2>2, <2>5
    <3>2. s <= Len(log')
      BY <1>2, <2>5, <3>1 DEF SeededAt
    <3> QED BY <1>1, <2>2, <2>5, <3>1, <3>2, SeedsStay
  <2>6. CASE /\ step'[c] = "publish" /\ step[c] = "flushed" /\ UNCHANGED vars
             /\ mark'[c] = Committed /\ Committed # None
    <3>1. PICK s \in 1 .. Len(Stream) : SeededAt(c, s)
      BY <2>2, <2>6
    <3>2. s <= Len(log) /\ log' = log
      BY <2>6, <3>1 DEF SeededAt, vars, diskVars
    <3>3. Committed = (IF Len(log) > 0 THEN Len(log) - 1 ELSE None)
      BY <1>1, StreamFacts
    <3>4. mark'[c] \in s - 1 .. Len(log') - 1
      BY <1>2, <2>6, <3>2, <3>3
    <3> QED BY <1>1, <1>2, <2>2, <2>6, <3>1, <3>2, <3>4, SeedsStay
  <2> QED BY <1>4, <2>3, <2>4, <2>5, <2>6, InstallMoves
<1> QED BY <1>3, <1>4 DEF SeedInv

-----------------------------------------------------------------------------
(* The lane of an ordinary session *)

(* While the lane is held nothing is admitted. *)
LEMMA LaneBusy ==
    ASSUME IInv, DInv, ReadInv, [ProjectionNext]_allVars, Ordinary, Ordinary', lane # Nobody
    PROVE  nextSeq' = nextSeq /\ Stream' = Stream
<1>1. /\ up /\ CallInv /\ lane \in Clients
  BY DEF Ordinary, ReadInv, LaneType
<1>2. ~seedDue
  BY <1>1 DEF CallInv
<1>3. nextSeq' = nextSeq
  BY <1>2, WhoAdmits DEF LaneAppend, LaneDurable, TakeLane, EnqueueSeed
<1> QED BY <1>3, SessionGoesOn

(* Who holds the lane, and how far its call is: it is taken for a call     *)
(* that begins, and the refresh follows a flush that found everything      *)
(* written.                                                                *)
LEMMA LaneMoves ==
    ASSUME IInv, OwnerInv, ReadInv, [ProjectionNext]_allVars, Ordinary, Ordinary', lane' # Nobody
    PROVE  \/ /\ lane = Nobody /\ laneStep' = "call"
              /\ \E c \in Clients : lane' = c /\ (LaneFlush(c) \/ LaneDurable(c))
           \/ /\ lane # Nobody /\ lane' = lane
              /\ laneStep' = "cut" => laneStep = "cut" \/ Settled(lane)
              /\ call'[lane] = "durable" => call[lane] = "durable" /\ txn'[lane] = txn[lane]
<1>1. /\ up /\ up' /\ CallInv /\ LaneType
      /\ call \in [Clients -> {"none", "flush", "durable", "close"}]
  BY DEF Ordinary, ReadInv, IInv, TypeOK, ClientType
<1>2. CASE Outside
  <2>1. lane # Nobody /\ lane' = lane /\ laneStep' = laneStep
    BY <1>2 DEF Outside, laneVars
  <2> QED BY <1>2, <2>1 DEF Outside
<1>3. ASSUME NEW c \in Clients, LaneAppend(c) PROVE FALSE
  BY <1>3 DEF LaneAppend
<1>4. ASSUME NEW c \in Clients, LaneFlush(c) \/ LaneDurable(c)
      PROVE  lane = Nobody /\ laneStep' = "call" /\ lane' = c
  BY <1>1, <1>4 DEF LaneFlush, LaneDurable, TakeLane, LaneType
<1>5. ASSUME NEW c \in Clients,
             \/ LaneFlushed(c) \/ LaneCommitted(c) \/ LaneRejected(c)
             \/ CutPending(c) \/ FoldDirect(c) \/ FoldTail(c)
      PROVE  /\ lane # Nobody /\ lane' = lane
             /\ laneStep' = "cut" => laneStep = "cut" \/ Settled(lane)
             /\ call'[lane] = "durable" => call[lane] = "durable" /\ txn'[lane] = txn[lane]
  <2>1. lane = c /\ lane # Nobody
    BY <1>5, NobodyAssumption DEF LaneFlushed, LaneCommitted, LaneRejected, CutPending,
       FoldDirect, FoldTail
  <2>2. CASE LaneFlushed(c)
    <3>1. lane' = lane /\ pc[c] = "flushed" /\ result[c] = "ok"
      BY <2>1, <2>2 DEF LaneFlushed, LeaveLane, FlushReturn
    <3>2. call'[c] = "none"
      BY <1>1, <2>2 DEF LaneFlushed, FlushReturn, Return
    <3> QED BY <2>1, <3>1, <3>2 DEF Settled
  <2>3. CASE LaneCommitted(c)
    <3>1. lane' = lane /\ pc[c] = "flushed" /\ result[c] = "ok"
      BY <2>1, <2>3 DEF LaneCommitted, LeaveLane, DurableCommitted
    <3>2. call'[c] = "none"
      BY <1>1, <2>3 DEF LaneCommitted, DurableCommitted, DurableReturn, Return
    <3> QED BY <2>1, <3>1, <3>2 DEF Settled
  <2>4. CASE LaneRejected(c)
    <3>1. lane' = lane /\ laneStep' = laneStep
      BY <2>1, <2>4 DEF LaneRejected, LeaveLane
    <3>2. call'[c] = "none" \/ (call' = call /\ txn' = txn)
      BY <1>1, <2>4 DEF LaneRejected, DurableFailed, DiscardRefused, DurableRollback,
         DurableReturn, Return
    <3> QED BY <2>1, <3>1, <3>2
  <2>5. CASE CutPending(c)
    <3>1. lane' = lane /\ laneStep = "cut" /\ call' = call /\ txn' = txn
      BY <2>1, <2>5 DEF CutPending, LeaveLane, vars, clientVars
    <3> QED BY <2>1, <3>1
  <2>6. ~FoldDirect(c) /\ ~FoldTail(c)
    BY DEF FoldDirect, FoldTail, LeaveLane
  <2> QED BY <1>5, <2>2, <2>3, <2>4, <2>5, <2>6
<1> QED BY <1>1, <1>2, <1>3, <1>4, <1>5, OutsideSteps DEF LaneTurn

(* A flush of the lane that has found everything written leaves it so.     *)
LEMMA FlushedKept ==
    ASSUME IInv, DInv, OwnerInv, ReadInv, [ProjectionNext]_allVars, Ordinary, Ordinary',
           LaneInv, Flushed'
    PROVE  Len(log') = Len(Stream')
<1>1. /\ [Next]_vars /\ GoesOn /\ LaneType
  BY JournalSteps, SessionGoesOn DEF ReadInv
<1>2. lane' # Nobody /\ lane' \in Clients
  <2>1. lane' # Nobody
    BY DEF Flushed
  <2> QED BY <2>1, <1>1, LaneMoves DEF LaneType
<1>3. CASE lane = Nobody
  <2>1. PICK c \in Clients : lane' = c /\ (LaneFlush(c) \/ LaneDurable(c)) /\ laneStep' = "call"
    BY <1>2, <1>3, LaneMoves
  <2>2. pc'[c] = "enter"
    BY <2>1 DEF LaneFlush, LaneDurable, FlushStart, DurableStart, IInv, TypeOK, ClientType
  <2> QED BY <2>1, <2>2 DEF Flushed, Settled
<1>4. CASE lane # Nobody
  <2>1. lane' = lane /\ (laneStep' = "cut" => laneStep = "cut" \/ Settled(lane)) /\ Stream' = Stream
    BY <1>2, <1>4, LaneMoves, LaneBusy
  <2>2. CASE Flushed
    <3>1. Len(log) = Len(Stream)
      BY <2>2 DEF LaneInv
    <3> QED BY <1>1, <2>1, <3>1 DEF GoesOn
  <2>3. CASE ~Flushed
    <3>1. laneStep' # "cut" /\ Settled(lane)' /\ ~Settled(lane)
      BY <1>4, <2>1, <2>3 DEF Flushed, Settled
    <3>2. PICK c \in Clients : c = lane
      BY <1>2, <2>1
    <3>3. Settled(c)' /\ ~Settled(c)
      BY <2>1, <3>1, <3>2 DEF Settled
    <3> QED BY <1>1, <3>3, SettlesWhenDrained
  <2> QED BY <2>2, <2>3
<1> QED BY <1>3, <1>4

(* What a durable append of the lane has admitted is the end of the        *)
(* session.                                                                *)
LEMMA HeldKept ==
    ASSUME IInv, DInv, OwnerInv, ReadInv, [ProjectionNext]_allVars, Ordinary, Ordinary',
           LaneInv, Held'
    PROVE  \A i \in txn'[lane'].start + 1 .. Len(Stream') : Stream'[i].grp = txn'[lane'].grp
<1>1. /\ lane' # Nobody /\ call'[lane'] = "durable" /\ up /\ handle /\ LaneType
      /\ IInv /\ DInv /\ ~closed
  BY DEF Held, Ordinary, ReadInv
<1>2. CASE lane = Nobody
  <2>1. PICK c \in Clients : lane' = c /\ (LaneFlush(c) \/ LaneDurable(c))
    BY <1>1, <1>2, LaneMoves
  <2>2. /\ call \in [Clients -> {"none", "flush", "durable", "close"}]
        /\ txn \in [Clients -> [grp : 0 .. MaxGroups, start : Nat, end : Nat]]
        /\ ClientControl
    BY DEF IInv, TypeOK, ClientType, ControlInv
  <2>3. ~LaneFlush(c)
    BY <1>1, <2>1, <2>2 DEF LaneFlush, FlushStart
  <2>4. DurableStart(c)
    BY <2>1, <2>3 DEF LaneDurable
  <2>5. PICK n \in 1 .. MaxGroupSize :
          /\ EnqueueGroup(NextGroup, n)
          /\ txn' = [txn EXCEPT ![c] = [grp |-> NextGroup, start |-> nextSeq,
                                        end |-> nextSeq + n - 1]]
    BY <2>4 DEF DurableStart
  <2>6. UNCHANGED <<log, workerVars>> /\ transaction = Nobody /\ NextGroup \in Groups
    BY <2>4 DEF DurableStart, diskVars
  <2>7. PICK g \in Groups : g = NextGroup
    BY <2>6
  <2>8. g \in 0 .. MaxGroups + 1
    BY BoundsAssumption DEF Groups
  <2>9. PICK e : e = GroupEvents(g, nextSeq, n)
    OBVIOUS
  <2>10. \A i \in Len(Stream) + 1 .. Len(Stream') : Stream'[i].grp = g
    BY <1>1, <2>5, <2>6, <2>7, <2>8, <2>9, GroupGoesOn
  <2>11. \A d \in Clients : pc[d] # "rollback"
    BY <2>2, <2>6, NobodyAssumption DEF ClientControl
  <2>12. nextSeq = Len(Stream)
    BY <1>1, <2>11, StreamFacts
  <2>13. txn'[c].start = nextSeq /\ txn'[c].grp = g
    BY <2>2, <2>5, <2>7
  <2> QED BY <2>1, <2>10, <2>12, <2>13
<1>3. CASE lane # Nobody
  <2>1. /\ lane' = lane /\ call[lane] = "durable" /\ txn'[lane] = txn[lane] /\ Stream' = Stream
    BY <1>1, <1>3, LaneMoves, LaneBusy
  <2>2. Held
    BY <1>3, <2>1 DEF Held
  <2> QED BY <2>1, <2>2 DEF LaneInv
<1> QED BY <1>2, <1>3

(* What has been reported stays durable and folded, or stale.              *)
LEMMA ReportedStays ==
    ASSUME GoesOn, ViewsGoOn, NEW lo \in 0 .. Len(Stream), Reported(lo),
           stale' = stale \/ Len(log) <= Len(folded')
    PROVE  Reported(lo)'
<1>1. /\ Len(Stream) \in Nat /\ Len(log) \in Nat /\ Len(log') \in Nat
      /\ Len(log) <= Len(log') /\ \A i \in 1 .. Len(Stream) : Stream'[i] = Stream[i]
      /\ Len(folded) \in Nat /\ Len(folded') \in Nat /\ Len(folded) <= Len(folded')
  BY DEF GoesOn, ViewsGoOn, Lies
<1>2. ASSUME NEW i \in 1 .. lo, Stream'[i].grp \in Groups
      PROVE  i <= Len(log') /\ (stale' \/ i <= Len(folded'))
  <2>1. i \in 1 .. Len(Stream)
    BY <1>1
  <2>2. i <= Len(log) /\ (stale \/ i <= Len(folded))
    BY <1>1, <1>2, <2>1 DEF Reported
  <2>3. i <= Len(log')
    BY <1>1, <2>1, <2>2
  <2>4. CASE stale' = stale
    BY <1>1, <2>1, <2>2, <2>3, <2>4
  <2>5. CASE Len(log) <= Len(folded')
    BY <1>1, <2>1, <2>2, <2>3, <2>5
  <2> QED BY <2>4, <2>5
<1> QED BY <1>2 DEF Reported

(* A lane whose copies nobody touches.                                     *)
LEMMA LaneStays ==
    ASSUME GoesOn, ViewsGoOn, LaneType, NEW lo \in 0 .. Len(Stream), LaneAt(lo),
           UNCHANGED <<copies, taken>>, laneStep' = "direct" => laneStep = "direct",
           End' = End, stale' = stale \/ Len(log) <= Len(folded')
    PROVE  \E k \in 0 .. Len(Stream') : LaneAt(k)'
<1>1. /\ Len(Stream) \in Nat /\ Len(log) \in Nat /\ Len(log') \in Nat
      /\ Len(log) <= Len(log') /\ Len(Stream') \in Nat /\ Len(Stream) <= Len(Stream')
      /\ Len(folded) \in Nat /\ Len(folded') \in Nat /\ Len(folded) <= Len(folded')
      /\ Lies(Stream, 0, Stream')
      /\ copies \in Seq(Event) /\ taken \in Seq(Event) /\ Len(taken) \in Nat
      /\ lo \in Nat /\ lo + Len(taken) \in Nat /\ copies' = copies /\ taken' = taken
  BY LenProperties DEF GoesOn, ViewsGoOn, LaneType
<1>2. Lies(taken, lo, Stream) /\ Lies(copies, lo + Len(taken), Stream)
  BY DEF LaneAt
<1>3. Lies(taken, lo, Stream') /\ Lies(copies, lo + Len(taken), Stream')
  BY <1>1, <1>2, LiesOn
<1>4. Reported(lo)'
  BY ReportedStays DEF LaneAt
<1>5. /\ lo + Len(taken) + Len(copies) = End'
      /\ taken # <<>> => lo + Len(taken) <= Len(log')
      /\ laneStep' = "direct" => lo <= Len(folded')
  BY <1>1 DEF LaneAt
<1>6. LaneAt(lo)'
  BY <1>1, <1>3, <1>4, <1>5 DEF LaneAt
<1>7. lo \in 0 .. Len(Stream')
  BY <1>1
<1> QED BY <1>6, <1>7

(* Copies that are put behind the others reach as far as the session.      *)
LEMMA CopiesGrow ==
    ASSUME GoesOn, ViewsGoOn, LaneType, NEW lo \in 0 .. Len(Stream), LaneAt(lo),
           NEW e \in Seq(Event), Lies(e, End, Stream'), End \in Nat, End' = End + Len(e),
           copies' = copies \o e, taken' = taken, laneStep' # "direct", stale' = stale
    PROVE  \E k \in 0 .. Len(Stream') : LaneAt(k)'
<1>1. /\ Len(Stream) \in Nat /\ Len(log) \in Nat /\ Len(log') \in Nat
      /\ Len(log) <= Len(log') /\ Len(Stream') \in Nat /\ Len(Stream) <= Len(Stream')
      /\ Lies(Stream, 0, Stream') /\ Stream' \in Seq(Event)
      /\ copies \in Seq(Event) /\ taken \in Seq(Event) /\ Len(taken) \in Nat
      /\ Len(copies) \in Nat /\ Len(e) \in Nat
      /\ lo \in Nat /\ lo + Len(taken) \in Nat
  BY LenProperties DEF GoesOn, LaneType
<1>2. /\ Lies(taken, lo, Stream) /\ Lies(copies, lo + Len(taken), Stream)
      /\ lo + Len(taken) + Len(copies) = End
  BY DEF LaneAt
<1>3. Lies(taken, lo, Stream') /\ Lies(copies, lo + Len(taken), Stream')
  BY <1>1, <1>2, LiesOn
<1>4. Reported(lo)'
  BY ReportedStays DEF LaneAt
<1>5. PICK b \in Nat : b = lo + Len(taken)
  BY <1>1
<1>6. PICK cs \in Seq(Event) : cs = copies
  BY <1>1
<1>7. Lies(e, b + Len(cs), Stream') /\ Lies(cs, b, Stream')
  BY <1>2, <1>3, <1>5, <1>6
<1>8. Lies(cs \o e, b, Stream') /\ Len(cs \o e) = Len(cs) + Len(e)
  BY <1>1, <1>7, LiesBehind
<1>9. Lies(taken', lo, Stream') /\ Lies(copies', lo + Len(taken'), Stream')
  BY <1>3, <1>5, <1>6, <1>8
<1>10. /\ lo + Len(taken') + Len(copies') = End'
       /\ taken' # <<>> => lo + Len(taken') <= Len(log')
  <2>1. Len(copies') = Len(copies) + Len(e)
    BY <1>6, <1>8
  <2>2. lo + Len(taken) + (Len(copies) + Len(e)) = End + Len(e)
    <3>1. PICK m \in Nat, p \in Nat, q \in Nat, r \in Nat :
            m = lo /\ p = Len(taken) /\ q = Len(copies) /\ r = Len(e)
      BY <1>1
    <3>2. m + p + q = End
      BY <1>2, <3>1
    <3>3. m + p + (q + r) = (m + p + q) + r
      OBVIOUS
    <3> QED BY <3>1, <3>2, <3>3
  <2>3. taken # <<>> => lo + Len(taken) <= Len(log)
    BY DEF LaneAt
  <2> QED BY <1>1, <2>1, <2>2, <2>3
<1>11. LaneAt(lo)'
  BY <1>4, <1>9, <1>10 DEF LaneAt
<1>12. lo \in 0 .. Len(Stream')
  BY <1>1
<1> QED BY <1>11, <1>12

(* Nobody is in the middle of taking a durable append back.                *)
LEMMA NothingTakenBack ==
    ASSUME IInv, ReadInv, lane = Nobody \/ pc[lane] # "rollback"
    PROVE  \A c \in Clients : pc[c] # "rollback"
<1>1. \A c \in Clients : pc[c] = "rollback" => lane = c
  BY DEF IInv, ControlInv, ClientControl, ReadInv, CallInv
<1> QED BY <1>1, NobodyAssumption

(* The copies of a group that has just been admitted.                      *)
LEMMA AppendCopied ==
    ASSUME IInv, DInv, OwnerInv, ReadInv, [ProjectionNext]_allVars, Ordinary, Ordinary',
           Faithful, NEW c \in Clients, LaneAppend(c)
    PROVE  \E k \in 0 .. Len(Stream') : LaneAt(k)'
<1>1. /\ up /\ handle /\ LaneType /\ ViewsGoOn /\ GoesOn /\ IInv /\ DInv /\ ~closed
      /\ LaneInv
  BY ViewsKept, SessionGoesOn DEF Ordinary, ReadInv, Faithful
<1>2. PICK n \in 1 .. MaxGroupSize, e \in Seq(Event) :
         /\ e = GroupEvents(NextGroup, nextSeq, n) /\ Len(e) = n
         /\ NextGroup \in Groups /\ EnqueueGroup(NextGroup, n)
         /\ copies' = copies \o e
  BY LaneAppendShape
<1>3. PICK g \in Groups : g = NextGroup
  BY <1>2
<1>4. g \in 0 .. MaxGroups + 1
  BY BoundsAssumption DEF Groups
<1>5. /\ UNCHANGED <<log, workerVars>> /\ lane = Nobody
      /\ lane' = lane /\ laneStep' = laneStep /\ taken' = taken /\ stale' = stale
  BY DEF LaneAppend, AppendAtomic, diskVars, viewVars
<1>6. Lies(e, Len(Stream), Stream') /\ Len(Stream') = Len(Stream) + n
  BY <1>1, <1>2, <1>3, <1>4, <1>5, GroupGoesOn
<1>7. End = Len(Stream) /\ End' = Len(Stream') /\ End \in Nat /\ End' = End + Len(e)
  BY <1>1, <1>2, <1>5, <1>6 DEF End, Held, GoesOn
<1>8. Lies(e, End, Stream') /\ laneStep' # "direct"
  BY <1>1, <1>5, <1>6, <1>7 DEF LaneType
<1>9. PICK lo \in 0 .. Len(Stream) : LaneAt(lo)
  BY <1>1 DEF LaneInv
<1> QED BY <1>1, <1>2, <1>5, <1>7, <1>8, <1>9, CopiesGrow

(* An event is its seq and its group.                                      *)
LEMMA SameEvent ==
    ASSUME NEW d \in Event, NEW e \in Event, d.seq = e.seq, d.grp = e.grp
    PROVE  d = e
BY DEF Event

(* A run of the events of a group, where the session has that group.       *)
LEMMA RunLies ==
    ASSUME NEW S \in Seq(Event), Dense(S), NEW a \in Nat, NEW n \in Nat, a + n = Len(S),
           NEW g \in 0 .. MaxGroups + 1, \A i \in a + 1 .. Len(S) : S[i].grp = g,
           NEW e, e = GroupEvents(g, a, n)
    PROVE  Lies(e, a, S)
<1>1. e \in Seq(Event) /\ Len(e) = n
  BY GroupEventsGroup
<1>2. \A i \in 1 .. n : e[i].grp = g /\ e[i].seq = a + i - 1
  BY DEF GroupEvents
<1>3. \A i \in 1 .. n : e[i] \in Event
  <2>1. \A i \in 1 .. Len(e) : e[i] \in Event
    BY <1>1, ElementOfSeq, LenProperties
  <2> QED BY <1>1, <2>1
<1>4. ASSUME NEW i \in 1 .. n PROVE e[i] = S[a + i]
  <2>1. PICK j \in Nat : j = a + i
    OBVIOUS
  <2>2. j \in a + 1 .. Len(S) /\ j \in 1 .. Len(S) /\ j \in DOMAIN S
    BY <2>1, LenProperties
  <2>3. S[j].grp = g /\ S[j].seq = j - 1 /\ S[j] \in Event
    BY <2>2, ElementOfSeq DEF Dense
  <2>4. e[i].grp = S[j].grp /\ e[i].seq = S[j].seq /\ e[i] \in Event
    BY <1>2, <1>3, <2>1, <2>3
  <2>5. e[i] = S[j]
    BY <2>3, <2>4, SameEvent
  <2> QED BY <2>1, <2>5
<1> QED BY <1>1, <1>4 DEF Lies

(* The copies of a durable append that has been decided: the session ends  *)
(* with them, as nothing is admitted behind them.                          *)
LEMMA CommitCopied ==
    ASSUME IInv, DInv, OwnerInv, ReadInv, [ProjectionNext]_allVars, Ordinary, Ordinary',
           Faithful, NEW c \in Clients, LaneCommitted(c)
    PROVE  \E k \in 0 .. Len(Stream') : LaneAt(k)'
<1>1. /\ up /\ handle /\ LaneType /\ ViewsGoOn /\ GoesOn /\ IInv /\ DInv /\ ~closed
      /\ LaneInv /\ ~fatal /\ Dense(Stream) /\ ReadInv
  BY ViewsKept, SessionGoesOn, StreamFacts DEF Ordinary, ReadInv, Faithful
<1>2. PICK n \in Nat, e \in Seq(Event) :
         /\ e = GroupEvents(txn[c].grp, txn[c].start, n) /\ Len(e) = n
         /\ copies' = copies \o e /\ txn[c].start + n = nextSeq
  BY <1>1, LaneCommittedShape
<1>3. /\ lane = c /\ call[c] = "durable" /\ pc[c] = "flushed" /\ lane # Nobody
      /\ laneStep' = "cut" /\ lane' = lane /\ taken' = taken
  BY <1>1, LaneCommittedShape, NobodyAssumption
<1>4. Held /\ ~Held'
  <2>1. call' = [call EXCEPT ![c] = "none"]
    BY DEF LaneCommitted, DurableCommitted, DurableReturn, Return
  <2>2. call'[c] = "none"
    BY <2>1 DEF IInv, TypeOK, ClientType
  <2> QED BY <1>3, <2>2 DEF Held
<1>5. Stream' = Stream /\ stale' = stale
  BY <1>1, <1>3, LaneBusy DEF LaneCommitted, viewVars
<1>6. nextSeq = Len(Stream)
  BY <1>1, <1>3, NothingTakenBack, StreamFacts
<1>7. txn[c].start \in Nat /\ Len(Stream) \in Nat
  BY <1>1, BoundShape DEF GoesOn
<1>8. PICK a, g : a = txn[c].start /\ g = txn[c].grp /\ a \in Nat
  BY <1>7
<1>9. a + n = Len(Stream) /\ \A i \in a + 1 .. Len(Stream) : Stream[i].grp = g
  BY <1>1, <1>2, <1>3, <1>4, <1>6, <1>8 DEF LaneInv
<1>10. g \in 0 .. MaxGroups + 1
  BY <1>1, <1>3, <1>8, BoundsAssumption DEF IInv, ControlInv, ClientControl, Groups
<1>11. e = GroupEvents(g, a, n)
  BY <1>2, <1>8
<1>12. Lies(e, a, Stream)
  BY <1>1, <1>8, <1>9, <1>10, <1>11, RunLies DEF Dense
<1>13. End = a /\ End' = Len(Stream) /\ End' = End + Len(e) /\ End \in Nat
  BY <1>2, <1>3, <1>4, <1>5, <1>8, <1>9 DEF End
<1>14. Lies(e, End, Stream')
  BY <1>5, <1>12, <1>13
<1>15. PICK lo \in 0 .. Len(Stream) : LaneAt(lo)
  BY <1>1 DEF LaneInv
<1> QED BY <1>1, <1>2, <1>3, <1>5, <1>13, <1>14, <1>15, CopiesGrow

(* A refresh takes out what comes first of the copies.                     *)
LEMMA CutTaken ==
    ASSUME IInv, DInv, OwnerInv, ReadInv, [ProjectionNext]_allVars, Ordinary, Ordinary',
           Faithful, NEW c \in Clients, CutPending(c)
    PROVE  \E k \in 0 .. Len(Stream') : LaneAt(k)'
<1>1. /\ up /\ handle /\ LaneType /\ ViewsGoOn /\ GoesOn /\ IInv /\ DInv
      /\ LaneInv /\ Dense(Stream) /\ CallInv /\ AscInv /\ ViewInv /\ ViewType
  BY ViewsKept, SessionGoesOn, StreamFacts DEF Ordinary, ReadInv, Faithful
<1>2. /\ lane = c /\ lane # Nobody /\ laneStep = "cut" /\ UNCHANGED vars
      /\ UNCHANGED <<folded, stale>>
  BY NobodyAssumption DEF CutPending, viewVars
<1>3. Stream' = Stream /\ log' = log /\ call' = call
  BY <1>2 DEF Stream, Queue, InFlight, vars, diskVars, queueVars, workerVars, clientVars
<1>4. pc[c] = "idle" /\ call[c] = "none"
  BY <1>1, <1>2 DEF CallInv, IInv, ControlInv, ClientControl
<1>5. ~Held /\ ~Held' /\ Flushed
  <2>1. lane' \in {Nobody, c}
    BY <1>2 DEF CutPending, LeaveLane
  <2> QED BY <1>2, <1>3, <1>4, <2>1 DEF Held, Flushed
<1>6. End = Len(Stream) /\ End' = End /\ Len(log) = Len(Stream)
  BY <1>1, <1>3, <1>5 DEF End, LaneInv
<1>7. PICK lo \in 0 .. Len(Stream) : LaneAt(lo)
  BY <1>1 DEF LaneInv
<1>8. taken = <<>> /\ copies \in Seq(Event) /\ Len(taken) = 0
  BY <1>1, <1>2, EmptySeq DEF LaneType
<1>9. CASE Due = <<>>
  <2>1. UNCHANGED <<copies, taken>> /\ laneStep' # "direct"
    BY <1>8, <1>9 DEF CutPending, LeaveLane
  <2> QED BY <1>1, <1>2, <1>6, <1>7, <2>1, LaneStays
<1>10. CASE Due # <<>>
  <2>1. PICK k \in 0 .. Len(copies) : Due = SubSeq(copies, 1, k) /\ Len(Due) = k
    <3>1. cursor \in Nat /\ Ascending(copies)
      BY <1>1 DEF AscInv, IInv, TypeOK, CoreType
    <3> QED BY <1>8, <3>1, DueShape
  <2>2. /\ taken' = Due /\ copies' = SubSeq(copies, k + 1, Len(copies))
        /\ laneStep' = "direct" => Contiguity(Due)
    BY <1>10, <2>1 DEF CutPending
  <2>3. PICK cs, d, r :
          cs \in Seq(Event) /\ cs = copies /\ d = SubSeq(cs, 1, k) /\ r = SubSeq(cs, k + 1, Len(cs))
    BY <1>8
  <2>4. /\ Lies(cs, lo, Stream) /\ lo + Len(cs) = Len(Stream) /\ k \in 0 .. Len(cs)
        /\ lo \in Nat /\ Len(cs) \in Nat
    <3>1. Lies(copies, lo + 0, Stream) /\ lo + 0 + Len(copies) = Len(Stream)
      BY <1>6, <1>7, <1>8 DEF LaneAt
    <3>2. lo + 0 = lo
      BY <1>7
    <3> QED BY <1>7, <2>1, <2>3, <3>1, <3>2, LenProperties
  <2>5. /\ d \in Seq(Event) /\ Len(d) = k /\ \A i \in 1 .. k : d[i] = cs[i]
        /\ r \in Seq(Event) /\ Len(r) = Len(cs) - k
        /\ \A i \in 1 .. Len(cs) - k : r[i] = cs[k + i]
    <3>1. cs \in Seq(Event)
      BY <2>3
    <3> QED BY <2>3, <2>4, <3>1, Cut, Split
  <2>6. Lies(d, lo, Stream) /\ Lies(r, lo + k, Stream)
    <3>1. lo + Len(d) <= Len(Stream) /\ lo + k + Len(r) <= Len(Stream)
      BY <2>4, <2>5
    <3>2. ASSUME NEW i \in 1 .. k PROVE d[i] = Stream[lo + i]
      <4>1. i \in 1 .. Len(cs)
        BY <2>4
      <4> QED BY <2>4, <2>5, <4>1 DEF Lies
    <3>3. ASSUME NEW i \in 1 .. Len(cs) - k PROVE r[i] = Stream[lo + k + i]
      <4>1. PICK j \in Nat : j = k + i
        BY <2>4
      <4>2. j \in 1 .. Len(cs) /\ lo + j = lo + k + i
        BY <2>4, <4>1
      <4> QED BY <2>4, <2>5, <4>1, <4>2 DEF Lies
    <3> QED BY <2>5, <3>1, <3>2, <3>3 DEF Lies
  <2>7. taken' = d /\ copies' = r
    BY <2>1, <2>2, <2>3
  <2>8. laneStep' = "direct" => lo = Len(folded)
    <3>1. ASSUME Contiguity(Due) PROVE lo = Len(folded)
      <4>1. Due = d /\ d # <<>> /\ k \in Nat /\ k # 0
        <5>1. Due = d /\ d # <<>>
          BY <1>10, <2>1, <2>3
        <5> QED BY <2>4, <2>5, <5>1, EmptySeq
      <4>2. d[1] = Stream[lo + 1] /\ lo + 1 \in 1 .. Len(Stream)
        <5>1. 1 \in 1 .. Len(d) /\ lo + Len(d) <= Len(Stream)
          BY <2>5, <2>6, <4>1 DEF Lies
        <5> QED BY <2>4, <2>5, <2>6, <4>1, <5>1 DEF Lies
      <4>3. Stream[lo + 1].seq = lo
        <5>1. DOMAIN Stream = 1 .. Len(Stream)
          BY <1>1, LenProperties DEF Dense
        <5>2. Stream[lo + 1].seq = lo + 1 - 1
          BY <1>1, <4>2, <5>1 DEF Dense
        <5> QED BY <2>4, <5>2
      <4>4. Floor = Len(folded)
        BY <1>1, FloorIsCount DEF ViewInv, ViewType, GoesOn
      <4> QED BY <3>1, <4>1, <4>2, <4>3, <4>4 DEF Contiguity
    <3> QED BY <2>2, <3>1
  <2>9. Reported(lo)'
    BY <1>1, <1>2, <1>7, ReportedStays DEF LaneAt
  <2>10. /\ lo + Len(taken') + Len(copies') = End' /\ lo + Len(taken') <= Len(log')
         /\ Lies(taken', lo, Stream') /\ Lies(copies', lo + Len(taken'), Stream')
    <3>1. lo + k + Len(r) = Len(Stream) /\ lo + k <= Len(Stream)
      <4>1. PICK a \in Nat, b \in Nat : a = lo /\ b = Len(cs)
        BY <2>4
      <4>2. a + b = Len(Stream) /\ Len(r) = b - k /\ k \in 0 .. b
        BY <2>4, <2>5, <4>1
      <4>3. a + k + (b - k) = a + b /\ a + k <= a + b
        BY <4>2
      <4> QED BY <4>1, <4>2, <4>3
    <3> QED BY <1>3, <1>6, <2>5, <2>6, <2>7, <3>1
  <2>11. laneStep' = "direct" => lo <= Len(folded')
    BY <1>2, <2>4, <2>8
  <2>12. LaneAt(lo)'
    BY <2>9, <2>10, <2>11 DEF LaneAt
  <2> QED BY <1>3, <1>7, <2>12
<1> QED BY <1>9, <1>10

(* What a refresh has folded has left the lane.                            *)
LEMMA FoldReported ==
    ASSUME IInv, DInv, OwnerInv, ReadInv, [ProjectionNext]_allVars, Ordinary, Ordinary',
           Faithful, NEW c \in Clients, FoldDirect(c) \/ FoldTail(c)
    PROVE  \E k \in 0 .. Len(Stream') : LaneAt(k)'
<1>1. /\ up /\ handle /\ LaneType /\ ViewsGoOn /\ GoesOn /\ IInv /\ DInv
      /\ LaneInv /\ CallInv /\ ViewInv /\ ViewType
  BY ViewsKept, SessionGoesOn DEF Ordinary, ReadInv, Faithful
<1>2. /\ lane = c /\ lane # Nobody /\ laneStep \in {"direct", "tail"} /\ UNCHANGED vars
      /\ lane' = Nobody /\ laneStep' = "call" /\ taken' = <<>> /\ copies' = copies
  BY NobodyAssumption DEF FoldDirect, FoldTail, LeaveLane
<1>3. Stream' = Stream /\ log' = log
  BY <1>2 DEF Stream, Queue, InFlight, vars, diskVars, queueVars, workerVars
<1>4. pc[c] = "idle" /\ call[c] = "none"
  BY <1>1, <1>2 DEF CallInv, IInv, ControlInv, ClientControl
<1>5. End = Len(Stream) /\ End' = End
  BY <1>2, <1>3, <1>4 DEF Held, End
<1>6. PICK lo \in 0 .. Len(Stream) : LaneAt(lo)
  BY <1>1 DEF LaneInv
<1>7. /\ taken # <<>> /\ copies \in Seq(Event) /\ taken \in Seq(Event)
      /\ Len(copies) \in Nat /\ Len(taken) \in Nat /\ Len(<<>>) = 0 /\ Len(taken') = 0
  BY <1>1, <1>2, EmptySeq, LenProperties DEF LaneType
<1>8. /\ Len(Stream) \in Nat /\ Len(log) \in Nat /\ Len(log) <= Len(Stream)
      /\ Len(folded) \in Nat /\ Len(folded') \in Nat /\ Len(folded) <= Len(folded')
  BY <1>1, <1>3 DEF GoesOn, ViewsGoOn
<1>9. \/ stale' = TRUE
      \/ stale' = FALSE /\ lo + Len(taken) <= Len(folded')
  BY <1>1, <1>6, <1>7, LaneFolds
<1>10. PICK k \in Nat : k = lo + Len(taken)
  BY <1>6, <1>7
<1>11. /\ k <= Len(log) /\ Lies(copies, k, Stream) /\ k + Len(copies) = Len(Stream)
       /\ Reported(lo)
  BY <1>5, <1>6, <1>7, <1>10 DEF LaneAt
<1>12. Reported(k)'
  <2>1. ASSUME NEW i \in 1 .. k
        PROVE  i <= Len(log') /\ (stale' \/ i <= Len(folded'))
    BY <1>3, <1>8, <1>9, <1>10, <1>11
  <2> QED BY <2>1 DEF Reported
<1>13. /\ Lies(taken', k, Stream') /\ Lies(copies', k + Len(taken'), Stream')
       /\ k + Len(taken') + Len(copies') = End'
  <2>1. k + 0 = k /\ k <= Len(Stream)
    BY <1>8, <1>11
  <2>2. Lies(<<>>, k, Stream)
    BY <1>7, <2>1 DEF Lies
  <2> QED BY <1>2, <1>3, <1>5, <1>7, <1>11, <2>1, <2>2
<1>14. LaneAt(k)'
  BY <1>2, <1>12, <1>13 DEF LaneAt
<1>15. k \in 0 .. Len(Stream')
  BY <1>3, <1>8, <1>11
<1> QED BY <1>14, <1>15

(* A call of the lane that begins, or returns without a copy.              *)
LEMMA CallCopiesNothing ==
    ASSUME IInv, DInv, OwnerInv, ReadInv, [ProjectionNext]_allVars, Ordinary, Ordinary',
           Faithful, NEW c \in Clients,
           LaneFlush(c) \/ LaneDurable(c) \/ LaneFlushed(c) \/ LaneRejected(c)
    PROVE  \E k \in 0 .. Len(Stream') : LaneAt(k)'
<1>1. /\ up /\ handle /\ LaneType /\ ViewsGoOn /\ GoesOn /\ IInv /\ DInv /\ ~closed
      /\ LaneInv /\ CallInv /\ ~fatal /\ rejected' = {} /\ ReadInv
      /\ call \in [Clients -> {"none", "flush", "durable", "close"}]
      /\ txn \in [Clients -> [grp : 0 .. MaxGroups, start : Nat, end : Nat]]
      /\ pc \in [Clients -> {"idle", "enter", "waiting", "flushed", "discard", "rollback"}]
      /\ ClientControl /\ c # Nobody
  BY ViewsKept, SessionGoesOn, StreamFacts, NobodyAssumption
     DEF Ordinary, ReadInv, Faithful, IInv, TypeOK, ClientType, ControlInv
<1>2. PICK lo \in 0 .. Len(Stream) : LaneAt(lo)
  BY <1>1 DEF LaneInv
<1>3. copies' = copies /\ stale' = stale
  BY DEF LaneFlush, LaneDurable, LaneFlushed, LaneRejected, viewVars
<1>4. CASE LaneFlush(c)
  <2>1. /\ lane = Nobody /\ lane' = c /\ UNCHANGED <<laneStep, taken, nextSeq>>
        /\ call' = [call EXCEPT ![c] = "flush"]
    BY <1>4 DEF LaneFlush, TakeLane, FlushStart, coreVars
  <2>2. ~Held /\ ~Held' /\ Stream' = Stream
    BY <1>1, <2>1, SessionGoesOn DEF Held
  <2>3. End' = End
    BY <2>2 DEF End
  <2> QED BY <1>1, <1>2, <1>3, <2>1, <2>3, LaneStays
<1>5. CASE LaneDurable(c)
  <2>1. /\ lane = Nobody /\ lane' = c /\ UNCHANGED <<laneStep, taken>>
        /\ call' = [call EXCEPT ![c] = "durable"]
    BY <1>5 DEF LaneDurable, TakeLane, DurableStart
  <2>2. ~Held /\ Held'
    BY <1>1, <2>1 DEF Held
  <2>3. nextSeq = Len(Stream)
    BY <1>1, <2>1, NothingTakenBack, StreamFacts
  <2>4. txn'[c].start = nextSeq
    <3>1. PICK n \in 1 .. MaxGroupSize :
            txn' = [txn EXCEPT ![c] = [grp |-> NextGroup, start |-> nextSeq,
                                       end |-> nextSeq + n - 1]]
      BY <1>5 DEF LaneDurable, DurableStart
    <3> QED BY <1>1, <3>1
  <2>5. End' = End
    BY <2>1, <2>2, <2>3, <2>4 DEF End
  <2> QED BY <1>1, <1>2, <1>3, <2>1, <2>5, LaneStays
<1>6. CASE LaneFlushed(c)
  <2>1. /\ lane = c /\ pc[c] = "flushed" /\ call[c] = "flush"
        /\ call' = [call EXCEPT ![c] = "none"]
    BY <1>6 DEF LaneFlushed, FlushReturn, Return
  <2>2. laneStep = "call"
    BY <1>1, <2>1 DEF CallInv
  <2>3. taken = <<>> /\ taken' = taken /\ laneStep' # "direct" /\ lane' \in {Nobody, c}
    BY <1>1, <1>6, <2>1, <2>2 DEF LaneFlushed, LeaveLane, LaneType
  <2>4. ~Held /\ ~Held' /\ Stream' = Stream
    BY <1>1, <2>1, <2>3, LaneBusy DEF Held
  <2>5. End' = End
    BY <2>4 DEF End
  <2> QED BY <1>1, <1>2, <1>3, <2>3, <2>5, LaneStays
<1>7. CASE LaneRejected(c)
  <2>1. lane = c /\ ~DiscardRefused(c) /\ ~DurableRollback(c) /\ DurableFailed(c)
    BY <1>1, <1>7 DEF LaneRejected, DiscardRefused, DurableRollback
  <2>2. pc' = [pc EXCEPT ![c] = "discard"] /\ call' = call /\ txn' = txn
    BY <1>1, <2>1 DEF DurableFailed
  <2>3. pc'[c] = "discard"
    BY <1>1, <2>2
  <2>4. UNCHANGED <<lane, laneStep, taken>>
    BY <1>7, <2>3 DEF LaneRejected
  <2>5. Stream' = Stream
    BY <1>1, <2>1, LaneBusy
  <2>6. End' = End
    BY <2>2, <2>4, <2>5 DEF End, Held
  <2> QED BY <1>1, <1>2, <1>3, <2>4, <2>6, LaneStays
<1> QED BY <1>4, <1>5, <1>6, <1>7

(* A step beside the lane.                                                 *)
LEMMA OutsideCopiesNothing ==
    ASSUME IInv, DInv, OwnerInv, ReadInv, [ProjectionNext]_allVars, Ordinary, Ordinary',
           Faithful, Outside
    PROVE  \E k \in 0 .. Len(Stream') : LaneAt(k)'
<1>1. /\ up /\ handle /\ LaneType /\ ViewsGoOn /\ GoesOn /\ IInv /\ DInv
      /\ LaneInv /\ CallInv /\ SeedInv
      /\ UNCHANGED <<lane, laneStep, copies, taken>>
  BY ViewsKept, SessionGoesOn DEF Ordinary, ReadInv, Faithful, Outside, laneVars
<1>2. stale' = stale \/ Len(log) <= Len(folded')
  <2>1. \A c \in Clients : ~FoldDirect(c) /\ ~FoldTail(c)
    BY <1>1, NobodyAssumption DEF FoldDirect, FoldTail, LeaveLane
  <2> QED BY <2>1, ViewsKept DEF Faithful
<1>3. PICK lo \in 0 .. Len(Stream) : LaneAt(lo)
  BY <1>1 DEF LaneInv
<1>4. CASE nextSeq' = nextSeq
  <2>1. Stream' = Stream
    BY <1>4, SessionGoesOn
  <2>2. lane # Nobody => call'[lane] = call[lane] /\ txn'[lane] = txn[lane]
    BY DEF Outside
  <2>3. End' = End
    BY <1>1, <2>1, <2>2 DEF End, Held
  <2> QED BY <1>1, <1>2, <1>3, <2>3, LaneStays
<1>5. CASE EnqueueSeed
  <2>1. EnqueueGroup(Seed, 1) /\ seedDue /\ UNCHANGED <<log, workerVars>>
    BY <1>5 DEF EnqueueSeed, diskVars
  <2>2. lane = Nobody /\ copies = <<>> /\ taken = <<>> /\ laneStep = "call"
    BY <1>1, <2>1 DEF CallInv, SeedInv, LaneType
  <2>3. Seed \in 0 .. MaxGroups + 1 /\ 1 \in 1 .. MaxGroupSize /\ Seed \notin Groups
    BY BoundsAssumption DEF Seed, Groups
  <2>4. PICK e : e = GroupEvents(Seed, nextSeq, 1)
    OBVIOUS
  <2>5. /\ \A i \in Len(Stream) + 1 .. Len(Stream') : Stream'[i].grp = Seed
    BY <1>1, <2>1, <2>3, <2>4, GroupGoesOn
  <2>6. ~Held /\ ~Held' /\ Len(<<>>) = 0
    BY <1>1, <2>2, EmptySeq DEF Held
  <2>7. PICK m \in Nat, n \in Nat : m = Len(Stream) /\ n = Len(Stream')
    BY <1>1 DEF GoesOn
  <2>8. lo = m
    <3>1. lo + 0 + 0 = m
      BY <1>3, <2>2, <2>6, <2>7 DEF LaneAt, End
    <3> QED BY <1>3, <2>7, <3>1
  <2>9. Reported(m)'
    BY <1>1, <1>2, <1>3, <2>8, ReportedStays DEF LaneAt
  <2>10. Reported(n)'
    <3>1. ASSUME NEW i \in 1 .. n, Stream'[i].grp \in Groups
          PROVE  i <= Len(log') /\ (stale' \/ i <= Len(folded'))
      <4>1. i \notin m + 1 .. n
        BY <2>3, <2>5, <2>7, <3>1
      <4>2. i \in 1 .. m
        BY <4>1
      <4> QED BY <2>9, <3>1, <4>2 DEF Reported
    <3> QED BY <3>1 DEF Reported
  <2>11. Lies(<<>>, n, Stream')
    BY <2>6, <2>7 DEF Lies
  <2>12. End' = n
    BY <2>6, <2>7 DEF End
  <2>13. LaneAt(n)'
    <3>1. n + 0 = n
      OBVIOUS
    <3>2. copies' = <<>> /\ taken' = <<>> /\ laneStep' = "call"
      BY <1>1, <2>2
    <3>3. /\ Lies(taken', n, Stream') /\ Lies(copies', n + Len(taken'), Stream')
          /\ n + Len(taken') + Len(copies') = End'
      BY <2>6, <2>11, <2>12, <3>1, <3>2
    <3> QED BY <2>10, <3>2, <3>3 DEF LaneAt
  <2>14. n \in 0 .. Len(Stream')
    BY <2>7
  <2> QED BY <2>13, <2>14
<1> QED BY <1>4, <1>5 DEF Outside

(* Behind what is folded the lane has the rest of the session, and loses   *)
(* none of it.                                                             *)
LEMMA LanesKept ==
    ASSUME IInv, DInv, OwnerInv, ReadInv, [ProjectionNext]_allVars, Ordinary, Ordinary',
           Faithful
    PROVE  LaneInv'
<1>1. LaneType /\ CallInv /\ LaneInv /\ up /\ up' /\ ~fatal
  BY StreamFacts DEF ReadInv, Faithful, Ordinary
<1>2. \E k \in 0 .. Len(Stream') : LaneAt(k)'
  <2>1. ASSUME NEW c \in Clients, LaneTurn(c) PROVE \E k \in 0 .. Len(Stream') : LaneAt(k)'
    BY <2>1, AppendCopied, CommitCopied, CutTaken, FoldReported, CallCopiesNothing, Zenon
       DEF LaneTurn
  <2>2. CASE Outside
    BY <2>2, OutsideCopiesNothing
  <2> QED BY <1>1, <2>1, <2>2, OutsideSteps
<1>3. Flushed' => Len(log') = Len(Stream')
  BY <1>1, FlushedKept
<1>4. Held' => \A i \in txn'[lane'].start + 1 .. Len(Stream') :
                   Stream'[i].grp = txn'[lane'].grp
  BY <1>1, HeldKept
<1> QED BY <1>2, <1>3, <1>4 DEF LaneInv

(* Whatever a step does, the readers of an ordinary session stay faithful. *)
LEMMA FaithKept ==
    ASSUME IInv, IInv', DInv, OwnerInv, ReadInv, [ProjectionNext]_allVars,
           Ordinary => Faithful
    PROVE  Ordinary' => Faithful'
<1>1. SUFFICES ASSUME Ordinary' PROVE Faithful'
  OBVIOUS
<1>2. CASE Ordinary
  <2>1. ViewInv'
    BY <1>1, <1>2, ViewsKept DEF Faithful, ViewsGoOn
  <2>2. LaneInv'
    BY <1>1, <1>2, LanesKept
  <2>3. SeedInv'
    BY <1>1, <1>2, SeedsKept
  <2> QED BY <2>1, <2>2, <2>3 DEF Faithful
<1>3. CASE ~Ordinary
  <2>1. PICK c \in Clients : ArmCold(c) /\ ~up
    BY <1>1, <1>3, OrdinaryBefore
  <2> QED BY <2>1, ArmingIsFaithful
<1> QED BY <1>2, <1>3

(* Before anything is written the readers have all of it.                  *)
LEMMA FaithInit == ProjectionInit => Faithful /\ LostInv
<1> SUFFICES ASSUME ProjectionInit PROVE Faithful /\ LostInv
  OBVIOUS
<1>1. /\ log = <<>> /\ pending = <<>> /\ workerPc = "wait" /\ lost = {} /\ acked = {}
      /\ folded = <<>> /\ replayed = <<>> /\ pushed = 0 /\ copies = <<>> /\ taken = <<>>
      /\ lane = Nobody /\ laneStep = "call" /\ ~seedDue
      /\ step = [c \in Clients |-> "none"]
  BY DEF ProjectionInit, Init
<1>2. PICK z \in Seq(Event) : z = <<>> /\ Len(z) = 0
  BY EmptySeq
<1>3. Stream = z
  <2>1. Queue = z
    BY <1>1, <1>2, ConcatEmpty DEF Queue, InFlight
  <2> QED BY <1>1, <1>2, <2>1, ConcatEmpty DEF Stream
<1>4. Lies(z, 0, z) /\ SubSeq(z, 1, 0) = z
  <2>1. Lies(z, 0, z) /\ 0 \in 0 .. Len(z)
    BY <1>2 DEF Lies
  <2>2. Lies(z, 0, z) <=> Len(z) \in 0 .. Len(z) /\ z = SubSeq(z, 1, Len(z))
    BY LiesPrefix
  <2> QED BY <1>2, <2>1, <2>2
<1>5. Replayable(z) = z
  <2>1. ReplayOf(z)[0] = <<>>
    BY ReplayStep
  <2> QED BY <1>2, <2>1 DEF Replayable
<1>6. ViewInv
  <2>1. Lies(folded, 0, Stream) /\ pushed <= Len(Stream)
    BY <1>1, <1>2, <1>3, <1>4
  <2>2. replayed = Replayable(SubSeq(Stream, 1, pushed))
    BY <1>1, <1>2, <1>3, <1>4, <1>5
  <2> QED BY <2>1, <2>2 DEF ViewInv
<1>7. LaneInv
  <2>1. ~Held /\ ~Flushed
    BY <1>1 DEF Held, Flushed
  <2>2. End = 0
    BY <1>2, <1>3, <2>1 DEF End
  <2>3. Lies(taken, 0, Stream) /\ Lies(copies, 0 + Len(taken), Stream)
        /\ 0 + Len(taken) + Len(copies) = End
    BY <1>1, <1>2, <1>3, <1>4, <2>2
  <2>4. Reported(0)
    BY DEF Reported
  <2>5. LaneAt(0)
    BY <1>1, <2>3, <2>4 DEF LaneAt
  <2>6. 0 \in 0 .. Len(Stream)
    BY <1>2, <1>3
  <2> QED BY <2>1, <2>5, <2>6 DEF LaneInv
<1>8. SeedInv
  BY <1>1 DEF SeedInv
<1>9. LostInv
  BY <1>1 DEF LostInv
<1> QED BY <1>6, <1>7, <1>8, <1>9 DEF Faithful

\* The inductive invariant of the readers.
ReaderInv ==
    /\ IInv /\ DInv /\ OwnerInv /\ ReadInv /\ LostInv
    /\ Ordinary => Faithful

(* The invariant of the readers and of the journal under them.             *)
LEMMA ReadersHold == ProjectionSpec => []ReaderInv
<1>1. ProjectionSpec => []DInv
  BY ReadersUseJournal, DurableInvariance, PTL
<1>2. ProjectionInit => (Ordinary => Faithful) /\ LostInv
  BY FaithInit
<1>3. /\ IInv /\ IInv' /\ DInv /\ OwnerInv /\ ReadInv /\ [ProjectionNext]_allVars
      /\ LostInv /\ (Ordinary => Faithful)
      => LostInv' /\ (Ordinary => Faithful)'
  BY LostKept, FaithKept DEF ReadInv
<1> QED BY <1>1, <1>2, <1>3, ReadHolds, PTL DEF ProjectionSpec, ReaderInv

(* The projections have folded the first events of the session once each,  *)
(* in order: a copy from the lane, a read of the tail and a stream that    *)
(* meets the bytes of an append in progress all continue what the one      *)
(* before it has left, and skipping the seed of an install skips nothing   *)
(* else as long as nothing was admitted behind it.                         *)
THEOREM FoldIsBeginning == ProjectionSpec => []FoldIsLog
<1>1. ReaderInv => FoldIsLog
  <2> SUFFICES ASSUME ReaderInv, Ordinary PROVE folded = SubSeq(Accepted, 1, Len(folded))
    BY DEF FoldIsLog
  <2>1. folded \in Seq(Event) /\ Lies(folded, 0, Stream) /\ Stream \in Seq(Event)
    BY StreamFacts DEF ReaderInv, ReadInv, ViewType, Faithful, ViewInv, Ordinary
  <2>2. folded = SubSeq(Stream, 1, Len(folded))
    BY <2>1, LiesPrefix
  <2> QED BY <2>2 DEF Accepted, Stream
<1> QED BY <1>1, ReadersHold, PTL

(* The replay holds what may be replayed of the first pushed events, each  *)
(* once: a catch-up that fails publishes nothing of the suffix it staged,  *)
(* and the count that skips a seed skips no other event.                   *)
THEOREM ReplayIsBeginning == ProjectionSpec => []ReplayIsLog
<1>1. ReaderInv => ReplayIsLog
  BY DEF ReaderInv, Faithful, ViewInv, ReplayIsLog, Accepted, Stream
<1> QED BY <1>1, ReadersHold, PTL

(* When the lane is free, every group a flush or a durable append has      *)
(* reported is folded whole, or waits in the copies for the next refresh,  *)
(* or the refresh behind that report has failed.  Copies never leave the   *)
(* lane before the log has them, also when another service or an install   *)
(* flushes past the lane.                                                  *)
THEOREM AckedAreFolded == ProjectionSpec => []AckedIsFolded
<1>1. ASSUME ReaderInv, Ordinary, lane = Nobody, ~stale, NEW g \in acked,
             g \notin GroupsOf(copies)
      PROVE  CountOf(g, folded) = size[g]
  <2>1. /\ IInv /\ DInv /\ up /\ handle /\ LaneType /\ ViewType /\ ViewInv /\ LaneInv
        /\ LostInv /\ TypeOK
    BY <1>1 DEF ReaderInv, ReadInv, Faithful, Ordinary, IInv
  <2>2. /\ Stream \in Seq(Event) /\ Len(Stream) \in Nat /\ torn = 0 /\ Len(log) \in Nat
        /\ Len(log) <= Len(Stream) /\ log \in Seq(Event) /\ Queue \in Seq(Event)
        /\ InFlight \in Seq(Event) /\ pending \in Seq(Event)
    BY <2>1, StreamFacts, Shape
  <2>3. g \in Groups /\ size[g] \in Nat \ {0} /\ g \notin lost
    <3>1. g \in Submitted /\ g \notin lost
      BY <1>1, <2>1 DEF DInv, NamesInv, LostInv
    <3> QED BY <2>1, <3>1, Shape DEF Submitted
  <2>4. PICK n \in Nat \ {0} : n = size[g]
    BY <2>3
  <2>5. Whole(g, n, log, Len(log)) /\ Without(g, Queue)
    <3>1. Whole(g, n, log, Len(log) - 0) /\ Without(g, InFlight) /\ Without(g, pending)
      BY <1>1, <2>1, <2>2, <2>3, <2>4 DEF DInv, AckedInv, Absent
    <3>2. Without(g, InFlight \o pending)
      BY <2>2, <3>1, WithoutConcat
    <3> QED BY <2>2, <3>1, <3>2 DEF Queue
  <2>6. Whole(g, n, Stream, Len(Stream))
    <3>1. PICK s \in Seq(Event), t \in Seq(Event) : s = log /\ t = Queue
      BY <2>2
    <3>2. Len(s) \in 0 .. Len(s) /\ Len(s \o t) \in Len(s) .. Len(s \o t)
      BY Concat
    <3>3. Whole(g, n, s \o t, Len(s \o t))
      BY <2>5, <3>1, <3>2, WholeExtended
    <3> QED BY <3>1, <3>3 DEF Stream
  <2>7. PICK lo \in 0 .. Len(Stream) : LaneAt(lo)
    BY <2>1 DEF LaneInv
  <2>8. /\ Lies(copies, lo, Stream) /\ lo + Len(copies) = Len(Stream) /\ Reported(lo)
        /\ copies \in Seq(Event) /\ Len(copies) \in Nat
    <3>1. taken = <<>> /\ Len(taken) = 0 /\ ~Held
      BY <1>1, <2>1, EmptySeq DEF LaneType, Held
    <3>2. lo + 0 = lo
      BY <2>7
    <3> QED BY <2>1, <2>7, <3>1, <3>2, LenProperties DEF LaneAt, End, LaneType
  <2>9. folded \in Seq(Event) /\ Len(folded) \in 0 .. Len(Stream) /\ Lies(folded, 0, Stream)
    BY <2>1, <2>2, LenProperties DEF ViewType, ViewInv, Lies
  <2>10. ASSUME NEW i \in Len(folded) + 1 .. Len(Stream) PROVE Stream[i].grp # g
    <3>1. SUFFICES ASSUME Stream[i].grp = g PROVE FALSE
      OBVIOUS
    <3>2. i \in Nat /\ i > Len(folded) /\ i <= Len(Stream) /\ i >= 1
      BY <2>2, <2>9
    <3>3. CASE i <= lo
      <4>1. i \in 1 .. lo
        BY <3>2, <3>3
      <4> QED BY <1>1, <2>3, <2>8, <2>9, <3>1, <3>2, <4>1 DEF Reported
    <3>4. CASE i > lo
      <4>1. PICK j \in Nat : j = i - lo
        BY <3>2, <3>4
      <4>2. j \in 1 .. Len(copies) /\ lo + j = i
        BY <2>8, <3>2, <3>4, <4>1
      <4>3. copies[j] = Stream[i] /\ j \in DOMAIN copies
        BY <2>8, <4>2, LenProperties DEF Lies
      <4>4. g \in GroupsOf(copies)
        BY <2>3, <3>1, <4>3 DEF GroupsOf
      <4> QED BY <1>1, <4>4
    <3> QED BY <3>2, <3>3, <3>4
  <2>11. PICK S \in Seq(Event), k \in Nat : S = Stream /\ k = Len(folded)
    BY <2>2, <2>9
  <2>12. SubSeq(S, 1, k) = folded
    BY <2>9, <2>11, LiesPrefix
  <2>13. /\ k \in 0 .. Len(S) /\ Len(S) \in 0 .. Len(S) /\ Whole(g, n, S, Len(S))
         /\ \A i \in k + 1 .. Len(S) : S[i].grp # g
    BY <2>2, <2>6, <2>9, <2>10, <2>11
  <2>14. Whole(g, n, SubSeq(S, 1, k), k)
    BY <2>13, WholeCut
  <2>15. Len(folded) \in 0 .. Len(folded) /\ Whole(g, n, folded, Len(folded))
    <3>1. Len(folded) \in Nat
      BY <2>9, LenProperties
    <3>2. Len(folded) \in 0 .. Len(folded)
      BY <3>1
    <3> QED BY <2>11, <2>12, <2>14, <3>2
  <2> QED BY <2>4, <2>9, <2>15, CountOfWhole
<1>2. ReaderInv => AckedIsFolded
  BY <1>1 DEF AckedIsFolded
<1> QED BY <1>2, ReadersHold, PTL
==============================================================================
