-------------------------- MODULE SessionProjection --------------------------
(***************************************************************************)
(* The readers of a session that is being written.  Several services of    *)
(* one process share the coordinator of SessionJournal through a table of  *)
(* live writers (src/session/use_cases/writers.rs, lifecycle.rs), append   *)
(* through one folding handle (folding_journal.rs) and read two caches of  *)
(* the log: the projections, folded by that handle and by every read that  *)
(* finds them behind (active.rs), and the replay (use_cases.rs).           *)
(*                                                                         *)
(* Every action is a step of SessionJournal, or leaves it alone.  A client *)
(* is a service and the thread that writes for it; its reads may come from *)
(* other threads at any time.  What a unit makes of an event is abstracted:*)
(* the projections are the events they have folded.                        *)
(***************************************************************************)
EXTENDS SessionJournal

VARIABLES
    \* ProjectionFoldJournal
    lane,           \* holder of its lane
    laneStep,       \* what the holder does: the inner call, then a refresh
    copies,         \* ProjectionFoldJournal.pending
    taken,          \* the committed copies a refresh took out of it
    \* ActiveSession
    folded,         \* the events the projections have folded
    replayed,       \* the events in the replay
    pushed,         \* ResumeSink.pushed
    \* SessionService
    table,          \* holder of SessionService.writers
    holds,          \* whether a client owns an Arc<ActiveSession>, and where
    step,           \* where a client is in install_armed or quiesce_active
    mark,           \* the committed seq install_armed has read
    \* for the properties only
    stale,          \* a refresh failed and nobody has read the log since
    overtaken       \* an event was admitted behind the seed of an install

laneVars  == <<lane, laneStep, copies, taken>>
viewVars  == <<folded, replayed, pushed, stale>>
tableVars == <<table, holds, step, mark, overtaken>>
readVars  == <<laneVars, viewVars, tableVars>>
allVars   == <<vars, readVars>>

-----------------------------------------------------------------------------
None == -1          \* no committed seq

(* SessionCoordinator::committed_seq *)
Committed == IF handle /\ cursor > 0 THEN cursor - 1 ELSE None

(* ProjectionRegistry::live_floor, the first seq not folded yet. *)
Floor == IF folded = <<>> THEN 0 ELSE folded[Len(folded)].seq + 1

(* How many events of an ascending sequence come before a seq. *)
Before(seq, events) ==
    CHOOSE k \in 0 .. Len(events) :
        /\ \A i \in 1 .. k : events[i].seq < seq
        /\ \A i \in k + 1 .. Len(events) : events[i].seq >= seq

From(floor, events) == SubSeq(events, Before(floor, events) + 1, Len(events))

(* fold_all: fold_one passes over what a unit has seen already. *)
FoldAll(events) == folded \o From(Floor, events)

(* What a stream of the log file delivers.  No lock keeps the writer out:  *)
(* the stream may meet the head of a batch that is being appended, as well *)
(* as a torn tail.  The first batch appears whole, with its file.          *)
Streams ==
    {SubSeq(log, 1, k) : k \in Len(log) - torn .. Len(log)}
    \cup IF workerPc = "write" /\ CanAppend /\ log # <<>>
         THEN {log \o SubSeq(batch, 1, k) : k \in DOMAIN batch} ELSE {}

(* A stream that fails has delivered any part of it. *)
BrokenStreams == UNION {{SubSeq(s, 1, k) : k \in 0 .. Len(s)} : s \in Streams}

Holders == {c \in Clients : holds[c] # "none"}

(* The service's own calls go to the session it has installed. *)
InUse(c) == holds[c] = "active" /\ step[c] = "none"

ProjectionInit ==
    /\ Init
    /\ lane = Nobody /\ laneStep = "call" /\ copies = <<>> /\ taken = <<>>
    /\ folded = <<>> /\ replayed = <<>> /\ pushed = 0 /\ stale = FALSE
    /\ table = Nobody
    /\ \E c \in Clients :
          holds = [d \in Clients |-> IF d = c THEN "active" ELSE "none"]
    /\ step = [c \in Clients |-> "none"]
    /\ mark = [c \in Clients |-> None]
    /\ overtaken = FALSE

-----------------------------------------------------------------------------
(* The folding handle.  The lane is held from the call of the inner        *)
(* journal to the end of the refresh behind it.                            *)

TakeLane(c) == lane = Nobody /\ lane' = c

(* Mutant: the holder leaves in the middle of its refresh. *)
LeaveLaneOpen == lane' = Nobody /\ taken' = <<>> /\ UNCHANGED laneStep

LeaveLane == lane' = Nobody /\ laneStep' = "call" /\ taken' = <<>>

(* Mutant: the copies are registered by nobody. *)
LaneAppendUnregistered(c) ==
    /\ InUse(c) /\ lane = Nobody
    /\ AppendAtomic(c)
    /\ UNCHANGED <<laneVars, viewVars, tableVars>>

(* append_atomic: the copies carry the seqs the coordinator gave.          *)
LaneAppend(c) ==
    /\ InUse(c) /\ lane = Nobody
    /\ AppendAtomic(c)
    /\ copies' = copies \o SubSeq(pending', Len(pending) + 1, Len(pending'))
    /\ UNCHANGED <<lane, laneStep, taken, viewVars, tableVars>>

LaneFlush(c) ==
    /\ InUse(c) /\ TakeLane(c) /\ FlushStart(c)
    /\ UNCHANGED <<laneStep, copies, taken, viewVars, tableVars>>

(* append_atomic_durable; append_atomic_durable_at adds two conditions     *)
(* under which it does nothing.                                            *)
LaneDurable(c) ==
    /\ InUse(c) /\ TakeLane(c) /\ DurableStart(c)
    /\ UNCHANGED <<laneStep, copies, taken, viewVars, tableVars>>

LaneFlushed(c) ==
    /\ lane = c /\ FlushReturn(c)
    /\ IF result[c] = "ok" /\ ~fatal
       THEN laneStep' = "cut" /\ UNCHANGED <<lane, taken>>
       ELSE LeaveLane
    /\ UNCHANGED <<copies, viewVars, tableVars>>

LaneCommitted(c) ==
    /\ lane = c /\ DurableCommitted(c)
    /\ IF fatal
       THEN LeaveLane /\ UNCHANGED copies
       ELSE /\ copies' = copies \o GroupEvents(txn[c].grp, txn[c].start,
                                               txn[c].end - txn[c].start + 1)
            /\ laneStep' = "cut" /\ UNCHANGED <<lane, taken>>
    /\ UNCHANGED <<viewVars, tableVars>>

(* A durable append that fails registers nothing. *)
LaneRejected(c) ==
    /\ lane = c
    /\ DurableFailed(c) \/ DiscardRefused(c) \/ DurableRollback(c)
    /\ IF pc'[c] = "idle" THEN LeaveLane
                          ELSE UNCHANGED <<lane, laneStep, taken>>
    /\ UNCHANGED <<copies, viewVars, tableVars>>

(* fold_committed_pending: the copies up to the committed cursor are taken *)
(* out; they are folded directly if they begin at the floor, else the tail *)
(* of the log is read.                                                     *)
Due == IF Committed = None THEN copies
       ELSE SubSeq(copies, 1, Before(Committed + 1, copies))

ContiguityAssumed(events) == TRUE      \* mutant: the floor is not compared
Contiguity(events) == events[1].seq = Floor

CutPending(c) ==
    /\ lane = c /\ laneStep = "cut"
    /\ IF Due = <<>>
       THEN LeaveLane /\ UNCHANGED copies
       ELSE /\ taken' = Due
            /\ copies' = SubSeq(copies, Len(Due) + 1, Len(copies))
            /\ laneStep' = IF Contiguity(Due) THEN "direct" ELSE "tail"
            /\ UNCHANGED lane
    /\ UNCHANGED <<vars, viewVars, tableVars>>

FoldDirect(c) ==
    /\ lane = c /\ laneStep = "direct"
    /\ folded' = FoldAll(taken) /\ stale' = FALSE
    /\ LeaveLane
    /\ UNCHANGED <<vars, copies, replayed, pushed, tableVars>>

(* read_from collects the whole tail before any of it is folded; if it     *)
(* fails the copies are gone and the projections stay behind.              *)
FoldTail(c) ==
    /\ lane = c /\ laneStep = "tail"
    /\ \/ \E seen \in Streams : folded' = FoldAll(seen) /\ stale' = FALSE
       \/ stale' = TRUE /\ UNCHANGED folded
    /\ LeaveLane
    /\ UNCHANGED <<vars, copies, replayed, pushed, tableVars>>

-----------------------------------------------------------------------------
(* Reads, which take no lane *)

(* fold_if_behind folds while it streams: if the stream fails, what it     *)
(* delivered stays folded.                                                 *)
Refreshed ==
    /\ IF Committed >= Floor
       THEN \E seen \in Streams : folded' = FoldAll(seen)
       ELSE UNCHANGED folded
    /\ stale' = FALSE

RefreshFails ==
    /\ Committed >= Floor
    /\ \E seen \in BrokenStreams : folded' = FoldAll(seen)
    /\ UNCHANGED stale

(* The replay behind each prefix; a resume seed has no part in it. *)
ReplayOf(events) ==
    LET kept[k \in 0 .. Len(events)] ==
          IF k = 0 THEN <<>>
          ELSE IF events[k].grp = Seed THEN kept[k - 1]
                                       ELSE Append(kept[k - 1], events[k])
    IN kept

Replayable(events) == ReplayOf(events)[Len(events)]

(* catch_up_replay stages the suffix, and publishes it all together when   *)
(* the stream has succeeded.  A seed advances only the count.              *)
CaughtUp ==
    IF Committed >= pushed
    THEN \E seen \in Streams :
            LET suffix == From(pushed, seen) IN
            /\ replayed' = replayed \o Replayable(suffix)
            /\ pushed' = pushed + Len(suffix)
    ELSE UNCHANGED <<replayed, pushed>>

(* Mutant: the suffix is not staged. *)
CatchUpFailsUnstaged ==
    /\ Committed >= pushed
    /\ \E seen \in BrokenStreams :
          replayed' = replayed \o Replayable(From(pushed, seen))
    /\ UNCHANGED pushed

CatchUpFails == Committed >= pushed /\ UNCHANGED <<replayed, pushed>>

(* Every use case that looks at the projections calls fold_if_behind. *)
ReadProjections(c) ==
    /\ InUse(c)
    /\ Refreshed \/ RefreshFails
    /\ UNCHANGED <<vars, laneVars, replayed, pushed, tableVars>>

ReadReplay(c) ==
    /\ InUse(c)
    /\ CaughtUp \/ CatchUpFails
    /\ UNCHANGED <<vars, laneVars, folded, stale, tableVars>>

-----------------------------------------------------------------------------
(* Arming and installing *)

(* arm_session finds a live writer in the table and shares it.  The table  *)
(* is locked from the look-up to the view; the two reads in between are of *)
(* different caches and make one step.                                     *)
ArmShared(c) ==
    /\ table = Nobody /\ holds[c] = "none" /\ Holders # {}
    /\ \/ /\ Refreshed /\ CaughtUp
          /\ holds' = [holds EXCEPT ![c] = "armed"]
       \/ /\ \/ RefreshFails /\ UNCHANGED <<replayed, pushed>>
             \/ Refreshed /\ CatchUpFails
          /\ UNCHANGED holds
    /\ UNCHANGED <<vars, laneVars, table, step, mark, overtaken>>

(* arm_cold_session: a new coordinator, and both caches from the scan of   *)
(* its recovery, all under the lock of the table.                          *)
ArmCold(c) ==
    /\ table = Nobody /\ Holders = {}
    /\ Reopen
    /\ folded' = log' /\ replayed' = Replayable(log') /\ pushed' = Len(log')
    /\ holds' = [holds EXCEPT ![c] = "armed"]
    /\ UNCHANGED <<laneVars, stale, table, step, mark, overtaken>>

(* install_armed: the first install of a coordinator enqueues the seed.    *)
InstallSeed(c) ==
    /\ holds[c] = "armed" /\ step[c] = "none"
    /\ IF seedDue
       THEN EnqueueSeed /\ step' = [step EXCEPT ![c] = "seeded"]
       ELSE step' = [step EXCEPT ![c] = "unseeded"] /\ UNCHANGED vars
    /\ UNCHANGED <<laneVars, viewVars, table, holds, mark, overtaken>>

(* It flushes the coordinator itself, past the lane. *)
InstallFlush(c) ==
    /\ step[c] \in {"seeded", "unseeded"}
    /\ FlushStart(c)
    /\ UNCHANGED readVars

Installed(c) ==
    /\ holds' = [holds EXCEPT ![c] = "active"]
    /\ step' = [step EXCEPT ![c] = "none"]
    /\ mark' = [mark EXCEPT ![c] = None]

InstallFlushed(c) ==
    /\ step[c] \in {"seeded", "unseeded"} /\ FlushReturn(c)
    /\ IF step[c] = "seeded" /\ result[c] = "ok" /\ ~fatal
       THEN /\ step' = [step EXCEPT ![c] = "flushed"]
            /\ UNCHANGED <<holds, mark>>
       ELSE Installed(c)
    /\ UNCHANGED <<laneVars, viewVars, table, overtaken>>

InstallRead(c) ==
    /\ step[c] = "flushed"
    /\ IF Committed = None
       THEN Installed(c)
       ELSE /\ step' = [step EXCEPT ![c] = "publish"]
            /\ mark' = [mark EXCEPT ![c] = Committed]
            /\ UNCHANGED holds
    /\ UNCHANGED <<vars, laneVars, viewVars, table, overtaken>>

LastAdmitted == LET all == log \o Queue IN all[Len(all)]

(* The caches skip the seed without another read: it is taken to be the    *)
(* last committed event.                                                   *)
InstallPublish(c) ==
    /\ step[c] = "publish"
    /\ pushed' = mark[c] + 1
    /\ folded' = FoldAll(<<[seq |-> mark[c], grp |-> Seed]>>)
    /\ Installed(c)
    /\ overtaken' = (overtaken \/ LastAdmitted.grp # Seed)
    /\ UNCHANGED <<vars, laneVars, replayed, stale, table>>

-----------------------------------------------------------------------------
(* Letting go *)

(* quiesce_active takes the session out of its slot, refreshes the         *)
(* projections for the checkpoint and goes on whether or not that works.   *)
Quiesce(c) ==
    /\ InUse(c) /\ lane # c /\ pc[c] = "idle"
    /\ Refreshed \/ RefreshFails
    /\ step' = [step EXCEPT ![c] = "leaving"]
    /\ UNCHANGED <<vars, laneVars, replayed, pushed, table, holds, mark,
                   overtaken>>

DiscardArmed(c) ==
    /\ holds[c] = "armed" /\ step[c] = "none"
    /\ step' = [step EXCEPT ![c] = "leaving"]
    /\ UNCHANGED <<vars, laneVars, viewVars, table, holds, mark, overtaken>>

LetGo(c) ==
    /\ holds' = [holds EXCEPT ![c] = "none"]
    /\ step' = [step EXCEPT ![c] = "none"]

(* Mutant: only services that have installed the session are counted.      *)
LastInstalled(c) == \A d \in Clients \ {c} : holds[d] # "active"

LastHolder(c) == Holders = {c}

(* release_writer: under the lock of the table the last owner removes the  *)
(* entry and closes the coordinator, and only then unlocks.                *)
ReleaseWriter(c) ==
    /\ step[c] = "leaving" /\ table = Nobody
    /\ IF LastHolder(c)
       THEN /\ CloseStart(c)
            /\ table' = c /\ step' = [step EXCEPT ![c] = "closing"]
            /\ UNCHANGED holds
       ELSE LetGo(c) /\ UNCHANGED <<vars, table>>
    /\ UNCHANGED <<laneVars, viewVars, mark, overtaken>>

ForgetViews ==
    /\ lane' = Nobody /\ laneStep' = "call" /\ copies' = <<>> /\ taken' = <<>>
    /\ folded' = <<>> /\ replayed' = <<>> /\ pushed' = 0 /\ stale' = FALSE
    /\ table' = Nobody /\ overtaken' = FALSE

ReleaseClosed(c) ==
    /\ step[c] = "closing" /\ Release
    /\ LetGo(c) /\ ForgetViews
    /\ UNCHANGED mark

(* The process ends, and every service with it. *)
Die ==
    /\ Crash
    /\ ForgetViews
    /\ holds' = [c \in Clients |-> "none"]
    /\ step' = [c \in Clients |-> "none"]
    /\ mark' = [c \in Clients |-> None]

-----------------------------------------------------------------------------
(* The steps of a call that has begun. *)
CallStep(c) ==
    \/ /\ up
       /\ FlushEnter(c) \/ FlushWake(c) \/ DiscardTail(c) \/ CloseJoin(c)
       /\ UNCHANGED readVars
    \/ LaneFlushed(c) \/ LaneCommitted(c) \/ LaneRejected(c)
    \/ CutPending(c) \/ FoldDirect(c) \/ FoldTail(c)
    \/ InstallFlush(c) \/ InstallFlushed(c) \/ InstallRead(c)
    \/ InstallPublish(c)
    \/ ReleaseWriter(c) \/ ReleaseClosed(c)

ServiceCall(c) ==
    \/ LaneAppend(c) \/ LaneFlush(c) \/ LaneDurable(c)
    \/ ReadProjections(c) \/ ReadReplay(c)
    \/ ArmShared(c) \/ ArmCold(c) \/ InstallSeed(c)
    \/ Quiesce(c) \/ DiscardArmed(c)

WriterStep == WorkerStep /\ UNCHANGED readVars
TimerStep == WindowExpires /\ UNCHANGED readVars

ProjectionNext ==
    \/ \E c \in Clients : CallStep(c) \/ ServiceCall(c)
    \/ WriterStep \/ TimerStep \/ Die
    \/ (LoadRepair \/ RepairInterrupted) /\ UNCHANGED readVars

ProjectionSpec == ProjectionInit /\ [][ProjectionNext]_allVars

-----------------------------------------------------------------------------
(* Properties *)

(* The locals of the lane last as long as it is held. *)
ReadType ==
    /\ lane \in Clients \cup {Nobody}
    /\ laneStep \in {"call", "cut", "direct", "tail"}
    /\ copies \in Seq(Event) /\ taken \in Seq(Event)
    /\ folded \in Seq(Event) /\ replayed \in Seq(Event) /\ pushed \in Nat
    /\ table \in Clients \cup {Nobody}
    /\ holds \in [Clients -> {"none", "armed", "active"}]
    /\ step \in [Clients -> {"none", "seeded", "unseeded", "flushed",
                             "publish", "leaving", "closing"}]
    /\ mark \in [Clients -> Nat \cup {None}]
    /\ lane = Nobody => laneStep = "call"
    /\ taken = <<>> <=> laneStep \in {"call", "cut"}
    /\ stale \in BOOLEAN /\ overtaken \in BOOLEAN

(* What the coordinator has accepted and not taken back, in order. *)
Accepted == log \o Queue

(* Three things the caches do not survive: a durable append that reports   *)
(* an error, an event admitted behind the seed of an install, and an       *)
(* unknown outcome.                                                        *)
Ordinary ==
    /\ up /\ handle /\ ~closed
    /\ rejected = {} /\ withdrawn = {} /\ ~overtaken

(* The projections have folded exactly the first events of the session, in *)
(* order and without a gap, whoever folded them and from whichever source: *)
(* the copies, a read of the tail, or a stream beside the writer.          *)
FoldIsLog == Ordinary => folded = SubSeq(Accepted, 1, Len(folded))

(* The replay holds the first events of the session once each, and pushed  *)
(* counts them.                                                            *)
ReplayIsLog ==
    Ordinary => /\ pushed <= Len(Accepted)
                /\ replayed = Replayable(SubSeq(Accepted, 1, pushed))

(* When the lane is free, whatever a flush or a durable append reported    *)
(* durable is folded, unless its refresh failed and nobody has read the    *)
(* log since.  What an install flushed waits for the next flush.           *)
AckedIsFolded ==
    Ordinary /\ lane = Nobody /\ ~stale =>
        \A g \in acked : g \in GroupsOf(copies) \/ CountOf(g, folded) = size[g]

(* A coordinator is closed by its last owner, while it closes nobody else  *)
(* owns it or can come to own it, and neither it nor its writer thread     *)
(* outlives its owners.                                                    *)
LastOwnerCloses ==
    /\ closed => \E c \in Clients : Holders = {c} /\ table = c
    /\ Holders = {} => ~up

-----------------------------------------------------------------------------
(* What the comments say of the two caches, and the code does not do. *)

(* The seed is the only event admitted between the arming scan and         *)
(* publication (lifecycle.rs:230), so skipping it loses nothing: what is   *)
(* folded is in the log, at its seq.                                       *)
SkipsOnlySeed ==
    \A i \in DOMAIN folded :
        folded[i].seq < Len(log) => log[folded[i].seq + 1] = folded[i]
=============================================================================
