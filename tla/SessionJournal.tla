--------------------------- MODULE SessionJournal ---------------------------
(***************************************************************************)
(* The write path of one session's durable journal: producers, the         *)
(* SessionCoordinator that assigns sequence numbers                        *)
(* (src/session/run_journal.rs), the write-behind queue with its writer    *)
(* thread (src/session/write_behind.rs), the append transaction with its   *)
(* three outcomes (src/session/persistence/append.rs) and the cold         *)
(* re-opening of the log after a close or a crash                          *)
(* (src/session/persistence.rs).                                           *)
(*                                                                         *)
(* An event is its sequence number and the atomic group it was appended    *)
(* in; payloads are abstracted.  A group is one append_atomic call.        *)
(* Every critical section of a mutex is one action.  The core mutex is     *)
(* held by the writer across the whole append, so an append is one action  *)
(* too; a crash in the middle of it is an outcome of Crash.                *)
(***************************************************************************)
EXTENDS Integers, Sequences, FiniteSets

CONSTANTS
    Clients,        \* threads holding the coordinator's journal
    Nobody,         \* "this mutex is free"
    Closers,        \* the clients that may also retire the coordinator
    MaxGroups,      \* bound: atomic groups submitted in a behaviour
    MaxGroupSize,   \* bound: events of a group
    MaxTears,       \* bound: indeterminate outcomes (crashes and Unknowns)
    Faults          \* append failures that can occur

ASSUME NobodyAssumption == Nobody \notin Clients
ASSUME BoundsAssumption ==
    /\ MaxGroups \in Nat
    /\ MaxGroupSize \in Nat \ {0}
    /\ MaxTears \in Nat
ASSUME FaultsAssumption == Faults \subseteq {"NotCommitted", "Unknown"}
ASSUME ClosersAssumption == Closers \subseteq Clients

Groups == 1 .. MaxGroups
Closer == 0                     \* synthetic closers of an interrupted turn
Seed   == MaxGroups + 1         \* the session/end-seed marker

Event == [seq : Nat, grp : 0 .. MaxGroups + 1]

VARIABLES
    \* the log file and the backend
    log,            \* events in the file, oldest first
    torn,           \* how many of them are salvaged from a torn last frame
    poisoned,       \* the key is in JsonlBackend.poisoned
    \* CoordinatorCore
    handle,         \* the PreparedSession is present
    cursor,         \* PreparedSession.next_seq while it is present
    nextSeq,        \* CoordinatorCore.next_seq
    fatal,          \* CoordinatorCore.fatal is set
    transaction,    \* holder of SessionCoordinator.transaction
    seedDue,        \* SessionCoordinator.needs_seed_marker
    \* write_behind::State
    pending, window, active, paused, flushRequested, closed, lastError,
    \* the writer thread
    workerPc, batch, written,
    workerSlot,     \* holder of SessionWriteBehind.worker
    joined,         \* the JoinHandle has been taken
    \* the process and the clients inside it
    up,             \* the process runs and a coordinator exists
    pc, call, result, txn, mine,
    \* bookkeeping of what callers were told, for the properties only
    size,           \* events of each submitted group, 0 before
    acked,          \* groups a flush or a durable append reported durable
    rejected,       \* groups whose durable append returned an error
    withdrawn,      \* groups discard_pending_tail removed
    lost,           \* groups the writer dropped after close
    tears           \* indeterminate outcomes so far

diskVars   == <<log, torn, poisoned>>
coreVars   == <<handle, cursor, nextSeq, fatal, transaction, seedDue>>
queueVars  == <<pending, window, active, paused, flushRequested, closed,
                lastError>>
workerVars == <<workerPc, batch, written, workerSlot, joined>>
clientVars == <<up, pc, call, result, txn, mine>>
auxVars    == <<size, acked, rejected, withdrawn, lost, tears>>
vars == <<diskVars, coreVars, queueVars, workerVars, clientVars, auxVars>>

-----------------------------------------------------------------------------
(* The events of group g, numbered from start. *)
GroupEvents(g, start, n) ==
    [i \in 1 .. n |-> [seq |-> start + i - 1, grp |-> g]]

(* The groups with an event in a sequence of events. *)
GroupsOf(events) == {events[i].grp : i \in DOMAIN events} \cap Groups

CountOf(g, events) == Cardinality({i \in DOMAIN events : events[i].grp = g})

NoTxn == [grp |-> 0, start |-> 0, end |-> 0]

Submitted == {g \in Groups : size[g] > 0}

(* Groups are named in the order of their submission. *)
NextGroup == Cardinality(Submitted) + 1

Init ==
    /\ log = <<>> /\ torn = 0 /\ poisoned = FALSE
    /\ handle = TRUE /\ cursor = 0 /\ nextSeq = 0 /\ fatal = FALSE
    /\ transaction = Nobody /\ seedDue = FALSE
    /\ pending = <<>> /\ window = "none" /\ active = FALSE /\ paused = FALSE
    /\ flushRequested = FALSE /\ closed = FALSE /\ lastError = FALSE
    /\ workerPc = "wait" /\ batch = <<>> /\ written = "ok"
    /\ workerSlot = Nobody /\ joined = FALSE
    /\ up = TRUE
    /\ pc = [c \in Clients |-> "idle"]
    /\ call = [c \in Clients |-> "none"]
    /\ result = [c \in Clients |-> "ok"]
    /\ txn = [c \in Clients |-> NoTxn]
    /\ mine = [c \in Clients |-> {}]
    /\ size = [g \in Groups |-> 0]
    /\ acked = {} /\ rejected = {} /\ withdrawn = {} /\ lost = {}
    /\ tears = 0

-----------------------------------------------------------------------------
(* Queue admission *)

(* SessionWriteBehind::enqueue: the window opens only on the idle-to-busy  *)
(* transition; a paused queue is un-paused.                                *)
Enqueue(events) ==
    /\ ~closed
    /\ pending' = pending \o events
    /\ paused' = FALSE
    /\ window' = IF pending = <<>> /\ ~active /\ window = "none"
                 THEN "open" ELSE window
    /\ UNCHANGED <<active, flushRequested, closed, lastError>>

(* enqueue_atomic_locked: contiguous seqs are assigned and the group is    *)
(* admitted under one lock; a refused group consumes no seq.  A closed     *)
(* writer or a fatal coordinator refuses with no effect.                   *)
EnqueueGroup(g, n) ==
    /\ ~fatal
    /\ Enqueue(GroupEvents(g, nextSeq, n))
    /\ nextSeq' = nextSeq + n

(* SessionCoordinator::enqueue_atomic by client c. *)
AppendAtomic(c) ==
    /\ up /\ ~seedDue /\ pc[c] = "idle" /\ transaction = Nobody
    /\ NextGroup \in Groups
    /\ \E n \in 1 .. MaxGroupSize :
          /\ EnqueueGroup(NextGroup, n)
          /\ size' = [size EXCEPT ![NextGroup] = n]
    /\ mine' = [mine EXCEPT ![c] = @ \cup {NextGroup}]
    /\ UNCHANGED <<diskVars, handle, cursor, fatal, transaction, seedDue,
                   workerVars, up, pc, call, result, txn,
                   acked, rejected, withdrawn, lost, tears>>

(* The resume seed, published once by the first install of a coordinator. *)
EnqueueSeed ==
    /\ up /\ seedDue /\ transaction = Nobody
    /\ EnqueueGroup(Seed, 1)
    /\ seedDue' = FALSE
    /\ UNCHANGED <<diskVars, handle, cursor, fatal, transaction, workerVars,
                   clientVars, auxVars>>

-----------------------------------------------------------------------------
(* SessionWriteBehind::flush, called by flush, append_atomic_durable and   *)
(* close.  "enter" takes the state lock for the first time; "waiting"      *)
(* re-takes it after each notification.                                    *)

(* Mutant: the batch being written is forgotten. *)
DrainedIgnoringBatch == pending = <<>>

Drained == pending = <<>> /\ ~active

(* Mutant: a waiter is woken by success only. *)
DecidedBySuccess == Drained

(* What a caller inside flush waits for. *)
Decided == lastError \/ Drained

FlushEnter(c) ==
    /\ pc[c] = "enter"
    /\ IF Drained
       THEN /\ pc' = [pc EXCEPT ![c] = "flushed"]
            /\ result' = [result EXCEPT ![c] = "ok"]
            /\ IF lastError
               THEN /\ paused' = FALSE /\ window' = "none"
                    /\ flushRequested' = FALSE /\ lastError' = FALSE
               ELSE UNCHANGED <<paused, window, flushRequested, lastError>>
       ELSE /\ pc' = [pc EXCEPT ![c] = "waiting"]
            /\ paused' = FALSE /\ window' = "none"
            /\ flushRequested' = TRUE /\ lastError' = FALSE
            /\ UNCHANGED result
    /\ UNCHANGED <<diskVars, coreVars, pending, active, closed, workerVars,
                   up, call, txn, mine, auxVars>>

FlushWake(c) ==
    /\ pc[c] = "waiting" /\ Decided
    /\ flushRequested' = FALSE
    /\ result' = [result EXCEPT ![c] = IF lastError THEN "err" ELSE "ok"]
    /\ pc' = [pc EXCEPT ![c] = "flushed"]
    /\ UNCHANGED <<diskVars, coreVars, pending, window, active, paused,
                   closed, lastError, workerVars, up, call, txn, mine,
                   auxVars>>

(* The call of client c returns and its locals go out of scope. *)
Return(c) ==
    /\ pc' = [pc EXCEPT ![c] = "idle"]
    /\ call' = [call EXCEPT ![c] = "none"]
    /\ result' = [result EXCEPT ![c] = "ok"]
    /\ txn' = [txn EXCEPT ![c] = NoTxn]

(* SessionCoordinator::flush *)
FlushStart(c) ==
    /\ up /\ pc[c] = "idle"
    /\ pc' = [pc EXCEPT ![c] = "enter"]
    /\ call' = [call EXCEPT ![c] = "flush"]
    /\ UNCHANGED <<diskVars, coreVars, queueVars, workerVars, up, result,
                   txn, mine, auxVars>>

(* Mutant: the coordinator's fatal state is not looked at again. *)
FlushReturnUnchecked(c) ==
    /\ pc[c] = "flushed" /\ call[c] = "flush"
    /\ Return(c)
    /\ IF result[c] = "ok"
       THEN acked' = acked \cup mine[c] /\ mine' = [mine EXCEPT ![c] = {}]
       ELSE UNCHANGED <<acked, mine>>
    /\ UNCHANGED <<diskVars, coreVars, queueVars, workerVars, up,
                   size, rejected, withdrawn, lost, tears>>

FlushReturn(c) ==
    /\ pc[c] = "flushed" /\ call[c] = "flush"
    /\ Return(c)
    /\ IF result[c] = "ok" /\ ~fatal
       THEN /\ acked' = acked \cup mine[c]
            /\ mine' = [mine EXCEPT ![c] = {}]
       ELSE UNCHANGED <<acked, mine>>
    /\ UNCHANGED <<diskVars, coreVars, queueVars, workerVars, up,
                   size, rejected, withdrawn, lost, tears>>

-----------------------------------------------------------------------------
(* SessionCoordinator::enqueue_atomic_durable(_at): the transaction lock   *)
(* is held from admission to the decision.                                 *)

DurableStart(c) ==
    /\ up /\ ~seedDue /\ pc[c] = "idle" /\ transaction = Nobody
    /\ NextGroup \in Groups
    /\ \E n \in 1 .. MaxGroupSize :
          /\ EnqueueGroup(NextGroup, n)
          /\ size' = [size EXCEPT ![NextGroup] = n]
          /\ txn' = [txn EXCEPT ![c] = [grp |-> NextGroup, start |-> nextSeq,
                                        end |-> nextSeq + n - 1]]
    /\ transaction' = c
    /\ pc' = [pc EXCEPT ![c] = "enter"]
    /\ call' = [call EXCEPT ![c] = "durable"]
    /\ UNCHANGED <<diskVars, handle, cursor, fatal, seedDue, workerVars, up,
                   result, mine, acked, rejected, withdrawn, lost,
                   tears>>

DurableReturn(c) == Return(c) /\ transaction' = Nobody

(* flush reported success: the group is acknowledged unless the            *)
(* coordinator has become fatal meanwhile.                                 *)
DurableCommitted(c) ==
    /\ pc[c] = "flushed" /\ call[c] = "durable" /\ result[c] = "ok"
    /\ DurableReturn(c)
    /\ IF fatal THEN rejected' = rejected \cup {txn[c].grp} /\ UNCHANGED acked
                ELSE acked' = acked \cup {txn[c].grp} /\ UNCHANGED rejected
    /\ UNCHANGED <<diskVars, handle, cursor, nextSeq, fatal, seedDue,
                   queueVars, workerVars, up, mine,
                   size, withdrawn, lost, tears>>

(* flush failed: give up if the outcome is unknown or the group is not the *)
(* tail, else go on to discard it.                                         *)
DurableFailed(c) ==
    /\ pc[c] = "flushed" /\ call[c] = "durable" /\ result[c] = "err"
    /\ IF fatal \/ nextSeq # txn[c].end + 1
       THEN /\ DurableReturn(c)
            /\ rejected' = rejected \cup {txn[c].grp}
       ELSE /\ pc' = [pc EXCEPT ![c] = "discard"]
            /\ UNCHANGED <<call, result, txn, transaction, rejected>>
    /\ UNCHANGED <<diskVars, handle, cursor, nextSeq, fatal, seedDue,
                   queueVars, workerVars, up, mine,
                   size, acked, withdrawn, lost, tears>>

(* discard_pending_tail's checks: no write in flight, nothing behind the   *)
(* range, the range fully pending.                                         *)
CanDiscardAnyRange(range) ==      \* mutant: the range may be gone already
    /\ ~active
    /\ \A i \in DOMAIN pending : pending[i].seq <= range.end

CanDiscard(range) ==
    /\ ~active
    /\ \A i \in DOMAIN pending : pending[i].seq <= range.end
    /\ \A s \in range.start .. range.end :
          \E i \in DOMAIN pending : pending[i].seq = s

(* The queue is in seq order, so what is retained is a prefix of it. *)
DiscardTail(c) ==
    /\ pc[c] = "discard" /\ CanDiscard(txn[c])
    /\ \E k \in 0 .. Len(pending) :
          /\ \A i \in 1 .. k : pending[i].seq < txn[c].start
          /\ \A i \in k + 1 .. Len(pending) : pending[i].seq >= txn[c].start
          /\ pending' = SubSeq(pending, 1, k)
    /\ IF pending' = <<>>
       THEN window' = "none" /\ paused' = FALSE /\ lastError' = FALSE
       ELSE UNCHANGED <<window, paused, lastError>>
    /\ withdrawn' = withdrawn \cup {txn[c].grp}
    /\ pc' = [pc EXCEPT ![c] = "rollback"]
    /\ UNCHANGED <<diskVars, coreVars, active, flushRequested, closed,
                   workerVars, up, call, result, txn, mine, size, acked,
                   rejected, lost, tears>>

(* The discard was refused: its error is returned, nothing is rolled back. *)
DiscardRefused(c) ==
    /\ pc[c] = "discard" /\ ~CanDiscard(txn[c])
    /\ DurableReturn(c)
    /\ rejected' = rejected \cup {txn[c].grp}
    /\ UNCHANGED <<diskVars, handle, cursor, nextSeq, fatal, seedDue,
                   queueVars, workerVars, up, mine,
                   size, acked, withdrawn, lost, tears>>

(* Mutant: the range is given back by one too many. *)
RollbackSeqOffByOne(range) == range.start - 1

(* The seq range of the discarded group is given back. *)
RollbackSeq(range) == range.start

DurableRollback(c) ==
    /\ pc[c] = "rollback"
    /\ nextSeq' = RollbackSeq(txn[c])
    /\ DurableReturn(c)
    /\ rejected' = rejected \cup {txn[c].grp}
    /\ UNCHANGED <<diskVars, handle, cursor, fatal, seedDue, queueVars,
                   workerVars, up, mine, size, acked,
                   withdrawn, lost, tears>>

-----------------------------------------------------------------------------
(* SessionWriteBehind::close and SessionCoordinator::close.  The worker    *)
(* slot is held from here to the join.                                     *)

CloseStart(c) ==
    /\ up /\ c \in Closers /\ pc[c] = "idle"
    /\ workerSlot = Nobody /\ ~joined
    /\ workerSlot' = c
    /\ closed' = TRUE /\ paused' = FALSE
    /\ pc' = [pc EXCEPT ![c] = "enter"]
    /\ call' = [call EXCEPT ![c] = "close"]
    /\ UNCHANGED <<diskVars, coreVars, pending, window, active,
                   flushRequested, lastError, workerPc, batch, written,
                   joined, up, result, txn, mine, auxVars>>

(* The coordinator drops its handle unless the outcome is fatal. *)
CloseCore == handle' = (handle /\ fatal)

CloseJoin(c) ==
    /\ pc[c] = "flushed" /\ call[c] = "close"
    /\ workerPc = "exited"
    /\ joined' = TRUE /\ workerSlot' = Nobody
    /\ CloseCore
    /\ Return(c)
    /\ UNCHANGED <<diskVars, cursor, nextSeq, fatal, transaction, seedDue,
                   queueVars, workerPc, batch, written, up, mine, size, acked,
                   rejected, withdrawn, lost, tears>>

(* A second close finds the writer joined and reports its last error. *)
CloseAgain(c) ==
    /\ up /\ c \in Closers /\ pc[c] = "idle"
    /\ workerSlot = Nobody /\ joined
    /\ CloseCore
    /\ UNCHANGED <<diskVars, cursor, nextSeq, fatal, transaction, seedDue,
                   queueVars, workerVars, clientVars, size, acked, rejected,
                   withdrawn, lost, tears>>

-----------------------------------------------------------------------------
(* The writer thread, worker_loop *)

(* The 200 ms batch window runs out. *)
WindowExpires ==
    /\ up /\ window = "open"
    /\ window' = "due"
    /\ UNCHANGED <<diskVars, coreVars, pending, active, paused,
                   flushRequested, closed, lastError, workerVars,
                   clientVars, auxVars>>

Wants ==
    /\ flushRequested \/ window = "due"
    /\ pending # <<>>
    /\ ~active
    /\ flushRequested \/ ~paused

WorkerTake ==
    /\ up /\ workerPc = "wait" /\ Wants
    /\ active' = TRUE /\ window' = "none" /\ flushRequested' = FALSE
    /\ batch' = pending /\ pending' = <<>>
    /\ workerPc' = "write"
    /\ UNCHANGED <<diskVars, coreVars, paused, closed, lastError, written,
                   workerSlot, joined, clientVars, auxVars>>

(* append_batch verifies that the batch continues the prepared cursor.     *)
Contiguous ==
    \A i \in DOMAIN batch : batch[i].seq = cursor + i - 1

CanAppend == ~fatal /\ handle /\ ~poisoned /\ Contiguous

WriteOutcome(outcome) ==
    /\ workerPc' = "settle" /\ written' = outcome
    /\ UNCHANGED <<nextSeq, transaction, seedDue, queueVars, batch,
                   workerSlot, joined, clientVars>>

(* Written and fsynced: the handle advances. *)
WriteCommits ==
    /\ up /\ workerPc = "write" /\ CanAppend
    /\ log' = log \o batch
    /\ cursor' = cursor + Len(batch)
    /\ WriteOutcome("ok")
    /\ UNCHANGED <<torn, poisoned, handle, fatal, auxVars>>

(* write_batch refuses (fatal, or no handle), append_batch finds a seq     *)
(* mismatch, or the failed write was rolled back: nothing is in the log    *)
(* and the handle is as it was.                                            *)
WriteNotCommitted ==
    /\ up /\ workerPc = "write"
    /\ \/ fatal \/ ~handle
       \/ ~poisoned /\ ~Contiguous
       \/ "NotCommitted" \in Faults /\ CanAppend
    /\ WriteOutcome("failed")
    /\ UNCHANGED <<diskVars, handle, cursor, fatal, auxVars>>

(* What an interrupted append can leave in the log: any prefix of the      *)
(* batch; the first batch is published with its header as one file.        *)
Remnants ==
    {SubSeq(batch, 1, k) : k \in IF log = <<>> THEN {0, Len(batch)}
                                              ELSE 0 .. Len(batch)}

(* The log after such an append: its last frame may be torn, and what can  *)
(* be read of it is salvaged by the next repair.                           *)
Interrupted(r) ==
    /\ log' = log \o r
    /\ torn' \in IF log = <<>> THEN {0} ELSE {0, Len(r)}

(* The rollback failed, the publish could not be proved, or the key is     *)
(* already poisoned: the handle is consumed and the coordinator is fatal.  *)
(* Nothing of a first batch is left undecided before its publication.      *)
WriteUnknown ==
    /\ up /\ workerPc = "write" /\ ~fatal /\ handle
    /\ IF poisoned
       THEN UNCHANGED <<log, torn, tears>>
       ELSE /\ "Unknown" \in Faults /\ Contiguous /\ tears < MaxTears
            /\ \E r \in Remnants : (log = <<>> => r = batch) /\ Interrupted(r)
            /\ tears' = tears + 1
    /\ poisoned' = TRUE /\ handle' = FALSE /\ fatal' = TRUE
    /\ WriteOutcome("failed")
    /\ UNCHANGED <<cursor, size, acked, rejected, withdrawn, lost>>

(* Mutant: what arrived during the write is left without a window. *)
RearmedNever == window

(* A window for what arrived while the batch was being written. *)
Rearmed ==
    IF pending # <<>> /\ window = "none" /\ ~closed THEN "open" ELSE window

SettleCommitted ==
    /\ up /\ workerPc = "settle" /\ written = "ok"
    /\ active' = FALSE /\ lastError' = FALSE /\ paused' = FALSE
    /\ window' = Rearmed
    /\ workerPc' = "wait" /\ batch' = <<>> /\ written' = "ok"
    /\ UNCHANGED <<diskVars, coreVars, pending, flushRequested, closed,
                   workerSlot, joined, clientVars, auxVars>>

RestoredBehind == pending \o batch    \* mutant: the order is lost
Restored == batch \o pending

(* A failed batch goes back to the front; the automatic path pauses unless *)
(* a flush was requested while it was written.                             *)
SettleRestored ==
    /\ up /\ workerPc = "settle" /\ written = "failed" /\ ~closed
    /\ active' = FALSE /\ lastError' = TRUE
    /\ pending' = Restored
    /\ paused' = ~flushRequested
    /\ workerPc' = "wait" /\ batch' = <<>> /\ written' = "ok"
    /\ UNCHANGED <<diskVars, coreVars, window, flushRequested, closed,
                   workerSlot, joined, clientVars, auxVars>>

(* After close a failed write drops everything and the writer exits. *)
SettleDropped ==
    /\ up /\ workerPc = "settle" /\ written = "failed" /\ closed
    /\ active' = FALSE /\ lastError' = TRUE
    /\ pending' = <<>>
    /\ lost' = lost \cup GroupsOf(batch \o pending)
    /\ workerPc' = "exited" /\ batch' = <<>> /\ written' = "ok"
    /\ UNCHANGED <<diskVars, coreVars, window, paused, flushRequested,
                   closed, workerSlot, joined, clientVars, size,
                   acked, rejected, withdrawn, tears>>

WorkerExit ==
    /\ up /\ workerPc = "wait" /\ closed /\ Drained
    /\ workerPc' = "exited"
    /\ UNCHANGED <<diskVars, coreVars, queueVars, batch, written,
                   workerSlot, joined, clientVars, auxVars>>

-----------------------------------------------------------------------------
(* The end of a process and the cold re-opening of its log *)

(* The coordinator, its queue, its writer thread and its callers end; the   *)
(* next coordinator starts from empty memory.                              *)
Forget ==
    /\ handle' = FALSE /\ cursor' = 0 /\ nextSeq' = 0 /\ fatal' = FALSE
    /\ transaction' = Nobody /\ seedDue' = FALSE
    /\ pending' = <<>> /\ window' = "none" /\ active' = FALSE
    /\ paused' = FALSE /\ flushRequested' = FALSE /\ closed' = FALSE
    /\ lastError' = FALSE
    /\ workerPc' = "wait" /\ batch' = <<>> /\ written' = "ok"
    /\ workerSlot' = Nobody
    /\ up' = FALSE
    /\ pc' = [c \in Clients |-> "idle"]
    /\ call' = [c \in Clients |-> "none"]
    /\ result' = [c \in Clients |-> "ok"]
    /\ txn' = [c \in Clients |-> NoTxn]
    /\ mine' = [c \in Clients |-> {}]

(* The process dies; a torn record is dropped by the next repair. *)
Crash ==
    /\ up /\ tears < MaxTears
    /\ tears' = tears + 1
    /\ IF workerPc = "write" /\ CanAppend
       THEN \E r \in Remnants : Interrupted(r)
       ELSE UNCHANGED <<log, torn>>
    /\ Forget
    /\ poisoned' = FALSE /\ joined' = FALSE
    /\ UNCHANGED <<size, acked, rejected, withdrawn, lost>>

(* The last client released a retired coordinator; the process goes on. *)
Release ==
    /\ up /\ joined /\ \A c \in Clients : pc[c] = "idle"
    /\ Forget
    /\ UNCHANGED <<diskVars, joined, size, acked, rejected, withdrawn, lost,
                   tears>>

(* An interrupted turn is closed by synthetic events.  Whether the turn is *)
(* open depends on payloads, so it is left open here; a log with no group  *)
(* after its last closer is balanced.                                      *)
Balanced ==
    \A i \in DOMAIN log : log[i].grp \in Groups =>
        \E j \in DOMAIN log : j > i /\ log[j].grp = Closer

Closings ==
    {<<>>} \cup IF Balanced THEN {} ELSE {GroupEvents(Closer, Len(log), 1)}

(* commit_repair: the torn frame is truncated away, then what was salvaged *)
(* of it and the closers are appended again as one batch.                  *)
Repaired(closers) == log' = log \o closers /\ torn' = 0

(* load(repair).  A call that had something to repair returns without      *)
(* re-arming a poisoned key; the next one finds nothing to repair.         *)
LoadRepair ==
    /\ ~up /\ log # <<>>
    /\ \E closers \in Closings :
          /\ Repaired(closers)
          /\ poisoned' = (poisoned /\ (torn > 0 \/ closers # <<>>))
    /\ UNCHANGED <<coreVars, queueVars, workerVars, clientVars, auxVars>>

(* A repair that does not get to its end, or whose process dies: any       *)
(* prefix of what it was writing back is there, perhaps torn again.  Only  *)
(* prepare's own append of closers, behind a whole log, can poison the key.*)
RepairInterrupted ==
    /\ ~up /\ tears < MaxTears
    /\ \E closers \in Closings :
          /\ torn > 0 \/ closers # <<>>
          /\ \E k \in Len(log) - torn .. Len(log \o closers) :
                /\ log' = SubSeq(log \o closers, 1, k)
                /\ torn' \in {0, k - (Len(log) - torn)}
    /\ poisoned' \in {FALSE, poisoned, torn = 0 /\ "Unknown" \in Faults}
    /\ tears' = tears + 1
    /\ UNCHANGED <<coreVars, queueVars, workerVars, clientVars,
                   size, acked, rejected, withdrawn, lost>>

(* prepare and start_unseeded: refused while poisoned; the log is repaired *)
(* before the handle is published.  A session that never reached the disk  *)
(* can be created again only by another process.                           *)
Reopen ==
    /\ ~up /\ ~poisoned /\ (log = <<>> => ~joined)
    /\ \E closers \in Closings : Repaired(closers)
    /\ seedDue' = (log' # <<>> /\ log'[Len(log')].grp # Seed)
    /\ handle' = TRUE /\ cursor' = Len(log') /\ nextSeq' = Len(log')
    /\ up' = TRUE /\ joined' = FALSE
    /\ UNCHANGED <<poisoned, fatal, transaction, queueVars, workerPc, batch,
                   written, workerSlot, pc, call, result, txn, mine, auxVars>>

-----------------------------------------------------------------------------
(* The steps a client has begun and will go on with. *)
ClientStep(c) ==
    /\ up
    /\ \/ FlushEnter(c) \/ FlushWake(c) \/ FlushReturn(c)
       \/ DurableCommitted(c) \/ DurableFailed(c)
       \/ DiscardTail(c) \/ DiscardRefused(c) \/ DurableRollback(c)
       \/ CloseJoin(c)

ClientCall(c) ==
    AppendAtomic(c) \/ FlushStart(c) \/ DurableStart(c) \/ CloseStart(c)
    \/ CloseAgain(c)

WorkerStep ==
    \/ WorkerTake \/ WriteCommits \/ WriteNotCommitted \/ WriteUnknown
    \/ SettleCommitted \/ SettleRestored \/ SettleDropped \/ WorkerExit

Next ==
    \/ \E c \in Clients : ClientCall(c) \/ ClientStep(c)
    \/ EnqueueSeed
    \/ WorkerStep
    \/ WindowExpires
    \/ Crash \/ Release \/ LoadRepair \/ RepairInterrupted \/ Reopen

Spec == Init /\ [][Next]_vars

(* The writer thread and the batch timer run whenever they can, and a      *)
(* caller inside a call goes on with it: the state mutex and the condition *)
(* variable wake every waiter (notify_all).  No caller is obliged to make  *)
(* a call, and nothing is assumed of crashes, closes or append outcomes.   *)
FairSpec ==
    /\ Spec
    /\ WF_vars(WorkerStep)
    /\ WF_vars(WindowExpires)
    /\ \A c \in Clients : WF_vars(ClientStep(c))

-----------------------------------------------------------------------------
(* Safety properties *)

DiskType == log \in Seq(Event) /\ torn \in 0 .. Len(log) /\ poisoned \in BOOLEAN
CoreType ==
    /\ handle \in BOOLEAN /\ cursor \in Nat /\ nextSeq \in Nat
    /\ fatal \in BOOLEAN /\ transaction \in Clients \cup {Nobody}
    /\ seedDue \in BOOLEAN
QueueType ==
    /\ pending \in Seq(Event) /\ window \in {"none", "open", "due"}
    /\ active \in BOOLEAN /\ paused \in BOOLEAN /\ flushRequested \in BOOLEAN
    /\ closed \in BOOLEAN /\ lastError \in BOOLEAN
WorkerType ==
    /\ workerPc \in {"wait", "write", "settle", "exited"}
    /\ batch \in Seq(Event) /\ written \in {"ok", "failed"}
    /\ workerSlot \in Clients \cup {Nobody} /\ joined \in BOOLEAN
ClientType ==
    /\ up \in BOOLEAN
    /\ pc \in [Clients -> {"idle", "enter", "waiting", "flushed", "discard",
                           "rollback"}]
    /\ call \in [Clients -> {"none", "flush", "durable", "close"}]
    /\ result \in [Clients -> {"ok", "err"}]
    /\ txn \in [Clients -> [grp : 0 .. MaxGroups, start : Nat, end : Nat]]
    /\ mine \in [Clients -> SUBSET Groups]
AuxType ==
    /\ size \in [Groups -> 0 .. MaxGroupSize]
    /\ acked \subseteq Groups /\ rejected \subseteq Groups
    /\ withdrawn \subseteq Groups /\ lost \subseteq Groups
    /\ tears \in Nat

TypeOK ==
    DiskType /\ CoreType /\ QueueType /\ WorkerType /\ ClientType /\ AuxType

(* The batch the writer holds while it is not decided, then the queue:     *)
(* what is still to be made durable, in order.                             *)
InFlight ==
    IF workerPc = "write" \/ (workerPc = "settle" /\ written = "failed")
    THEN batch ELSE <<>>

Queue == InFlight \o pending

(* The log is dense: the event at position i carries seq i (counting from  *)
(* 0), whatever batches, retries, discarded groups, crashes and repairs    *)
(* produced it.  Readers index the log by seq.                             *)
SeqIsPosition == \A i \in DOMAIN log : log[i].seq = i - 1

(* The log is dense, and what is queued always continues it without a gap  *)
(* or a repetition, so the seq-mismatch path of append_batch is never the  *)
(* reason a session stops making progress.                                 *)
QueueContinuesLog ==
    /\ SeqIsPosition
    /\ up /\ handle =>
          /\ cursor = Len(log)
          /\ \A i \in DOMAIN Queue : Queue[i].seq = cursor + i - 1

(* A group reported durable, by append_atomic_durable or by a flush after  *)
(* append_atomic, is whole in the log for ever, across crashes, unknown    *)
(* outcomes and repairs.  Groups a closed writer dropped are left out: a   *)
(* flush that races the close may report them (write_behind.rs:142-151).   *)
AckedDurable == \A g \in acked \ lost : CountOf(g, log) = size[g]

(* An unknown outcome is final for its coordinator: nothing more reaches   *)
(* the log and nobody more is told that a group is durable, the callers    *)
(* included that were already waiting in flush when it happened and the    *)
(* retries of the batch that are still to come.                            *)
FatalIsFinal ==
    [][fatal /\ up =>
          log' = log /\ acked' = acked /\ (up' => fatal')]_vars

(* The journal implements the durable log: durable is what is not in a     *)
(* torn frame; the queue is what the writer holds undecided followed by    *)
(* what waits, and once the handle is gone what repair can still salvage.  *)
(* With Closers = {}, because of what a racing close acknowledges.         *)
GroupSeq(events) == [i \in DOMAIN events |-> events[i].grp]

Contract == INSTANCE DurableLog WITH
    Group     <- Groups,
    Synthetic <- {Closer, Seed},
    MaxSize   <- MaxGroupSize,
    log       <- GroupSeq(SubSeq(log, 1, Len(log) - torn)),
    queue     <- GroupSeq(IF handle THEN Queue
                          ELSE SubSeq(log, Len(log) - torn + 1, Len(log))),
    acked     <- acked

ImplementsDurableLog == Contract!Spec

-----------------------------------------------------------------------------
(* Liveness *)

(* Every flush, durable append and close returns, however often the disk   *)
(* fails: no caller waits for ever on the condition variable or on the     *)
(* join of the writer.  The one thing that may keep a caller waiting is    *)
(* another caller entering flush, which clears the failure it would have   *)
(* reported and starts the next attempt.                                   *)
CallsReturn ==
    \A c \in Clients :
        pc[c] # "idle" ~>
            \/ pc[c] = "idle"
            \/ \E d \in Clients \ {c} : pc[d] = "enter"

(* Whatever is queued becomes durable by itself, also what arrived while a *)
(* batch was being written, unless an append fails: then the error waits   *)
(* for the next flush.                                                     *)
QueueDrains == pending # <<>> ~> (pending = <<>> \/ lastError)

=============================================================================
