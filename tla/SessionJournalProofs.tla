------------------------ MODULE SessionJournalProofs ------------------------
(***************************************************************************)
(* Proofs about SessionJournal, for every set of clients, every bound and  *)
(* every choice of faults.                                                 *)
(***************************************************************************)
EXTENDS SessionJournal, SequenceTheorems, TLAPS

(* The batch whose fate is not decided. *)
Undecided == workerPc = "write" \/ (workerPc = "settle" /\ written = "failed")

(* A write is in flight exactly while the writer holds a batch. *)
WriterControl == active <=> workerPc \in {"write", "settle"}

(* The client of a durable append holds the transaction lock, and the seq  *)
(* behind its group is the next one until it gives the group's range back. *)
ClientControl ==
    \A c \in Clients :
        /\ pc[c] = "idle" => call[c] = "none"
        /\ pc[c] \in {"discard", "rollback"} => call[c] = "durable"
        /\ call[c] = "durable" =>
              /\ transaction = c
              /\ txn[c].grp \in Groups
              /\ txn[c].start <= txn[c].end
              /\ pc[c] # "rollback" => nextSeq = txn[c].end + 1

(* Nothing outlives a process. *)
DownControl ==
    ~up => /\ pending = <<>> /\ workerPc = "wait" /\ ~closed
           /\ \A c \in Clients : pc[c] = "idle" /\ call[c] = "none"

ControlInv == WriterControl /\ ClientControl /\ DownControl

(* nextSeq is n, or will be once a discarded range has been given back. *)
TailAt(n) ==
    /\ (\A c \in Clients : pc[c] # "rollback") => nextSeq = n
    /\ \A c \in Clients : pc[c] = "rollback" => txn[c].start = n

QueueInv ==
    up /\ handle =>
        /\ cursor = Len(log)
        /\ Undecided => \A i \in DOMAIN batch : batch[i].seq = cursor + i - 1
        /\ \A i \in DOMAIN pending :
              pending[i].seq = cursor + Len(InFlight) + i - 1
        /\ ~closed => TailAt(cursor + Len(InFlight) + Len(pending))

IInv == TypeOK /\ ControlInv /\ SeqIsPosition /\ QueueInv

-----------------------------------------------------------------------------
(* Sequences of events *)

(* The events of a group are well typed and numbered from start. *)
LEMMA GroupEventsProperties ==
    ASSUME NEW g \in 0 .. MaxGroups + 1, NEW start \in Nat, NEW n \in Nat
    PROVE  /\ GroupEvents(g, start, n) \in Seq(Event)
           /\ Len(GroupEvents(g, start, n)) = n
           /\ \A i \in 1 .. n : GroupEvents(g, start, n)[i].seq = start + i - 1
<1> DEFINE e == [i \in 1 .. n |-> [seq |-> start + i - 1, grp |-> g]]
<1>1. e \in [1 .. n -> Event]
  BY DEF Event
<1>2. e \in Seq(Event)
  BY <1>1
<1>3. Len(e) = n
  BY <1>2, LenProperties
<1> QED BY <1>2, <1>3 DEF GroupEvents

(* Concatenating two runs of consecutive seqs gives one run. *)
LEMMA ConcatRuns ==
    ASSUME NEW s \in Seq(Event), NEW t \in Seq(Event), NEW b \in Int,
           \A i \in DOMAIN s : s[i].seq = b + i - 1,
           \A i \in DOMAIN t : t[i].seq = b + Len(s) + i - 1
    PROVE  /\ s \o t \in Seq(Event)
           /\ Len(s \o t) = Len(s) + Len(t)
           /\ \A i \in DOMAIN (s \o t) : (s \o t)[i].seq = b + i - 1
<1>1. /\ s \o t \in Seq(Event) /\ Len(s \o t) = Len(s) + Len(t)
      /\ \A i \in 1 .. Len(s) + Len(t) :
            (s \o t)[i] = IF i <= Len(s) THEN s[i] ELSE t[i - Len(s)]
  BY ConcatProperties
<1>2. /\ Len(s) \in Nat /\ DOMAIN s = 1 .. Len(s)
      /\ Len(t) \in Nat /\ DOMAIN t = 1 .. Len(t)
      /\ DOMAIN (s \o t) = 1 .. Len(s \o t)
  BY <1>1, LenProperties
<1>3. ASSUME NEW i \in 1 .. Len(s) + Len(t)
      PROVE  (s \o t)[i].seq = b + i - 1
  <2>1. CASE i <= Len(s)
    BY <1>1, <1>2, <2>1
  <2>2. CASE i > Len(s)
    <3>1. i - Len(s) \in DOMAIN t
      BY <1>2, <2>2
    <3>2. t[i - Len(s)].seq = b + Len(s) + (i - Len(s)) - 1
      BY <3>1
    <3> QED BY <1>1, <1>2, <2>2, <3>2
  <2> QED BY <1>2, <2>1, <2>2
<1> QED BY <1>1, <1>2, <1>3

(* A prefix of a run of consecutive seqs is one. *)
LEMMA PrefixOfRun ==
    ASSUME NEW s \in Seq(Event), NEW b \in Int, NEW k \in 0 .. Len(s),
           \A i \in DOMAIN s : s[i].seq = b + i - 1
    PROVE  /\ SubSeq(s, 1, k) \in Seq(Event)
           /\ Len(SubSeq(s, 1, k)) = k
           /\ \A i \in DOMAIN SubSeq(s, 1, k) :
                 SubSeq(s, 1, k)[i].seq = b + i - 1
<1>1. Len(s) \in Nat /\ DOMAIN s = 1 .. Len(s) /\ \A i \in 1 .. k : s[i] \in Event
  BY LenProperties, ElementOfSeq
<1>2. /\ SubSeq(s, 1, k) \in Seq(Event)
      /\ Len(SubSeq(s, 1, k)) = k
      /\ \A i \in 1 .. k : SubSeq(s, 1, k)[i] = s[i]
  BY <1>1, SubSeqProperties
<1>3. DOMAIN SubSeq(s, 1, k) = 1 .. k
  BY <1>2, LenProperties
<1> QED BY <1>1, <1>2, <1>3

-----------------------------------------------------------------------------
LEMMA InitInvariant == Init => IInv
<1> SUFFICES ASSUME Init PROVE IInv
  OBVIOUS
<1>1. <<>> \in Seq(Event) /\ Len(<<>>) = 0 /\ DOMAIN <<>> = {}
  BY EmptySeq
<1>2. NoTxn \in [grp : 0 .. MaxGroups, start : Nat, end : Nat]
  BY BoundsAssumption DEF NoTxn
<1>3. TypeOK
  <2>0. DiskType
    <3>1. torn \in 0 .. Len(log)
      BY <1>1 DEF Init
    <3> QED BY <1>1, <3>1 DEF Init, DiskType
  <2>1. CoreType /\ QueueType /\ WorkerType
    BY <1>1 DEF Init, CoreType, QueueType, WorkerType
  <2>2. ClientType
    BY <1>2 DEF Init, ClientType
  <2>3. AuxType
    <3>1. 0 \in 0 .. MaxGroupSize
      BY BoundsAssumption
    <3>2. size \in [Groups -> 0 .. MaxGroupSize]
      BY <3>1 DEF Init
    <3> QED BY <3>2 DEF Init, AuxType
  <2> QED BY <2>0, <2>1, <2>2, <2>3 DEF TypeOK
<1>4. ControlInv
  BY DEF Init, ControlInv, WriterControl, ClientControl, DownControl
<1>5. SeqIsPosition
  BY <1>1 DEF Init, SeqIsPosition
<1>6. QueueInv
  BY <1>1 DEF Init, QueueInv, Undecided, InFlight, TailAt
<1> QED BY <1>3, <1>4, <1>5, <1>6 DEF IInv

-----------------------------------------------------------------------------
(* A part of the state that a step leaves alone keeps its type. *)
LEMMA UnchangedParts ==
    /\ DiskType /\ UNCHANGED diskVars => DiskType'
    /\ CoreType /\ UNCHANGED coreVars => CoreType'
    /\ QueueType /\ UNCHANGED queueVars => QueueType'
    /\ WorkerType /\ UNCHANGED workerVars => WorkerType'
    /\ ClientType /\ UNCHANGED clientVars => ClientType'
    /\ AuxType /\ UNCHANGED auxVars => AuxType'
BY DEF DiskType, CoreType, QueueType, WorkerType, ClientType, AuxType,
       diskVars, coreVars, queueVars, workerVars, clientVars, auxVars

(* Queue admission of a well-formed group. *)
LEMMA EnqueueTypes ==
    ASSUME QueueType, CoreType, NEW g \in 0 .. MaxGroups + 1,
           NEW n \in 1 .. MaxGroupSize, EnqueueGroup(g, n)
    PROVE  QueueType' /\ nextSeq' \in Nat
<1>1. nextSeq \in Nat /\ pending \in Seq(Event) /\ n \in Nat
  BY BoundsAssumption DEF QueueType, CoreType
<1>2. GroupEvents(g, nextSeq, n) \in Seq(Event)
  BY <1>1, GroupEventsProperties
<1>3. pending' \in Seq(Event)
  BY <1>1, <1>2, ConcatProperties DEF EnqueueGroup, Enqueue
<1>4. QueueType'
  BY <1>3 DEF QueueType, EnqueueGroup, Enqueue
<1>5. nextSeq' \in Nat
  BY <1>1 DEF EnqueueGroup
<1> QED BY <1>4, <1>5

-----------------------------------------------------------------------------
(* The disk *)

(* t continues the log. *)
Continues(t) ==
    t \in Seq(Event) /\ \A i \in DOMAIN t : t[i].seq = Len(log) + i - 1

Dense(s) == s \in Seq(Event) /\ \A i \in DOMAIN s : s[i].seq = i - 1

LEMMA RemnantsContinue ==
    ASSUME batch \in Seq(Event), Contiguous, cursor = Len(log),
           NEW r \in Remnants
    PROVE  Continues(r)
<1>1. Len(batch) \in Nat
  BY LenProperties
<1>2. \A k \in (IF log = <<>> THEN {0, Len(batch)} ELSE 0 .. Len(batch)) :
         k \in 0 .. Len(batch)
  BY <1>1
<1>3. PICK k \in 0 .. Len(batch) : r = SubSeq(batch, 1, k)
  BY <1>2 DEF Remnants
<1>4. \A i \in DOMAIN batch : batch[i].seq = cursor + i - 1
  BY DEF Contiguous
<1> DEFINE b == cursor
<1>5. CASE cursor \in Int
  BY <1>3, <1>4, <1>5, PrefixOfRun DEF Continues
<1> QED BY <1>5

LEMMA ClosingsContinue ==
    ASSUME log \in Seq(Event), NEW closers \in Closings
    PROVE  Continues(closers)
<1>1. closers = <<>> \/ closers = GroupEvents(Closer, Len(log), 1)
  BY DEF Closings
<1>2. CASE closers = <<>>
  <2>1. closers \in Seq(Event) /\ DOMAIN closers = {}
    BY <1>2, EmptySeq
  <2> QED BY <2>1 DEF Continues
<1>3. CASE closers = GroupEvents(Closer, Len(log), 1)
  <2> DEFINE n == 1
  <2>1. n \in Nat /\ Closer \in 0 .. MaxGroups + 1 /\ Len(log) \in Nat
    BY LenProperties, BoundsAssumption DEF Closer
  <2>2. closers = GroupEvents(Closer, Len(log), n)
    BY <1>3
  <2> HIDE DEF n
  <2>3. /\ closers \in Seq(Event) /\ Len(closers) = n
        /\ \A i \in 1 .. n : closers[i].seq = Len(log) + i - 1
    BY <2>1, <2>2, GroupEventsProperties
  <2>4. DOMAIN closers = 1 .. n
    BY <2>3, LenProperties
  <2> QED BY <2>3, <2>4 DEF Continues
<1> QED BY <1>1, <1>2, <1>3

(* A dense log stays dense when something that continues it is appended,    *)
(* and when it is cut.                                                     *)
LEMMA DenseExtends ==
    ASSUME Dense(log), NEW t, Continues(t)
    PROVE  Dense(log \o t) /\ Len(log \o t) = Len(log) + Len(t)
<1> DEFINE z == 0
<1>1. z = 0 /\ z \in Int
  OBVIOUS
<1> HIDE DEF z
<1>2. /\ log \in Seq(Event) /\ t \in Seq(Event)
      /\ Len(log) \in Nat /\ DOMAIN log = 1 .. Len(log)
      /\ Len(t) \in Nat /\ DOMAIN t = 1 .. Len(t)
  BY LenProperties DEF Dense, Continues
<1>3. \A i \in DOMAIN log : log[i].seq = z + i - 1
  BY <1>1, <1>2 DEF Dense
<1>4. \A i \in DOMAIN t : t[i].seq = z + Len(log) + i - 1
  BY <1>1, <1>2 DEF Continues
<1>5. /\ log \o t \in Seq(Event) /\ Len(log \o t) = Len(log) + Len(t)
      /\ \A i \in DOMAIN (log \o t) : (log \o t)[i].seq = z + i - 1
  BY <1>1, <1>2, <1>3, <1>4, ConcatRuns
<1>6. DOMAIN (log \o t) = 1 .. Len(log \o t) /\ Len(log \o t) \in Nat
  BY <1>5, LenProperties
<1> QED BY <1>1, <1>5, <1>6 DEF Dense

LEMMA DenseCut ==
    ASSUME NEW s, Dense(s), NEW k \in 0 .. Len(s)
    PROVE  Dense(SubSeq(s, 1, k)) /\ Len(SubSeq(s, 1, k)) = k
<1> DEFINE z == 0
<1>1. z = 0 /\ z \in Int
  OBVIOUS
<1> HIDE DEF z
<1>2. s \in Seq(Event) /\ DOMAIN s = 1 .. Len(s) /\ Len(s) \in Nat
  BY LenProperties DEF Dense
<1>3. \A i \in DOMAIN s : s[i].seq = z + i - 1
  BY <1>1, <1>2 DEF Dense
<1> DEFINE c == SubSeq(s, 1, k)
<1>4. /\ c \in Seq(Event) /\ Len(c) = k
      /\ \A i \in DOMAIN c : c[i].seq = z + i - 1
  BY <1>1, <1>2, <1>3, PrefixOfRun
<1>5. DOMAIN c = 1 .. k
  BY <1>4, LenProperties
<1>6. \A i \in DOMAIN c : c[i].seq = i - 1
  BY <1>1, <1>4, <1>5
<1> QED BY <1>4, <1>6 DEF Dense

(* The log stays dense, and its torn tail a part of it: a batch that is     *)
(* written continues the cursor, and the cursor is the end of the log.     *)
LEMMA DiskStep == IInv /\ [Next]_vars => DiskType' /\ SeqIsPosition'
<1> SUFFICES ASSUME IInv, [Next]_vars PROVE DiskType' /\ SeqIsPosition'
  OBVIOUS
<1>p. /\ Dense(log) /\ batch \in Seq(Event) /\ torn \in 0 .. Len(log)
      /\ poisoned \in BOOLEAN
  BY DEF IInv, TypeOK, DiskType, WorkerType, SeqIsPosition, Dense
<1>l. Len(log) \in Nat /\ Len(batch) \in Nat
  BY <1>p, LenProperties DEF Dense
<1>q. up /\ handle => cursor = Len(log)
  BY DEF IInv, QueueInv
<1>g. ASSUME Dense(log'), torn' \in 0 .. Len(log'), poisoned' \in BOOLEAN
      PROVE  DiskType' /\ SeqIsPosition'
  BY <1>g DEF DiskType, SeqIsPosition, Dense
<1>c. ASSUME NEW t, Continues(t), log' = log \o t,
             torn' = 0 \/ torn' = Len(t), poisoned' \in BOOLEAN
      PROVE  DiskType' /\ SeqIsPosition'
  <2>1. Dense(log') /\ Len(log') = Len(log) + Len(t) /\ Len(t) \in Nat
    BY <1>c, <1>p, DenseExtends, LenProperties DEF Continues
  <2>2. torn' \in 0 .. Len(log')
    BY <1>c, <1>l, <2>1
  <2> QED BY <1>c, <1>g, <2>1, <2>2
<1>r. ASSUME up, handle, Contiguous, NEW r \in Remnants, Interrupted(r),
             poisoned' \in BOOLEAN
      PROVE  DiskType' /\ SeqIsPosition'
  <2>1. Continues(r)
    BY <1>p, <1>q, <1>r, RemnantsContinue
  <2>2. log' = log \o r /\ (torn' = 0 \/ torn' = Len(r))
    BY <1>r DEF Interrupted
  <2> QED BY <1>c, <1>r, <2>1, <2>2
<1>u. ASSUME UNCHANGED <<log, torn>>, poisoned' \in BOOLEAN
      PROVE  DiskType' /\ SeqIsPosition'
  BY <1>u, <1>p, <1>g
<1>1. CASE WriteCommits
  <2>1. log' = log \o batch /\ up /\ handle /\ Contiguous
    BY <1>1 DEF WriteCommits, CanAppend
  <2>2. Continues(batch)
    BY <1>p, <1>q, <2>1 DEF Contiguous, Continues
  <2>3. Dense(log') /\ Len(log') = Len(log) + Len(batch)
    BY <1>p, <2>1, <2>2, DenseExtends
  <2>4. torn' = torn /\ poisoned' = poisoned
    BY <1>1 DEF WriteCommits
  <2>5. torn' \in 0 .. Len(log')
    BY <1>p, <1>l, <2>3, <2>4
  <2> QED BY <1>g, <1>p, <2>3, <2>4, <2>5
<1>2. CASE WriteUnknown
  <2>1. poisoned' \in BOOLEAN
    BY <1>2 DEF WriteUnknown
  <2>2. CASE poisoned
    BY <1>2, <1>u, <2>1, <2>2 DEF WriteUnknown
  <2>3. CASE ~poisoned
    BY <1>2, <1>r, <2>1, <2>3 DEF WriteUnknown
  <2> QED BY <2>2, <2>3
<1>3. CASE Crash
  <2>1. poisoned' \in BOOLEAN
    BY <1>3 DEF Crash
  <2>2. CASE workerPc = "write" /\ CanAppend
    BY <1>3, <1>r, <2>1, <2>2 DEF Crash, CanAppend
  <2>3. CASE ~(workerPc = "write" /\ CanAppend)
    BY <1>3, <1>u, <2>1, <2>3 DEF Crash
  <2> QED BY <2>2, <2>3
<1>4. CASE LoadRepair \/ Reopen
  <2>1. PICK closers \in Closings : log' = log \o closers /\ torn' = 0
    BY <1>4 DEF LoadRepair, Reopen, Repaired
  <2>2. poisoned' \in BOOLEAN
    BY <1>4, <1>p DEF LoadRepair, Reopen
  <2>3. Continues(closers)
    BY <1>p, ClosingsContinue DEF Dense
  <2> QED BY <1>c, <2>1, <2>2, <2>3
<1>5. CASE RepairInterrupted
  <2>0. PICK closers \in Closings :
           \E k \in Len(log) - torn .. Len(log \o closers) :
              /\ log' = SubSeq(log \o closers, 1, k)
              /\ torn' \in {0, k - (Len(log) - torn)}
    BY <1>5 DEF RepairInterrupted
  <2>1. PICK k \in Len(log) - torn .. Len(log \o closers) :
           /\ log' = SubSeq(log \o closers, 1, k)
           /\ torn' \in {0, k - (Len(log) - torn)}
    BY <2>0
  <2>2. poisoned' \in BOOLEAN
    BY <1>5, <1>p DEF RepairInterrupted
  <2>3. /\ Dense(log \o closers)
        /\ Len(log \o closers) = Len(log) + Len(closers) /\ Len(closers) \in Nat
    BY <1>p, ClosingsContinue, DenseExtends, LenProperties DEF Dense, Continues
  <2>4. k \in 0 .. Len(log \o closers)
    BY <1>p, <1>l, <2>1, <2>3
  <2>5. Dense(log') /\ Len(log') = k
    BY <2>1, <2>3, <2>4, DenseCut
  <2>6. torn' \in 0 .. Len(log')
    BY <1>p, <1>l, <2>1, <2>3, <2>4, <2>5
  <2> QED BY <1>g, <2>2, <2>5, <2>6
<1>6. CASE \E c \in Clients : ClientCall(c) \/ ClientStep(c)
  <2>1. UNCHANGED <<log, torn, poisoned>>
    BY <1>6 DEF ClientCall, ClientStep, diskVars, AppendAtomic, FlushStart,
       DurableStart, CloseStart, CloseAgain, FlushEnter, FlushWake,
       FlushReturn, DurableCommitted, DurableFailed, DiscardTail,
       DiscardRefused, DurableRollback, CloseJoin
  <2> QED BY <1>p, <1>u, <2>1
<1>7. CASE \/ EnqueueSeed \/ WorkerTake \/ WriteNotCommitted
           \/ SettleCommitted \/ SettleRestored \/ SettleDropped \/ WorkerExit
           \/ WindowExpires \/ Release \/ UNCHANGED vars
  <2>1. UNCHANGED <<log, torn, poisoned>>
    BY <1>7 DEF vars, diskVars, EnqueueSeed, WorkerTake, WriteNotCommitted,
       SettleCommitted, SettleRestored, SettleDropped, WorkerExit,
       WindowExpires, Release
  <2> QED BY <1>p, <1>u, <2>1
<1> QED
  BY <1>1, <1>2, <1>3, <1>4, <1>5, <1>6, <1>7 DEF Next, WorkerStep

-----------------------------------------------------------------------------
(* A client that returns is back in its idle state, which is typed. *)
LEMMA ReturnTyped ==
    ASSUME ClientType, NEW c \in Clients, Return(c), up' = up,
           mine' \in [Clients -> SUBSET Groups]
    PROVE  ClientType'
<1>1. pc' \in [Clients -> {"idle", "enter", "waiting", "flushed", "discard",
                           "rollback"}]
  BY DEF ClientType, Return
<1>2. call' \in [Clients -> {"none", "flush", "durable", "close"}]
  BY DEF ClientType, Return
<1>3. result' \in [Clients -> {"ok", "err"}]
  BY DEF ClientType, Return
<1>4. txn' \in [Clients -> [grp : 0 .. MaxGroups, start : Nat, end : Nat]]
  <2>1. NoTxn \in [grp : 0 .. MaxGroups, start : Nat, end : Nat]
    BY BoundsAssumption DEF NoTxn
  <2> QED BY <2>1 DEF ClientType, Return
<1>5. up' \in BOOLEAN
  BY DEF ClientType
<1> QED BY <1>1, <1>2, <1>3, <1>4, <1>5 DEF ClientType

(* Every step keeps every variable in its domain, one action at a time. *)
LEMMA TypeStep == IInv /\ [Next]_vars => TypeOK'
<1> SUFFICES ASSUME IInv, [Next]_vars PROVE TypeOK'
  OBVIOUS
<1> USE UnchangedParts
<1>p. DiskType /\ CoreType /\ QueueType /\ WorkerType /\ ClientType /\ AuxType
  BY DEF IInv, TypeOK
<1>k. DiskType'
  BY DiskStep
<1>t. NoTxn \in [grp : 0 .. MaxGroups, start : Nat, end : Nat]
  BY BoundsAssumption DEF NoTxn
<1>e. <<>> \in Seq(Event)
  BY EmptySeq
<1>d. \A c \in Clients : call[c] = "durable" => txn[c].grp \in Groups
  BY DEF IInv, ControlInv, ClientControl
<1>i. \A c \in Clients : pc[c] \in {"discard", "rollback"} => call[c] = "durable"
  BY DEF IInv, ControlInv, ClientControl
<1>b. batch \in Seq(Event) /\ pending \in Seq(Event) /\ log \in Seq(Event)
  BY <1>p DEF WorkerType, QueueType, DiskType
<1>c. Len(batch) \in Nat /\ Len(pending) \in Nat /\ Len(log) \in Nat
  BY <1>b, LenProperties
<1>1. ASSUME NEW c \in Clients, AppendAtomic(c) PROVE TypeOK'
  <2>1. CoreType'
    BY <1>1, <1>p, <1>t, <1>e DEF CoreType, AppendAtomic, EnqueueGroup, Enqueue
  <2>2. QueueType'
    <3>1. PICK m \in 1 .. MaxGroupSize : EnqueueGroup(NextGroup, m)
      BY <1>1 DEF AppendAtomic
    <3>2. NextGroup \in 0 .. MaxGroups + 1
      BY <1>1, BoundsAssumption DEF AppendAtomic, Groups
    <3> QED BY <1>p, <3>1, <3>2, EnqueueTypes
  <2>3. ClientType'
    BY <1>1, <1>p, <1>t, <1>e
       DEF ClientType, AppendAtomic, EnqueueGroup, Enqueue
  <2>4. AuxType'
    BY <1>1, <1>p, <1>t, <1>e DEF AuxType, AppendAtomic, EnqueueGroup, Enqueue
  <2> QED
    BY <2>1, <2>2, <2>3, <2>4, <1>1, <1>p
       DEF TypeOK, AppendAtomic, EnqueueGroup, Enqueue,
       diskVars, coreVars, queueVars, workerVars, clientVars, auxVars
<1>2. ASSUME NEW c \in Clients, FlushStart(c) PROVE TypeOK'
  <2>1. ClientType'
    BY <1>2, <1>p, <1>t, <1>e DEF ClientType, FlushStart
  <2> QED
    BY <2>1, <1>2, <1>p DEF TypeOK, FlushStart,
       diskVars, coreVars, queueVars, workerVars, clientVars, auxVars
<1>3. ASSUME NEW c \in Clients, DurableStart(c) PROVE TypeOK'
  <2>1. CoreType'
    BY <1>3, <1>p, <1>t, <1>e DEF CoreType, DurableStart, EnqueueGroup, Enqueue
  <2>2. QueueType'
    <3>1. PICK m \in 1 .. MaxGroupSize : EnqueueGroup(NextGroup, m)
      BY <1>3 DEF DurableStart
    <3>2. NextGroup \in 0 .. MaxGroups + 1
      BY <1>3, BoundsAssumption DEF DurableStart, Groups
    <3> QED BY <1>p, <3>1, <3>2, EnqueueTypes
  <2>3. ClientType'
    <3>1. PICK m \in 1 .. MaxGroupSize :
             txn' = [txn EXCEPT ![c] = [grp |-> NextGroup, start |-> nextSeq,
                                        end |-> nextSeq + m - 1]]
      BY <1>3 DEF DurableStart
    <3>2. [grp |-> NextGroup, start |-> nextSeq, end |-> nextSeq + m - 1]
             \in [grp : 0 .. MaxGroups, start : Nat, end : Nat]
      BY <1>3, <1>p, BoundsAssumption DEF DurableStart, Groups, CoreType
    <3> QED BY <1>3, <1>p, <3>1, <3>2 DEF ClientType, DurableStart
  <2>4. AuxType'
    BY <1>3, <1>p, <1>t, <1>e DEF AuxType, DurableStart, EnqueueGroup, Enqueue
  <2> QED
    BY <2>1, <2>2, <2>3, <2>4, <1>3, <1>p
       DEF TypeOK, DurableStart, EnqueueGroup, Enqueue,
       diskVars, coreVars, queueVars, workerVars, clientVars, auxVars
<1>4. ASSUME NEW c \in Clients, CloseStart(c) PROVE TypeOK'
  <2>1. QueueType'
    BY <1>4, <1>p, <1>t, <1>e DEF QueueType, CloseStart
  <2>2. WorkerType'
    BY <1>4, <1>p, <1>t, <1>e DEF WorkerType, CloseStart
  <2>3. ClientType'
    BY <1>4, <1>p, <1>t, <1>e DEF ClientType, CloseStart
  <2> QED
    BY <2>1, <2>2, <2>3, <1>4, <1>p DEF TypeOK, CloseStart,
       diskVars, coreVars, queueVars, workerVars, clientVars, auxVars
<1>5. ASSUME NEW c \in Clients, CloseAgain(c) PROVE TypeOK'
  <2>1. CoreType'
    BY <1>5, <1>p, <1>t, <1>e DEF CoreType, CloseAgain, CloseCore
  <2>2. AuxType'
    BY <1>5, <1>p, <1>t, <1>e DEF AuxType, CloseAgain, CloseCore
  <2> QED
    BY <2>1, <2>2, <1>5, <1>p DEF TypeOK, CloseAgain, CloseCore,
       diskVars, coreVars, queueVars, workerVars, clientVars, auxVars
<1>6. ASSUME NEW c \in Clients, FlushEnter(c) PROVE TypeOK'
  <2>1. QueueType'
    BY <1>6, <1>p, <1>t, <1>e DEF QueueType, FlushEnter
  <2>2. ClientType'
    BY <1>6, <1>p, <1>t, <1>e DEF ClientType, FlushEnter
  <2> QED
    BY <2>1, <2>2, <1>6, <1>p DEF TypeOK, FlushEnter,
       diskVars, coreVars, queueVars, workerVars, clientVars, auxVars
<1>7. ASSUME NEW c \in Clients, FlushWake(c) PROVE TypeOK'
  <2>1. QueueType'
    BY <1>7, <1>p, <1>t, <1>e DEF QueueType, FlushWake
  <2>2. ClientType'
    BY <1>7, <1>p, <1>t, <1>e DEF ClientType, FlushWake
  <2> QED
    BY <2>1, <2>2, <1>7, <1>p DEF TypeOK, FlushWake,
       diskVars, coreVars, queueVars, workerVars, clientVars, auxVars
<1>8. ASSUME NEW c \in Clients, FlushReturn(c) PROVE TypeOK'
  <2>1. ClientType'
    <3>1. up' = up /\ mine' \in [Clients -> SUBSET Groups] /\ Return(c)
      BY <1>8, <1>p DEF ClientType, FlushReturn
    <3> QED BY <1>p, <3>1, ReturnTyped
  <2>2. AuxType'
    BY <1>8, <1>p DEF AuxType, ClientType, FlushReturn
  <2> QED
    BY <2>1, <2>2, <1>8, <1>p DEF TypeOK, FlushReturn, Return,
       diskVars, coreVars, queueVars, workerVars, clientVars, auxVars
<1>9. ASSUME NEW c \in Clients, DurableCommitted(c) PROVE TypeOK'
  <2>1. CoreType'
    BY <1>9, <1>p, <1>t, <1>e
       DEF CoreType, DurableCommitted, DurableReturn, Return
  <2>2. ClientType'
    <3>1. up' = up /\ mine' = mine /\ Return(c)
      BY <1>9 DEF DurableCommitted, DurableReturn
    <3> QED BY <1>p, <3>1, ReturnTyped DEF ClientType
  <2>3. AuxType'
    BY <1>9, <1>p, <1>d DEF AuxType, DurableCommitted
  <2> QED
    BY <2>1, <2>2, <2>3, <1>9, <1>p
       DEF TypeOK, DurableCommitted, DurableReturn, Return,
       diskVars, coreVars, queueVars, workerVars, clientVars, auxVars
<1>10. ASSUME NEW c \in Clients, DurableFailed(c) PROVE TypeOK'
  <2>1. CoreType'
    BY <1>10, <1>p, <1>t, <1>e
       DEF CoreType, DurableFailed, DurableReturn, Return
  <2>2. ClientType'
    <3>1. up' = up /\ mine' = mine
      BY <1>10 DEF DurableFailed
    <3>2. CASE fatal \/ nextSeq # txn[c].end + 1
      <4>1. Return(c)
        BY <1>10, <3>2 DEF DurableFailed, DurableReturn
      <4> QED BY <1>p, <3>1, <4>1, ReturnTyped DEF ClientType
    <3>3. CASE ~(fatal \/ nextSeq # txn[c].end + 1)
      <4>1. /\ pc' = [pc EXCEPT ![c] = "discard"]
            /\ UNCHANGED <<call, result, txn>>
        BY <1>10, <3>3 DEF DurableFailed
      <4> QED BY <1>p, <3>1, <4>1 DEF ClientType
    <3> QED BY <3>2, <3>3
  <2>3. AuxType'
    BY <1>10, <1>p, <1>d DEF AuxType, DurableFailed
  <2> QED
    BY <2>1, <2>2, <2>3, <1>10, <1>p
       DEF TypeOK, DurableFailed, DurableReturn, Return,
       diskVars, coreVars, queueVars, workerVars, clientVars, auxVars
<1>11. ASSUME NEW c \in Clients, DiscardTail(c) PROVE TypeOK'
  <2>1. QueueType'
    <3>1. PICK k \in 0 .. Len(pending) : pending' = SubSeq(pending, 1, k)
      BY <1>11 DEF DiscardTail
    <3>2. \A i \in 1 .. k : pending[i] \in Event
      BY <1>b, <1>c, ElementOfSeq
    <3>3. pending' \in Seq(Event)
      BY <1>c, <3>1, <3>2, SubSeqProperties
    <3> QED BY <1>11, <1>p, <3>3 DEF QueueType, DiscardTail
  <2>2. ClientType'
    BY <1>11, <1>p, <1>t, <1>e DEF ClientType, DiscardTail
  <2>3. AuxType'
    BY <1>11, <1>p, <1>d, <1>i DEF AuxType, DiscardTail
  <2> QED
    BY <2>1, <2>2, <2>3, <1>11, <1>p DEF TypeOK, DiscardTail,
       diskVars, coreVars, queueVars, workerVars, clientVars, auxVars
<1>12. ASSUME NEW c \in Clients, DiscardRefused(c) PROVE TypeOK'
  <2>1. CoreType'
    BY <1>12, <1>p, <1>t, <1>e
       DEF CoreType, DiscardRefused, DurableReturn, Return
  <2>2. ClientType'
    <3>1. up' = up /\ mine' = mine /\ Return(c)
      BY <1>12 DEF DiscardRefused, DurableReturn
    <3> QED BY <1>p, <3>1, ReturnTyped DEF ClientType
  <2>3. AuxType'
    BY <1>12, <1>p, <1>d, <1>i DEF AuxType, DiscardRefused
  <2> QED
    BY <2>1, <2>2, <2>3, <1>12, <1>p
       DEF TypeOK, DiscardRefused, DurableReturn, Return,
       diskVars, coreVars, queueVars, workerVars, clientVars, auxVars
<1>13. ASSUME NEW c \in Clients, DurableRollback(c) PROVE TypeOK'
  <2>1. CoreType'
    BY <1>13, <1>p
       DEF CoreType, ClientType, DurableRollback, RollbackSeq, DurableReturn
  <2>2. ClientType'
    <3>1. up' = up /\ mine' = mine /\ Return(c)
      BY <1>13 DEF DurableRollback, DurableReturn
    <3> QED BY <1>p, <3>1, ReturnTyped DEF ClientType
  <2>3. AuxType'
    BY <1>13, <1>p, <1>d, <1>i DEF AuxType, DurableRollback
  <2> QED
    BY <2>1, <2>2, <2>3, <1>13, <1>p
       DEF TypeOK, DurableRollback, DurableReturn, Return,
       diskVars, coreVars, queueVars, workerVars, clientVars, auxVars
<1>14. ASSUME NEW c \in Clients, CloseJoin(c) PROVE TypeOK'
  <2>1. CoreType'
    BY <1>14, <1>p, <1>t, <1>e DEF CoreType, CloseJoin, CloseCore, Return
  <2>2. WorkerType'
    BY <1>14, <1>p, <1>t, <1>e DEF WorkerType, CloseJoin, CloseCore, Return
  <2>3. ClientType'
    BY <1>14, <1>p, <1>t, <1>e DEF ClientType, CloseJoin, CloseCore, Return
  <2>4. AuxType'
    BY <1>14, <1>p, <1>t, <1>e DEF AuxType, CloseJoin, CloseCore, Return
  <2> QED
    BY <2>1, <2>2, <2>3, <2>4, <1>14, <1>p
       DEF TypeOK, CloseJoin, CloseCore, Return,
       diskVars, coreVars, queueVars, workerVars, clientVars, auxVars
<1>15. CASE EnqueueSeed
  <2>1. CoreType'
    <3>1. EnqueueGroup(Seed, 1) /\ Seed \in 0 .. MaxGroups + 1
      BY <1>15, BoundsAssumption DEF EnqueueSeed, Seed
    <3>2. nextSeq' \in Nat
      BY <1>p, <3>1, EnqueueTypes, BoundsAssumption
    <3> QED BY <1>15, <1>p, <3>2 DEF CoreType, EnqueueSeed
  <2>2. QueueType'
    <3>1. EnqueueGroup(Seed, 1) /\ Seed \in 0 .. MaxGroups + 1
      BY <1>15, BoundsAssumption DEF EnqueueSeed, Seed
    <3> QED BY <1>p, <3>1, EnqueueTypes, BoundsAssumption
  <2> QED
    BY <2>1, <2>2, <1>15, <1>p DEF TypeOK, EnqueueSeed, EnqueueGroup, Enqueue,
       diskVars, coreVars, queueVars, workerVars, clientVars, auxVars
<1>16. CASE WorkerTake
  <2>1. QueueType'
    BY <1>16, <1>p, <1>t, <1>e DEF QueueType, WorkerTake
  <2>2. WorkerType'
    BY <1>16, <1>p, <1>b DEF WorkerType, WorkerTake
  <2> QED
    BY <2>1, <2>2, <1>16, <1>p DEF TypeOK, WorkerTake,
       diskVars, coreVars, queueVars, workerVars, clientVars, auxVars
<1>17. CASE WriteCommits
  <2>1. DiskType'
    BY <1>k
  <2>2. CoreType'
    BY <1>17, <1>p, <1>c DEF CoreType, WriteCommits, WriteOutcome
  <2>3. WorkerType'
    BY <1>17, <1>p, <1>t, <1>e DEF WorkerType, WriteCommits, WriteOutcome
  <2> QED
    BY <2>1, <2>2, <2>3, <1>17, <1>p DEF TypeOK, WriteCommits, WriteOutcome,
       diskVars, coreVars, queueVars, workerVars, clientVars, auxVars
<1>18. CASE WriteNotCommitted
  <2>1. WorkerType'
    BY <1>18, <1>p, <1>t, <1>e DEF WorkerType, WriteNotCommitted, WriteOutcome
  <2> QED
    BY <2>1, <1>18, <1>p DEF TypeOK, WriteNotCommitted, WriteOutcome,
       diskVars, coreVars, queueVars, workerVars, clientVars, auxVars
<1>19. CASE WriteUnknown
  <2>1. DiskType'
    BY <1>k
  <2>2. CoreType'
    BY <1>19, <1>p, <1>t, <1>e DEF CoreType, WriteUnknown, WriteOutcome
  <2>3. WorkerType'
    BY <1>19, <1>p, <1>t, <1>e DEF WorkerType, WriteUnknown, WriteOutcome
  <2>4. AuxType'
    BY <1>19, <1>p, <1>t, <1>e DEF AuxType, WriteUnknown, WriteOutcome
  <2> QED
    BY <2>1, <2>2, <2>3, <2>4, <1>19, <1>p
       DEF TypeOK, WriteUnknown, WriteOutcome,
       diskVars, coreVars, queueVars, workerVars, clientVars, auxVars
<1>20. CASE SettleCommitted
  <2>1. QueueType'
    BY <1>20, <1>p, <1>t, <1>e DEF QueueType, SettleCommitted, Rearmed
  <2>2. WorkerType'
    BY <1>20, <1>p, <1>t, <1>e DEF WorkerType, SettleCommitted
  <2> QED
    BY <2>1, <2>2, <1>20, <1>p DEF TypeOK, SettleCommitted,
       diskVars, coreVars, queueVars, workerVars, clientVars, auxVars
<1>21. CASE SettleRestored
  <2>1. QueueType'
    <3>1. pending' \in Seq(Event)
      BY <1>21, <1>b, ConcatProperties DEF SettleRestored, Restored
    <3> QED BY <1>21, <1>p, <3>1 DEF QueueType, SettleRestored, Restored
  <2>2. WorkerType'
    BY <1>21, <1>p, <1>t, <1>e DEF WorkerType, SettleRestored
  <2> QED
    BY <2>1, <2>2, <1>21, <1>p DEF TypeOK, SettleRestored,
       diskVars, coreVars, queueVars, workerVars, clientVars, auxVars
<1>22. CASE SettleDropped
  <2>1. QueueType'
    BY <1>22, <1>p, <1>t, <1>e DEF QueueType, SettleDropped
  <2>2. WorkerType'
    BY <1>22, <1>p, <1>t, <1>e DEF WorkerType, SettleDropped
  <2>3. AuxType'
    BY <1>22, <1>p DEF AuxType, SettleDropped, GroupsOf
  <2> QED
    BY <2>1, <2>2, <2>3, <1>22, <1>p DEF TypeOK, SettleDropped,
       diskVars, coreVars, queueVars, workerVars, clientVars, auxVars
<1>23. CASE WorkerExit
  <2>1. WorkerType'
    BY <1>23, <1>p, <1>t, <1>e DEF WorkerType, WorkerExit
  <2> QED
    BY <2>1, <1>23, <1>p DEF TypeOK, WorkerExit,
       diskVars, coreVars, queueVars, workerVars, clientVars, auxVars
<1>24. CASE WindowExpires
  <2>1. QueueType'
    BY <1>24, <1>p, <1>t, <1>e DEF QueueType, WindowExpires
  <2> QED
    BY <2>1, <1>24, <1>p DEF TypeOK, WindowExpires,
       diskVars, coreVars, queueVars, workerVars, clientVars, auxVars
<1>25. CASE Crash
  <2>1. DiskType'
    BY <1>k
  <2>2. CoreType'
    BY <1>25, <1>p, <1>t, <1>e DEF CoreType, Crash, Forget
  <2>3. QueueType'
    BY <1>25, <1>p, <1>t, <1>e DEF QueueType, Crash, Forget
  <2>4. WorkerType'
    BY <1>25, <1>p, <1>t, <1>e DEF WorkerType, Crash, Forget
  <2>5. ClientType'
    BY <1>25, <1>p, <1>t, <1>e DEF ClientType, Crash, Forget
  <2>6. AuxType'
    <3>1. /\ tears' = tears + 1
           /\ UNCHANGED <<size, acked, rejected, withdrawn, lost>>
      BY <1>25 DEF Crash
    <3>2. tears \in Nat /\ tears' \in Nat
      BY <1>p, <3>1 DEF AuxType
    <3> QED BY <1>p, <3>1, <3>2 DEF AuxType
  <2> QED
    BY <2>1, <2>2, <2>3, <2>4, <2>5, <2>6, <1>25, <1>p
       DEF TypeOK, Crash, Forget,
       diskVars, coreVars, queueVars, workerVars, clientVars, auxVars
<1>26. CASE Release
  <2>1. CoreType'
    BY <1>26, <1>p, <1>t, <1>e DEF CoreType, Release, Forget
  <2>2. QueueType'
    BY <1>26, <1>p, <1>t, <1>e DEF QueueType, Release, Forget
  <2>3. WorkerType'
    BY <1>26, <1>p, <1>t, <1>e DEF WorkerType, Release, Forget
  <2>4. ClientType'
    BY <1>26, <1>p, <1>t, <1>e DEF ClientType, Release, Forget
  <2>5. AuxType'
    BY <1>26, <1>p, <1>t, <1>e DEF AuxType, Release, Forget
  <2> QED
    BY <2>1, <2>2, <2>3, <2>4, <2>5, <1>26, <1>p DEF TypeOK, Release, Forget,
       diskVars, coreVars, queueVars, workerVars, clientVars, auxVars
<1>27. CASE LoadRepair
  <2>1. DiskType'
    BY <1>k
  <2> QED
    BY <2>1, <1>27, <1>p DEF TypeOK, LoadRepair,
       diskVars, coreVars, queueVars, workerVars, clientVars, auxVars
<1>28. CASE RepairInterrupted
  <2>1. tears' \in Nat
    BY <1>28, <1>p DEF AuxType, RepairInterrupted
  <2>2. AuxType'
    BY <1>28, <1>p, <2>1 DEF AuxType, RepairInterrupted
  <2> QED
    BY <1>k, <2>2, <1>28, <1>p DEF TypeOK, RepairInterrupted,
       coreVars, queueVars, workerVars, clientVars
<1>29. CASE Reopen
  <2>1. DiskType'
    BY <1>k
  <2>2. CoreType'
    <3>1. Len(log') \in Nat
      BY <2>1, LenProperties DEF DiskType
    <3> QED BY <1>29, <1>p, <3>1 DEF CoreType, Reopen
  <2>3. WorkerType'
    BY <1>29, <1>p, <1>t, <1>e DEF WorkerType, Reopen
  <2>4. ClientType'
    BY <1>29, <1>p, <1>t, <1>e DEF ClientType, Reopen
  <2> QED
    BY <2>1, <2>2, <2>3, <2>4, <1>29, <1>p DEF TypeOK, Reopen,
       diskVars, coreVars, queueVars, workerVars, clientVars, auxVars
<1>30. CASE UNCHANGED vars
  BY <1>30, <1>p DEF TypeOK, vars
<1> QED
  BY <1>1, <1>2, <1>3, <1>4, <1>5, <1>6, <1>7, <1>8, <1>9, <1>10,
     <1>11, <1>12, <1>13, <1>14, <1>15, <1>16, <1>17, <1>18, <1>19, <1>20,
     <1>21, <1>22, <1>23, <1>24, <1>25, <1>26, <1>27, <1>28, <1>29, <1>30
     DEF Next, ClientCall, ClientStep, WorkerStep

-----------------------------------------------------------------------------
LEMMA ControlStep == IInv /\ [Next]_vars => ControlInv'
<1> SUFFICES ASSUME IInv, [Next]_vars PROVE ControlInv'
  OBVIOUS
<1>w. WriterControl
  BY DEF IInv, ControlInv
<1>c. ClientControl
  BY DEF IInv, ControlInv
<1>d. DownControl
  BY DEF IInv, ControlInv
<1>p. ClientType /\ CoreType
  BY DEF IInv, TypeOK
<1>1. ASSUME NEW c \in Clients, AppendAtomic(c) PROVE ControlInv'
  <2>1. WriterControl'
    BY <1>1, <1>w, <1>p DEF WriterControl, AppendAtomic, EnqueueGroup, Enqueue,
       coreVars, queueVars, workerVars, clientVars
  <2>2. ClientControl'
    BY <1>1, <1>c, NobodyAssumption
       DEF ClientControl, AppendAtomic, EnqueueGroup, Enqueue,
       coreVars, queueVars, workerVars, clientVars
  <2>3. DownControl'
    BY <1>1, <1>d, <1>p DEF DownControl, AppendAtomic, EnqueueGroup, Enqueue,
       coreVars, queueVars, workerVars, clientVars
  <2> QED BY <2>1, <2>2, <2>3 DEF ControlInv
<1>2. ASSUME NEW c \in Clients, FlushStart(c) PROVE ControlInv'
  <2>1. WriterControl'
    BY <1>2, <1>w, <1>p DEF WriterControl, FlushStart,
       coreVars, queueVars, workerVars, clientVars
  <2>2. ClientControl'
    BY <1>2, <1>c, <1>p, NobodyAssumption
       DEF ClientControl, ClientType, CoreType, FlushStart,
       coreVars, queueVars, workerVars, clientVars
  <2>3. DownControl'
    BY <1>2, <1>d, <1>p DEF DownControl, FlushStart,
       coreVars, queueVars, workerVars, clientVars
  <2> QED BY <2>1, <2>2, <2>3 DEF ControlInv
<1>3. ASSUME NEW c \in Clients, DurableStart(c) PROVE ControlInv'
  <2>1. WriterControl'
    BY <1>3, <1>w, <1>p DEF WriterControl, DurableStart, EnqueueGroup, Enqueue,
       coreVars, queueVars, workerVars, clientVars
  <2>2. ClientControl'
    BY <1>3, <1>c, <1>p, NobodyAssumption
       DEF ClientControl, ClientType, CoreType, DurableStart, EnqueueGroup,
           Enqueue,
       coreVars, queueVars, workerVars, clientVars
  <2>3. DownControl'
    BY <1>3, <1>d, <1>p DEF DownControl, DurableStart, EnqueueGroup, Enqueue,
       coreVars, queueVars, workerVars, clientVars
  <2> QED BY <2>1, <2>2, <2>3 DEF ControlInv
<1>4. ASSUME NEW c \in Clients, CloseStart(c) PROVE ControlInv'
  <2>1. WriterControl'
    BY <1>4, <1>w, <1>p DEF WriterControl, CloseStart,
       coreVars, queueVars, workerVars, clientVars
  <2>2. ClientControl'
    BY <1>4, <1>c, <1>p, NobodyAssumption
       DEF ClientControl, ClientType, CoreType, CloseStart,
       coreVars, queueVars, workerVars, clientVars
  <2>3. DownControl'
    BY <1>4, <1>d, <1>p DEF DownControl, CloseStart,
       coreVars, queueVars, workerVars, clientVars
  <2> QED BY <2>1, <2>2, <2>3 DEF ControlInv
<1>5. ASSUME NEW c \in Clients, CloseAgain(c) PROVE ControlInv'
  <2>1. WriterControl'
    BY <1>5, <1>w, <1>p DEF WriterControl, CloseAgain, CloseCore,
       coreVars, queueVars, workerVars, clientVars
  <2>2. ClientControl'
    BY <1>5, <1>c, <1>p, NobodyAssumption
       DEF ClientControl, ClientType, CoreType, CloseAgain, CloseCore,
       coreVars, queueVars, workerVars, clientVars
  <2>3. DownControl'
    BY <1>5, <1>d, <1>p DEF DownControl, CloseAgain, CloseCore,
       coreVars, queueVars, workerVars, clientVars
  <2> QED BY <2>1, <2>2, <2>3 DEF ControlInv
<1>6. ASSUME NEW c \in Clients, up, FlushEnter(c) PROVE ControlInv'
  <2>1. WriterControl'
    BY <1>6, <1>w, <1>p DEF WriterControl, FlushEnter,
       coreVars, queueVars, workerVars, clientVars
  <2>2. ClientControl'
    BY <1>6, <1>c, <1>p, NobodyAssumption
       DEF ClientControl, ClientType, CoreType, FlushEnter,
       coreVars, queueVars, workerVars, clientVars
  <2>3. DownControl'
    BY <1>6, <1>d, <1>p DEF DownControl, FlushEnter,
       coreVars, queueVars, workerVars, clientVars
  <2> QED BY <2>1, <2>2, <2>3 DEF ControlInv
<1>7. ASSUME NEW c \in Clients, up, FlushWake(c) PROVE ControlInv'
  <2>1. WriterControl'
    BY <1>7, <1>w, <1>p DEF WriterControl, FlushWake,
       coreVars, queueVars, workerVars, clientVars
  <2>2. ClientControl'
    BY <1>7, <1>c, <1>p, NobodyAssumption
       DEF ClientControl, ClientType, CoreType, FlushWake,
       coreVars, queueVars, workerVars, clientVars
  <2>3. DownControl'
    BY <1>7, <1>d, <1>p DEF DownControl, FlushWake,
       coreVars, queueVars, workerVars, clientVars
  <2> QED BY <2>1, <2>2, <2>3 DEF ControlInv
<1>8. ASSUME NEW c \in Clients, up, FlushReturn(c) PROVE ControlInv'
  <2>1. WriterControl'
    BY <1>8, <1>w, <1>p DEF WriterControl, FlushReturn, Return,
       coreVars, queueVars, workerVars, clientVars
  <2>2. ClientControl'
    BY <1>8, <1>c, <1>p, NobodyAssumption
       DEF ClientControl, ClientType, CoreType, FlushReturn, Return,
       coreVars, queueVars, workerVars, clientVars
  <2>3. DownControl'
    BY <1>8, <1>d, <1>p DEF DownControl, FlushReturn, Return,
       coreVars, queueVars, workerVars, clientVars
  <2> QED BY <2>1, <2>2, <2>3 DEF ControlInv
<1>9. ASSUME NEW c \in Clients, up, DurableCommitted(c) PROVE ControlInv'
  <2>1. WriterControl'
    BY <1>9, <1>w, <1>p
       DEF WriterControl, DurableCommitted, DurableReturn, Return,
       coreVars, queueVars, workerVars, clientVars
  <2>2. ClientControl'
    BY <1>9, <1>c, <1>p, NobodyAssumption
       DEF ClientControl, ClientType, CoreType, DurableCommitted,
           DurableReturn, Return,
       coreVars, queueVars, workerVars, clientVars
  <2>3. DownControl'
    BY <1>9, <1>d, <1>p
       DEF DownControl, DurableCommitted, DurableReturn, Return,
       coreVars, queueVars, workerVars, clientVars
  <2> QED BY <2>1, <2>2, <2>3 DEF ControlInv
<1>10. ASSUME NEW c \in Clients, up, DurableFailed(c) PROVE ControlInv'
  <2>1. WriterControl'
    BY <1>10, <1>w, <1>p
       DEF WriterControl, DurableFailed, DurableReturn, Return,
       coreVars, queueVars, workerVars, clientVars
  <2>2. ClientControl'
    BY <1>10, <1>c, <1>p, NobodyAssumption
       DEF ClientControl, ClientType, CoreType, DurableFailed, DurableReturn,
           Return,
       coreVars, queueVars, workerVars, clientVars
  <2>3. DownControl'
    BY <1>10, <1>d, <1>p DEF DownControl, DurableFailed, DurableReturn, Return,
       coreVars, queueVars, workerVars, clientVars
  <2> QED BY <2>1, <2>2, <2>3 DEF ControlInv
<1>11. ASSUME NEW c \in Clients, up, DiscardTail(c) PROVE ControlInv'
  <2>1. WriterControl'
    BY <1>11, <1>w, <1>p DEF WriterControl, DiscardTail,
       coreVars, queueVars, workerVars, clientVars
  <2>2. ClientControl'
    BY <1>11, <1>c, <1>p, NobodyAssumption
       DEF ClientControl, ClientType, CoreType, DiscardTail,
       coreVars, queueVars, workerVars, clientVars
  <2>3. DownControl'
    BY <1>11, <1>d, <1>p DEF DownControl, DiscardTail,
       coreVars, queueVars, workerVars, clientVars
  <2> QED BY <2>1, <2>2, <2>3 DEF ControlInv
<1>12. ASSUME NEW c \in Clients, up, DiscardRefused(c) PROVE ControlInv'
  <2>1. WriterControl'
    BY <1>12, <1>w, <1>p
       DEF WriterControl, DiscardRefused, DurableReturn, Return,
       coreVars, queueVars, workerVars, clientVars
  <2>2. ClientControl'
    BY <1>12, <1>c, <1>p, NobodyAssumption
       DEF ClientControl, ClientType, CoreType, DiscardRefused, DurableReturn,
           Return,
       coreVars, queueVars, workerVars, clientVars
  <2>3. DownControl'
    BY <1>12, <1>d, <1>p DEF DownControl, DiscardRefused, DurableReturn, Return,
       coreVars, queueVars, workerVars, clientVars
  <2> QED BY <2>1, <2>2, <2>3 DEF ControlInv
<1>13. ASSUME NEW c \in Clients, up, DurableRollback(c) PROVE ControlInv'
  <2>1. WriterControl'
    BY <1>13, <1>w, <1>p
       DEF WriterControl, DurableRollback, DurableReturn, Return,
       coreVars, queueVars, workerVars, clientVars
  <2>2. ClientControl'
    BY <1>13, <1>c, <1>p, NobodyAssumption
       DEF ClientControl, ClientType, CoreType, DurableRollback,
           DurableReturn, Return,
       coreVars, queueVars, workerVars, clientVars
  <2>3. DownControl'
    BY <1>13, <1>d, <1>p
       DEF DownControl, DurableRollback, DurableReturn, Return,
       coreVars, queueVars, workerVars, clientVars
  <2> QED BY <2>1, <2>2, <2>3 DEF ControlInv
<1>14. ASSUME NEW c \in Clients, up, CloseJoin(c) PROVE ControlInv'
  <2>1. WriterControl'
    BY <1>14, <1>w, <1>p DEF WriterControl, CloseJoin, CloseCore, Return,
       coreVars, queueVars, workerVars, clientVars
  <2>2. ClientControl'
    BY <1>14, <1>c, <1>p, NobodyAssumption
       DEF ClientControl, ClientType, CoreType, CloseJoin, CloseCore, Return,
       coreVars, queueVars, workerVars, clientVars
  <2>3. DownControl'
    BY <1>14, <1>d, <1>p DEF DownControl, CloseJoin, CloseCore, Return,
       coreVars, queueVars, workerVars, clientVars
  <2> QED BY <2>1, <2>2, <2>3 DEF ControlInv
<1>15. CASE EnqueueSeed
  <2>1. WriterControl'
    BY <1>15, <1>w, <1>p DEF WriterControl, EnqueueSeed, EnqueueGroup, Enqueue,
       coreVars, queueVars, workerVars, clientVars
  <2>2. ClientControl'
    BY <1>15, <1>c, NobodyAssumption
       DEF ClientControl, EnqueueSeed, EnqueueGroup, Enqueue,
       coreVars, queueVars, workerVars, clientVars
  <2>3. DownControl'
    BY <1>15, <1>d, <1>p DEF DownControl, EnqueueSeed, EnqueueGroup, Enqueue,
       coreVars, queueVars, workerVars, clientVars
  <2> QED BY <2>1, <2>2, <2>3 DEF ControlInv
<1>16. CASE WorkerTake
  <2>1. WriterControl'
    BY <1>16, <1>w, <1>p DEF WriterControl, WorkerTake,
       coreVars, queueVars, workerVars, clientVars
  <2>2. ClientControl'
    BY <1>16, <1>c, <1>p, NobodyAssumption
       DEF ClientControl, ClientType, CoreType, WorkerTake,
       coreVars, queueVars, workerVars, clientVars
  <2>3. DownControl'
    BY <1>16, <1>d, <1>p DEF DownControl, WorkerTake,
       coreVars, queueVars, workerVars, clientVars
  <2> QED BY <2>1, <2>2, <2>3 DEF ControlInv
<1>17. CASE WriteCommits
  <2>1. WriterControl'
    BY <1>17, <1>w, <1>p DEF WriterControl, WriteCommits, WriteOutcome,
       coreVars, queueVars, workerVars, clientVars
  <2>2. ClientControl'
    BY <1>17, <1>c, <1>p, NobodyAssumption
       DEF ClientControl, ClientType, CoreType, WriteCommits, WriteOutcome,
       coreVars, queueVars, workerVars, clientVars
  <2>3. DownControl'
    BY <1>17, <1>d, <1>p DEF DownControl, WriteCommits, WriteOutcome,
       coreVars, queueVars, workerVars, clientVars
  <2> QED BY <2>1, <2>2, <2>3 DEF ControlInv
<1>18. CASE WriteNotCommitted
  <2>1. WriterControl'
    BY <1>18, <1>w, <1>p DEF WriterControl, WriteNotCommitted, WriteOutcome,
       coreVars, queueVars, workerVars, clientVars
  <2>2. ClientControl'
    BY <1>18, <1>c, <1>p, NobodyAssumption
       DEF ClientControl, ClientType, CoreType, WriteNotCommitted,
           WriteOutcome,
       coreVars, queueVars, workerVars, clientVars
  <2>3. DownControl'
    BY <1>18, <1>d, <1>p DEF DownControl, WriteNotCommitted, WriteOutcome,
       coreVars, queueVars, workerVars, clientVars
  <2> QED BY <2>1, <2>2, <2>3 DEF ControlInv
<1>19. CASE WriteUnknown
  <2>1. WriterControl'
    BY <1>19, <1>w, <1>p DEF WriterControl, WriteUnknown, WriteOutcome,
       coreVars, queueVars, workerVars, clientVars
  <2>2. ClientControl'
    BY <1>19, <1>c, <1>p, NobodyAssumption
       DEF ClientControl, ClientType, CoreType, WriteUnknown, WriteOutcome,
       coreVars, queueVars, workerVars, clientVars
  <2>3. DownControl'
    BY <1>19, <1>d, <1>p DEF DownControl, WriteUnknown, WriteOutcome,
       coreVars, queueVars, workerVars, clientVars
  <2> QED BY <2>1, <2>2, <2>3 DEF ControlInv
<1>20. CASE SettleCommitted
  <2>1. WriterControl'
    BY <1>20, <1>w, <1>p DEF WriterControl, SettleCommitted,
       coreVars, queueVars, workerVars, clientVars
  <2>2. ClientControl'
    BY <1>20, <1>c, <1>p, NobodyAssumption
       DEF ClientControl, ClientType, CoreType, SettleCommitted,
       coreVars, queueVars, workerVars, clientVars
  <2>3. DownControl'
    BY <1>20, <1>d, <1>p DEF DownControl, SettleCommitted,
       coreVars, queueVars, workerVars, clientVars
  <2> QED BY <2>1, <2>2, <2>3 DEF ControlInv
<1>21. CASE SettleRestored
  <2>1. WriterControl'
    BY <1>21, <1>w, <1>p DEF WriterControl, SettleRestored,
       coreVars, queueVars, workerVars, clientVars
  <2>2. ClientControl'
    BY <1>21, <1>c, <1>p, NobodyAssumption
       DEF ClientControl, ClientType, CoreType, SettleRestored,
       coreVars, queueVars, workerVars, clientVars
  <2>3. DownControl'
    BY <1>21, <1>d, <1>p DEF DownControl, SettleRestored,
       coreVars, queueVars, workerVars, clientVars
  <2> QED BY <2>1, <2>2, <2>3 DEF ControlInv
<1>22. CASE SettleDropped
  <2>1. WriterControl'
    BY <1>22, <1>w, <1>p DEF WriterControl, SettleDropped,
       coreVars, queueVars, workerVars, clientVars
  <2>2. ClientControl'
    BY <1>22, <1>c, <1>p, NobodyAssumption
       DEF ClientControl, ClientType, CoreType, SettleDropped,
       coreVars, queueVars, workerVars, clientVars
  <2>3. DownControl'
    BY <1>22, <1>d, <1>p DEF DownControl, SettleDropped,
       coreVars, queueVars, workerVars, clientVars
  <2> QED BY <2>1, <2>2, <2>3 DEF ControlInv
<1>23. CASE WorkerExit
  <2>1. WriterControl'
    BY <1>23, <1>w, <1>p DEF WriterControl, WorkerExit,
       coreVars, queueVars, workerVars, clientVars
  <2>2. ClientControl'
    BY <1>23, <1>c, <1>p, NobodyAssumption
       DEF ClientControl, ClientType, CoreType, WorkerExit,
       coreVars, queueVars, workerVars, clientVars
  <2>3. DownControl'
    BY <1>23, <1>d, <1>p DEF DownControl, WorkerExit,
       coreVars, queueVars, workerVars, clientVars
  <2> QED BY <2>1, <2>2, <2>3 DEF ControlInv
<1>24. CASE WindowExpires
  <2>1. WriterControl'
    BY <1>24, <1>w, <1>p DEF WriterControl, WindowExpires,
       coreVars, queueVars, workerVars, clientVars
  <2>2. ClientControl'
    BY <1>24, <1>c, <1>p, NobodyAssumption
       DEF ClientControl, ClientType, CoreType, WindowExpires,
       coreVars, queueVars, workerVars, clientVars
  <2>3. DownControl'
    BY <1>24, <1>d, <1>p DEF DownControl, WindowExpires,
       coreVars, queueVars, workerVars, clientVars
  <2> QED BY <2>1, <2>2, <2>3 DEF ControlInv
<1>25. CASE Crash
  <2>1. WriterControl'
    BY <1>25, <1>w, <1>p DEF WriterControl, Crash, Forget,
       coreVars, queueVars, workerVars, clientVars
  <2>2. ClientControl'
    BY <1>25, <1>c, <1>p, NobodyAssumption
       DEF ClientControl, ClientType, CoreType, Crash, Forget,
       coreVars, queueVars, workerVars, clientVars
  <2>3. DownControl'
    BY <1>25, <1>d, <1>p DEF DownControl, Crash, Forget,
       coreVars, queueVars, workerVars, clientVars
  <2> QED BY <2>1, <2>2, <2>3 DEF ControlInv
<1>26. CASE Release
  <2>1. WriterControl'
    BY <1>26, <1>w, <1>p DEF WriterControl, Release, Forget,
       coreVars, queueVars, workerVars, clientVars
  <2>2. ClientControl'
    BY <1>26, <1>c, <1>p, NobodyAssumption
       DEF ClientControl, ClientType, CoreType, Release, Forget,
       coreVars, queueVars, workerVars, clientVars
  <2>3. DownControl'
    BY <1>26, <1>d, <1>p DEF DownControl, Release, Forget,
       coreVars, queueVars, workerVars, clientVars
  <2> QED BY <2>1, <2>2, <2>3 DEF ControlInv
<1>27. CASE LoadRepair
  <2>1. WriterControl'
    BY <1>27, <1>w, <1>p DEF WriterControl, LoadRepair,
       coreVars, queueVars, workerVars, clientVars
  <2>2. ClientControl'
    BY <1>27, <1>c, <1>p, NobodyAssumption
       DEF ClientControl, ClientType, CoreType, LoadRepair,
       coreVars, queueVars, workerVars, clientVars
  <2>3. DownControl'
    BY <1>27, <1>d, <1>p DEF DownControl, LoadRepair,
       coreVars, queueVars, workerVars, clientVars
  <2> QED BY <2>1, <2>2, <2>3 DEF ControlInv
<1>28. CASE RepairInterrupted
  BY <1>28, <1>w, <1>c, <1>d
     DEF ControlInv, WriterControl, ClientControl, DownControl,
         RepairInterrupted, coreVars, queueVars, workerVars, clientVars
<1>29. CASE Reopen
  <2>1. WriterControl'
    BY <1>29, <1>w, <1>p DEF WriterControl, Reopen,
       coreVars, queueVars, workerVars, clientVars
  <2>2. ClientControl'
    BY <1>29, <1>c, <1>d, <1>p, NobodyAssumption
       DEF ClientControl, DownControl, ClientType, CoreType, Reopen,
       coreVars, queueVars, workerVars, clientVars
  <2>3. DownControl'
    BY <1>29, <1>d, <1>p DEF DownControl, Reopen,
       coreVars, queueVars, workerVars, clientVars
  <2> QED BY <2>1, <2>2, <2>3 DEF ControlInv
<1>30. CASE UNCHANGED vars
  BY <1>30, <1>w, <1>c, <1>d
     DEF ControlInv, WriterControl, ClientControl, DownControl, vars,
     coreVars, queueVars, workerVars, clientVars
<1> QED
  BY <1>1, <1>2, <1>3, <1>4, <1>5, <1>6, <1>7, <1>8, <1>9, <1>10,
     <1>11, <1>12, <1>13, <1>14, <1>15, <1>16, <1>17, <1>18, <1>19, <1>20,
     <1>21, <1>22, <1>23, <1>24, <1>25, <1>26, <1>27, <1>28, <1>29, <1>30
     DEF Next, ClientCall, ClientStep, WorkerStep

-----------------------------------------------------------------------------
(* A step that touches neither the log, the cursor, the queue nor the tail  *)
(* keeps the queue where it was.                                           *)
LEMMA QueueFrame ==
    ASSUME QueueInv, up' /\ handle' => up /\ handle,
           UNCHANGED <<log, cursor, workerPc, batch, written, pending>>,
           ~closed' => ~closed /\ \A n \in Nat : TailAt(n) => TailAt(n)',
           TypeOK
    PROVE  QueueInv'
<1>1. cursor \in Nat /\ Len(InFlight) \in Nat /\ Len(pending) \in Nat
  BY EmptySeq, LenProperties
     DEF TypeOK, CoreType, QueueType, WorkerType, InFlight
<1>2. InFlight' = InFlight /\ Undecided' = Undecided
  BY DEF InFlight, Undecided
<1>3. cursor + Len(InFlight) + Len(pending) \in Nat
  BY <1>1
<1> DEFINE n == cursor + Len(InFlight) + Len(pending)
<1>4. n' = n
  BY <1>2
<1>5. SUFFICES ASSUME up', handle'
               PROVE  /\ cursor = Len(log)
                      /\ Undecided =>
                            \A i \in DOMAIN batch : batch[i].seq = cursor + i - 1
                      /\ \A i \in DOMAIN pending :
                            pending[i].seq = cursor + Len(InFlight) + i - 1
                      /\ ~closed' => TailAt(n)'
  BY <1>2, <1>4 DEF QueueInv
<1>6. ~closed' => TailAt(n)
  BY <1>5 DEF QueueInv
<1> QED BY <1>3, <1>4, <1>5, <1>6 DEF QueueInv

(* A group admitted at the tail extends the run of queued seqs. *)
LEMMA QueueGrows ==
    ASSUME IInv, up, transaction = Nobody,
           NEW g \in 0 .. MaxGroups + 1, NEW m \in 1 .. MaxGroupSize,
           EnqueueGroup(g, m),
           UNCHANGED <<log, cursor, handle, up, workerPc, batch, written>>,
           \A c \in Clients : pc'[c] = "rollback" => pc[c] = "rollback"
    PROVE  QueueInv'
<1>1. /\ pending \in Seq(Event) /\ cursor \in Nat /\ nextSeq \in Nat
      /\ batch \in Seq(Event) /\ m \in Nat
  BY BoundsAssumption DEF IInv, TypeOK, QueueType, CoreType, WorkerType
<1>2. Len(InFlight) \in Nat /\ Len(pending) \in Nat
  BY <1>1, EmptySeq, LenProperties DEF InFlight
<1>3. InFlight' = InFlight /\ Undecided' = Undecided
  BY DEF InFlight, Undecided
<1>4. \A c \in Clients : pc[c] # "rollback"
  BY NobodyAssumption DEF IInv, ControlInv, ClientControl
<1>5. ~closed /\ ~closed' /\ pending' = pending \o GroupEvents(g, nextSeq, m)
      /\ nextSeq' = nextSeq + m
  BY DEF EnqueueGroup, Enqueue
<1> SUFFICES ASSUME up', handle'
             PROVE  /\ cursor = Len(log)
                    /\ Undecided =>
                          \A i \in DOMAIN batch : batch[i].seq = cursor + i - 1
                    /\ \A i \in DOMAIN pending' :
                          pending'[i].seq = cursor + Len(InFlight) + i - 1
                    /\ TailAt(cursor + Len(InFlight) + Len(pending))'
  BY <1>3 DEF QueueInv
<1> DEFINE b == cursor + Len(InFlight)
<1>6. /\ cursor = Len(log)
      /\ Undecided => \A i \in DOMAIN batch : batch[i].seq = cursor + i - 1
      /\ \A i \in DOMAIN pending : pending[i].seq = b + i - 1
      /\ nextSeq = b + Len(pending)
  BY <1>4, <1>5 DEF IInv, QueueInv, TailAt
<1>7. b \in Int /\ b' = b
  BY <1>1, <1>2, <1>3
<1> HIDE DEF b
<1> DEFINE e == GroupEvents(g, nextSeq, m)
<1>8. /\ e \in Seq(Event) /\ Len(e) = m
      /\ \A i \in 1 .. m : e[i].seq = nextSeq + i - 1
  BY <1>1, GroupEventsProperties
<1>9. pending' = pending \o e
  BY <1>5
<1> HIDE DEF e
<1>10. DOMAIN e = 1 .. m
  BY <1>8, LenProperties
<1>11. \A i \in DOMAIN e : e[i].seq = b + Len(pending) + i - 1
  BY <1>6, <1>8, <1>10
<1>12. /\ Len(pending') = Len(pending) + m
       /\ \A i \in DOMAIN pending' : pending'[i].seq = b + i - 1
  <2>1. pending \in Seq(Event) /\ \A i \in DOMAIN pending : pending[i].seq = b + i - 1
    BY <1>1, <1>6
  <2>2. /\ Len(pending \o e) = Len(pending) + Len(e)
        /\ \A i \in DOMAIN (pending \o e) : (pending \o e)[i].seq = b + i - 1
    BY <1>7, <1>8, <1>11, <2>1, ConcatRuns
  <2> QED BY <1>7, <1>8, <1>9, <2>2
<1>13. nextSeq' = b + Len(pending')
  <2>1. nextSeq = b + Len(pending) /\ nextSeq' = nextSeq + m
    BY <1>5, <1>6
  <2>2. Len(pending') = Len(pending) + m
    BY <1>12
  <2> QED BY <1>1, <1>2, <1>7, <2>1, <2>2
<1>14. TailAt(b + Len(pending))'
  BY <1>4, <1>7, <1>13 DEF TailAt
<1> QED BY <1>6, <1>12, <1>14 DEF b

-----------------------------------------------------------------------------
LEMMA QueueStep == IInv /\ [Next]_vars => QueueInv'
<1> SUFFICES ASSUME IInv, [Next]_vars PROVE QueueInv'
  OBVIOUS
<1>p. /\ log \in Seq(Event) /\ batch \in Seq(Event) /\ pending \in Seq(Event)
      /\ cursor \in Nat /\ nextSeq \in Nat
  BY DEF IInv, TypeOK, DiskType, QueueType, CoreType, WorkerType
<1>l. /\ Len(batch) \in Nat /\ DOMAIN batch = 1 .. Len(batch)
      /\ Len(pending) \in Nat /\ DOMAIN pending = 1 .. Len(pending)
      /\ Len(log) \in Nat
  BY <1>p, LenProperties
<1>e. <<>> \in Seq(Event) /\ Len(<<>>) = 0 /\ DOMAIN <<>> = {}
  BY EmptySeq
<1>q. TypeOK /\ QueueInv /\ WriterControl /\ ClientControl /\ DownControl
  BY DEF IInv, ControlInv
<1>n. NextGroup \in Groups => NextGroup \in 0 .. MaxGroups + 1
  BY BoundsAssumption DEF Groups

(* Clients *)
<1>1. ASSUME NEW c \in Clients, AppendAtomic(c) \/ DurableStart(c)
      PROVE  QueueInv'
  <2>1. PICK m \in 1 .. MaxGroupSize : EnqueueGroup(NextGroup, m)
    BY <1>1 DEF AppendAtomic, DurableStart
  <2>2. NextGroup \in 0 .. MaxGroups + 1
    BY <1>1, <1>n, <2>1 DEF AppendAtomic, DurableStart
  <2>3. \A d \in Clients : pc'[d] = "rollback" => pc[d] = "rollback"
    BY <1>1, <1>q DEF AppendAtomic, DurableStart, TypeOK, ClientType
  <2>4. /\ up /\ transaction = Nobody
        /\ UNCHANGED <<log, cursor, handle, up, workerPc, batch, written>>
    BY <1>1 DEF AppendAtomic, DurableStart, diskVars, workerVars
  <2> QED BY <2>1, <2>2, <2>3, <2>4, QueueGrows
<1>2. ASSUME NEW c \in Clients,
             \/ FlushStart(c) \/ FlushEnter(c) \/ FlushWake(c)
             \/ FlushReturn(c) \/ CloseAgain(c) \/ CloseJoin(c)
             \/ DurableCommitted(c) \/ DurableFailed(c) \/ DiscardRefused(c)
      PROVE  QueueInv'
  <2>1. \A d \in Clients : pc'[d] = "rollback" <=> pc[d] = "rollback"
    BY <1>2, <1>q
       DEF TypeOK, ClientType, FlushStart, FlushEnter, FlushWake, FlushReturn,
           CloseAgain, CloseJoin, DurableCommitted, DurableFailed,
           DiscardRefused, DurableReturn, Return, clientVars
  <2>2. \A d \in Clients : pc[d] = "rollback" => txn'[d] = txn[d]
    BY <1>2, <1>q
       DEF TypeOK, ClientType, FlushStart, FlushEnter, FlushWake, FlushReturn,
           CloseAgain, CloseJoin, DurableCommitted, DurableFailed,
           DiscardRefused, DurableReturn, Return, clientVars
  <2>3. /\ UNCHANGED <<log, cursor, workerPc, batch, written, pending,
                       nextSeq>>
        /\ UNCHANGED <<up, closed>>
    BY <1>2
       DEF FlushStart, FlushEnter, FlushWake, FlushReturn, CloseAgain,
           CloseJoin, DurableCommitted, DurableFailed,
           DiscardRefused, diskVars, coreVars, queueVars, workerVars,
           clientVars
  <2>5. handle' => handle
    BY <1>2
       DEF FlushStart, FlushEnter, FlushWake, FlushReturn, CloseAgain,
           CloseJoin, CloseCore, DurableCommitted, DurableFailed,
           DiscardRefused, coreVars
  <2>4. \A n \in Nat : TailAt(n) => TailAt(n)'
    BY <2>1, <2>2, <2>3 DEF TailAt
  <2> QED BY <1>q, <2>3, <2>4, <2>5, QueueFrame
<1>3. ASSUME NEW c \in Clients, CloseStart(c) PROVE QueueInv'
  <2>1. /\ UNCHANGED <<log, cursor, workerPc, batch, written, pending, up,
                       handle>>
        /\ closed'
    BY <1>3 DEF CloseStart, diskVars, coreVars
  <2> QED BY <1>q, <2>1, QueueFrame
<1>4. ASSUME NEW c \in Clients, DurableRollback(c) PROVE QueueInv'
  <2>1. /\ UNCHANGED <<log, cursor, workerPc, batch, written, pending, up,
                       handle, closed>>
        /\ nextSeq' = txn[c].start /\ pc[c] = "rollback"
    BY <1>4 DEF DurableRollback, RollbackSeq, diskVars, queueVars, workerVars
  <2>2. \A d \in Clients : pc'[d] # "rollback"
    BY <1>4, <1>q, NobodyAssumption
       DEF ClientControl, TypeOK, ClientType, DurableRollback, DurableReturn,
           Return
  <2>3. \A n \in Nat : TailAt(n) => TailAt(n)'
    BY <2>1, <2>2 DEF TailAt
  <2> QED BY <1>q, <2>1, <2>3, QueueFrame
<1>5. ASSUME NEW c \in Clients, up, DiscardTail(c) PROVE QueueInv'
  <2>1. /\ UNCHANGED <<log, cursor, workerPc, batch, written, up, handle,
                       closed, nextSeq, txn>>
        /\ pc' = [pc EXCEPT ![c] = "rollback"] /\ CanDiscard(txn[c])
        /\ pc[c] = "discard"
    BY <1>5 DEF DiscardTail, diskVars, coreVars, workerVars
  <2>2. InFlight = <<>> /\ InFlight' = <<>> /\ ~Undecided /\ ~Undecided'
    BY <1>q, <2>1 DEF CanDiscard, WriterControl, InFlight, Undecided
  <2>3. SUFFICES ASSUME up', handle'
                 PROVE  /\ cursor = Len(log)
                        /\ \A i \in DOMAIN pending' :
                              pending'[i].seq = cursor + i - 1
                        /\ ~closed => TailAt(cursor + Len(pending))'
    BY <1>e, <1>p, <1>l, <2>1, <2>2 DEF QueueInv
  <2>4. cursor = Len(log) /\ \A i \in DOMAIN pending : pending[i].seq = cursor + i - 1
    BY <1>e, <1>p, <1>q, <2>1, <2>2, <2>3 DEF QueueInv
  <2>5. PICK k \in 0 .. Len(pending) :
           /\ \A i \in 1 .. k : pending[i].seq < txn[c].start
           /\ \A i \in k + 1 .. Len(pending) : pending[i].seq >= txn[c].start
           /\ pending' = SubSeq(pending, 1, k)
    BY <1>5 DEF DiscardTail
  <2>6. /\ Len(pending') = k
        /\ \A i \in DOMAIN pending' : pending'[i].seq = cursor + i - 1
    BY <1>p, <1>l, <2>4, <2>5, PrefixOfRun
  <2>7. txn[c].start \in Nat /\ txn[c].end \in Nat /\ txn[c].start <= txn[c].end
    BY <1>q, <2>1 DEF ClientControl, TypeOK, ClientType
  <2>8. PICK j \in 1 .. Len(pending) : pending[j].seq = txn[c].start
    BY <1>l, <2>1, <2>7 DEF CanDiscard
  <2>9. txn[c].start = cursor + k
    <3>1. j >= k + 1
      BY <1>l, <2>5, <2>7, <2>8
    <3>2. k + 1 \in DOMAIN pending /\ pending[k + 1].seq >= txn[c].start
      BY <1>l, <2>5, <3>1
    <3>3. pending[k + 1].seq = cursor + (k + 1) - 1
      BY <2>4, <3>2
    <3>4. txn[c].start = cursor + j - 1
      BY <1>l, <2>4, <2>8
    <3> QED BY <1>p, <1>l, <2>7, <3>1, <3>2, <3>3, <3>4
  <2>10. \A d \in Clients : pc'[d] = "rollback" <=> d = c
    BY <1>q, <2>1, NobodyAssumption DEF ClientControl, TypeOK, ClientType
  <2>11. TailAt(cursor + Len(pending))'
    BY <2>1, <2>6, <2>9, <2>10 DEF TailAt
  <2> QED BY <2>4, <2>6, <2>11
<1>6. CASE EnqueueSeed
  <2>1. EnqueueGroup(Seed, 1) /\ Seed \in 0 .. MaxGroups + 1
        /\ 1 \in 1 .. MaxGroupSize
    BY <1>6, BoundsAssumption DEF EnqueueSeed, Seed
  <2>2. /\ up /\ transaction = Nobody
        /\ UNCHANGED <<log, cursor, handle, up, pc, workerPc, batch, written>>
    BY <1>6 DEF EnqueueSeed, diskVars, workerVars, clientVars
  <2> DEFINE n == 1
  <2>3. EnqueueGroup(Seed, n) /\ n \in 1 .. MaxGroupSize
    BY <2>1
  <2> HIDE DEF n
  <2>4. \A c \in Clients : pc'[c] = "rollback" => pc[c] = "rollback"
    BY <2>2
  <2> QED BY <2>1, <2>2, <2>3, <2>4, QueueGrows

(* The writer *)
<1>7. CASE WorkerTake
  <2>1. /\ UNCHANGED <<log, cursor, handle, up, closed, nextSeq, pc, txn>>
        /\ batch' = pending /\ pending' = <<>>
        /\ workerPc = "wait" /\ workerPc' = "write"
    BY <1>7 DEF WorkerTake, diskVars, coreVars, clientVars
  <2>2. /\ InFlight = <<>> /\ InFlight' = pending /\ Undecided'
    BY <2>1 DEF InFlight, Undecided
  <2>3. SUFFICES ASSUME up', handle'
                 PROVE  /\ cursor = Len(log)
                        /\ \A i \in DOMAIN pending : pending[i].seq = cursor + i - 1
                        /\ ~closed => TailAt(cursor + Len(batch) + 0)'
    BY <1>e, <2>1, <2>2 DEF QueueInv
  <2>4. /\ cursor = Len(log)
        /\ \A i \in DOMAIN pending : pending[i].seq = cursor + 0 + i - 1
        /\ ~closed => TailAt(cursor + 0 + Len(pending))
    BY <1>e, <1>q, <2>1, <2>2, <2>3 DEF QueueInv
  <2> QED BY <1>p, <1>l, <1>e, <2>1, <2>4 DEF TailAt
<1>8. CASE WriteCommits
  <2>1. /\ UNCHANGED <<handle, up, closed, nextSeq, pc, txn, pending, batch>>
        /\ log' = log \o batch /\ cursor' = cursor + Len(batch)
        /\ workerPc = "write" /\ workerPc' = "settle" /\ written' = "ok"
    BY <1>8 DEF WriteCommits, WriteOutcome, queueVars, clientVars
  <2>2. InFlight = batch /\ InFlight' = <<>> /\ ~Undecided'
    BY <2>1 DEF InFlight, Undecided
  <2>3. Len(log') = Len(log) + Len(batch)
    BY <1>p, <2>1, ConcatProperties
  <2>4. SUFFICES ASSUME up', handle'
                 PROVE  /\ cursor' = Len(log')
                        /\ \A i \in DOMAIN pending :
                              pending[i].seq = cursor' + 0 + i - 1
                        /\ ~closed => TailAt(cursor + 0 + Len(pending))'
    BY <1>e, <2>1, <2>2 DEF QueueInv
  <2>5. /\ cursor = Len(log)
        /\ \A i \in DOMAIN pending :
              pending[i].seq = cursor + Len(batch) + i - 1
        /\ ~closed => TailAt(cursor + Len(batch) + Len(pending))
    BY <1>q, <2>1, <2>2, <2>4 DEF QueueInv
  <2> QED BY <1>p, <1>l, <2>1, <2>3, <2>5 DEF TailAt
<1>9. CASE WriteNotCommitted
  <2>1. /\ UNCHANGED <<log, cursor, handle, up, closed, nextSeq, pc, txn,
                       pending, batch>>
        /\ workerPc = "write" /\ workerPc' = "settle" /\ written' = "failed"
    BY <1>9 DEF WriteNotCommitted, WriteOutcome, diskVars, queueVars, clientVars
  <2>2. InFlight = batch /\ InFlight' = batch /\ Undecided
    BY <2>1 DEF InFlight, Undecided
  <2> QED BY <1>q, <2>1, <2>2 DEF QueueInv, TailAt
<1>10. CASE WriteUnknown
  BY <1>10 DEF WriteUnknown, QueueInv
<1>11. CASE SettleCommitted
  <2>1. /\ UNCHANGED <<log, cursor, handle, up, closed, nextSeq, pc, txn,
                       pending>>
        /\ workerPc = "settle" /\ written = "ok" /\ workerPc' = "wait"
    BY <1>11 DEF SettleCommitted, diskVars, coreVars, clientVars
  <2>2. InFlight = <<>> /\ InFlight' = <<>> /\ ~Undecided'
    BY <2>1 DEF InFlight, Undecided
  <2> QED BY <1>q, <2>1, <2>2 DEF QueueInv, TailAt
<1>12. CASE SettleRestored
  <2>1. /\ UNCHANGED <<log, cursor, handle, up, closed, nextSeq, pc, txn>>
        /\ pending' = batch \o pending
        /\ workerPc = "settle" /\ written = "failed" /\ workerPc' = "wait"
    BY <1>12 DEF SettleRestored, Restored, diskVars, coreVars, clientVars
  <2>2. InFlight = batch /\ Undecided /\ InFlight' = <<>> /\ ~Undecided'
    BY <2>1 DEF InFlight, Undecided
  <2>3. SUFFICES ASSUME up', handle'
                 PROVE  /\ cursor = Len(log)
                        /\ \A i \in DOMAIN pending' :
                              pending'[i].seq = cursor + 0 + i - 1
                        /\ ~closed => TailAt(cursor + 0 + Len(pending))'
    BY <1>e, <2>1, <2>2 DEF QueueInv
  <2>4. /\ cursor = Len(log)
        /\ \A i \in DOMAIN batch : batch[i].seq = cursor + i - 1
        /\ \A i \in DOMAIN pending :
              pending[i].seq = cursor + Len(batch) + i - 1
        /\ ~closed => TailAt(cursor + Len(batch) + Len(pending))
    BY <1>q, <2>1, <2>2, <2>3 DEF QueueInv
  <2>5. /\ pending' \in Seq(Event) /\ Len(pending') = Len(batch) + Len(pending)
        /\ \A i \in DOMAIN pending' : pending'[i].seq = cursor + i - 1
    <3>1. \A i \in DOMAIN batch : batch[i].seq = cursor + i - 1
      BY <2>4
    <3>2. \A i \in DOMAIN pending :
             pending[i].seq = cursor + Len(batch) + i - 1
      BY <2>4
    <3>3. cursor \in Int
      BY <1>p
    <3> QED BY <1>p, <2>1, <3>1, <3>2, <3>3, ConcatRuns
  <2>6. ~closed => TailAt(cursor + 0 + Len(pending))'
    BY <1>p, <1>l, <2>1, <2>4, <2>5 DEF TailAt
  <2> QED BY <1>p, <2>4, <2>5, <2>6
<1>13. CASE SettleDropped
  <2>1. /\ UNCHANGED <<log, cursor, handle, up>> /\ closed' /\ pending' = <<>>
        /\ workerPc' = "exited"
    BY <1>13 DEF SettleDropped, diskVars, coreVars, clientVars
  <2> QED BY <1>e, <1>q, <2>1 DEF QueueInv, Undecided
<1>14. CASE WorkerExit
  <2>1. /\ UNCHANGED <<log, cursor, handle, up, pending>> /\ closed'
        /\ workerPc = "wait" /\ workerPc' = "exited"
    BY <1>14 DEF WorkerExit, diskVars, coreVars, queueVars, clientVars
  <2>2. InFlight = <<>> /\ InFlight' = <<>> /\ ~Undecided'
    BY <2>1 DEF InFlight, Undecided
  <2> QED BY <1>q, <2>1, <2>2 DEF QueueInv
<1>15. CASE WindowExpires
  <2>1. UNCHANGED <<log, cursor, handle, up, closed, nextSeq, pc, txn, pending,
                    batch, workerPc, written>>
    BY <1>15 DEF WindowExpires, diskVars, coreVars, workerVars, clientVars
  <2> QED BY <1>q, <2>1, QueueFrame DEF TailAt

(* The process *)
<1>16. CASE Crash \/ Release \/ LoadRepair \/ RepairInterrupted
  BY <1>16 DEF Crash, Release, Forget, LoadRepair, RepairInterrupted,
     clientVars, QueueInv
<1>17. CASE Reopen
  <2>1. /\ ~up /\ cursor' = Len(log') /\ nextSeq' = Len(log')
        /\ UNCHANGED <<pending, closed, workerPc, batch, written, pc, txn>>
    BY <1>17 DEF Reopen, queueVars
  <2>2. pending = <<>> /\ workerPc = "wait" /\ \A c \in Clients : pc[c] = "idle"
    BY <1>q, <2>1 DEF DownControl
  <2>3. InFlight' = <<>> /\ ~Undecided'
    BY <2>1, <2>2 DEF InFlight, Undecided
  <2>4. log' \in Seq(Event) /\ Len(log') \in Nat
    BY TypeStep, LenProperties DEF TypeOK, DiskType
  <2>5. TailAt(cursor + Len(InFlight) + Len(pending))'
    BY <1>e, <2>1, <2>2, <2>3, <2>4 DEF TailAt
  <2> QED BY <1>e, <2>1, <2>2, <2>3, <2>5 DEF QueueInv
<1>18. CASE UNCHANGED vars
  <2>1. UNCHANGED <<log, cursor, handle, up, closed, nextSeq, pc, txn, pending,
                    batch, workerPc, written>>
    BY <1>18 DEF vars, diskVars, coreVars, queueVars, workerVars, clientVars
  <2> QED BY <1>q, <2>1, QueueFrame DEF TailAt
<1> QED
  BY <1>1, <1>2, <1>3, <1>4, <1>5, <1>6, <1>7, <1>8, <1>9, <1>10, <1>11,
     <1>12, <1>13, <1>14, <1>15, <1>16, <1>17, <1>18
     DEF Next, ClientCall, ClientStep, WorkerStep

-----------------------------------------------------------------------------
(* The strengthened invariant is inductive. *)
LEMMA Invariance == Spec => []IInv
<1>1. Init => IInv
  BY InitInvariant
<1>2. IInv /\ [Next]_vars => IInv'
  BY TypeStep, ControlStep, DiskStep, QueueStep DEF IInv
<1> QED BY <1>1, <1>2, PTL DEF Spec

(* Every variable of the write path stays in its domain: in particular no   *)
(* sequence number and no cursor ever goes below zero, also when a discarded *)
(* group gives its range back.                                             *)
THEOREM TypeCorrect == Spec => []TypeOK
<1>1. IInv => TypeOK
  BY DEF IInv
<1> QED BY <1>1, Invariance, PTL

(* The log is dense: the event at each position carries that position as    *)
(* its seq, for any number of clients, groups, failures and crashes.       *)
THEOREM LogIsDense == Spec => []SeqIsPosition
<1>1. IInv => SeqIsPosition
  BY DEF IInv
<1> QED BY <1>1, Invariance, PTL

(* While a handle is open the undecided batch and the queue behind it       *)
(* continue its cursor without a gap, so append_batch never refuses a batch *)
(* for its seqs.                                                           *)
THEOREM QueueFollowsCursor == Spec => []QueueContinuesLog
<1>1. IInv => QueueContinuesLog
  <2> SUFFICES ASSUME IInv, up, handle
               PROVE  /\ cursor = Len(log)
                      /\ \A i \in DOMAIN Queue : Queue[i].seq = cursor + i - 1
    BY DEF QueueContinuesLog, IInv
  <2>1. InFlight \in Seq(Event) /\ pending \in Seq(Event) /\ cursor \in Int
    BY EmptySeq DEF IInv, TypeOK, QueueType, WorkerType, CoreType, InFlight
  <2>2. /\ cursor = Len(log)
        /\ \A i \in DOMAIN pending :
              pending[i].seq = cursor + Len(InFlight) + i - 1
    BY DEF IInv, QueueInv
  <2>3. \A i \in DOMAIN InFlight : InFlight[i].seq = cursor + i - 1
    <3>1. CASE Undecided
      BY <3>1 DEF IInv, QueueInv, InFlight, Undecided
    <3>2. CASE ~Undecided
      BY <3>2, EmptySeq DEF InFlight, Undecided
    <3> QED BY <3>1, <3>2
  <2>4. \A i \in DOMAIN (InFlight \o pending) :
           (InFlight \o pending)[i].seq = cursor + i - 1
    BY <2>1, <2>2, <2>3, ConcatRuns
  <2> QED BY <2>2, <2>4 DEF Queue
<1> QED BY <1>1, Invariance, PTL

(* After an unknown outcome a coordinator neither writes nor acknowledges   *)
(* again, whatever its callers and its writer still have under way.        *)
THEOREM UnknownIsFinal == Spec => FatalIsFinal
<1>1. [Next]_vars =>
         [fatal /\ up =>
             log' = log /\ acked' = acked /\ (up' => fatal')]_vars
  <2> SUFFICES ASSUME Next, fatal, up
               PROVE  log' = log /\ acked' = acked /\ (up' => fatal')
    OBVIOUS
  <2>1. ASSUME NEW c \in Clients, ClientCall(c)
        PROVE  log' = log /\ acked' = acked /\ (up' => fatal')
    BY <2>1
       DEF ClientCall, AppendAtomic, FlushStart, DurableStart, CloseStart,
           CloseAgain, EnqueueGroup, diskVars, coreVars, auxVars
  <2>2. ASSUME NEW c \in Clients, ClientStep(c)
        PROVE  log' = log /\ acked' = acked /\ (up' => fatal')
    BY <2>2
       DEF ClientStep, FlushEnter, FlushWake, FlushReturn, DurableCommitted,
           DurableFailed, DiscardTail, DiscardRefused, DurableRollback,
           CloseJoin, diskVars, coreVars, auxVars
  <2>3. CASE EnqueueSeed \/ WorkerStep \/ WindowExpires
    BY <2>3
       DEF EnqueueSeed, EnqueueGroup, WorkerStep, WorkerTake, WriteCommits,
           CanAppend, WriteNotCommitted, WriteUnknown, SettleCommitted,
           SettleRestored, SettleDropped, WorkerExit, WindowExpires,
           diskVars, coreVars, auxVars
  <2>4. CASE \/ Crash \/ Release \/ LoadRepair \/ RepairInterrupted
             \/ Reopen
    BY <2>4 DEF Crash, Release, LoadRepair, RepairInterrupted, Reopen, Forget,
       CanAppend, diskVars
  <2> QED BY <2>1, <2>2, <2>3, <2>4 DEF Next
<1> QED BY <1>1, PTL DEF Spec, FatalIsFinal
=============================================================================
