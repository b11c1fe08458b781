--------------------------- MODULE InputQueueProofs ---------------------------
(***************************************************************************)
(* Proofs about InputQueue, for every set of inputs, every length of the    *)
(* queue and every number of faults.  The inductive invariant IInv says who *)
(* owns an input: the queue, the worker that holds it, or the journal.      *)
(***************************************************************************)
EXTENDS InputQueue, FiniteSetTheorems, SequenceTheorems, TLAPS

Phases == {"queued", "interrupting", "claiming"}
EntrySet == [id : Inputs, version : Versions, phase : Phases]
Journal == durable \o buffer

\* An input is in the queue once, in its last version, and not taken back; the
\* interrupting entry is the hand-off; a mark names an entry nobody has claimed.
QueueInv ==
  /\ \A i, j \in DOMAIN entries : entries[i].id = entries[j].id => i = j
  /\ \A i \in DOMAIN entries :
       /\ entries[i].version = last[entries[i].id] /\ entries[i].id \notin taken
       /\ entries[i].phase = "interrupting" <=> handoff = entries[i].id
  /\ \A mark \in {handoff, initial} \ {Nil} :
       \E i \in DOMAIN entries : entries[i].id = mark /\ entries[i].phase # "claiming"
  /\ \A id \in taken : last[id] > 0

\* The head alone may be claimed, and by the worker of the run that goes on.
ClaimInv ==
  /\ \A i \in DOMAIN entries : entries[i].phase = "claiming" =>
       i = 1 /\ mine = entries[i].id /\ pc \notin {"idle", "first", "publish"}
  /\ pc \in {"claimed", "journaled"} => \E i \in DOMAIN entries : entries[i].phase = "claiming"
  /\ slot # "run" => pc = "idle"

\* The handlers hold what they checked; a Stop is a pause; edits are counted.
HostInv ==
  /\ rpc.at \in {"submit", "interrupt"} => rpc.id \in Inputs
  /\ rpc.at = "submit" => last[rpc.id] = 0
  /\ \A id \in Inputs : last[id] <= others + 1
  /\ stopped => paused

\* What left the queue is on disk; unless a failed write left a copy behind, the
\* journal has one copy, of what left the queue or of what is about to leave it.
JournalInv ==
  /\ \A id \in Inputs : last[id] > 0 /\ Places(id) = {} /\ id \notin taken
       => OnDisk([id |-> id, version |-> last[id]])
  /\ pc = "journaled" => OnDisk([id |-> mine, version |-> last[mine]])
  /\ \A id \in Inputs \ doubted : \A a \in Copies(id) :
       /\ \A b \in Copies(id) : a = b
       /\ last[id] > 0 /\ id \notin taken
       /\ Places(id) = {} \/ (pc = "journaled" /\ mine = id)

IInv == TypeOK /\ QueueInv /\ ClaimInv /\ HostInv /\ JournalInv

-----------------------------------------------------------------------------
(* The queue as a sequence *)

Distinct(s) == \A i, j \in DOMAIN s : s[i].id = s[j].id => i = j

(* Taking an entry out shifts those behind it and keeps them all.           *)
LEMMA Removal ==
    ASSUME NEW s \in Seq(EntrySet), Distinct(s), NEW p \in DOMAIN s
    PROVE  /\ RemoveAt(s, p) \in Seq(EntrySet) /\ Len(RemoveAt(s, p)) = Len(s) - 1
           /\ Distinct(RemoveAt(s, p))
           /\ \A j \in DOMAIN RemoveAt(s, p) :
                 \E i \in DOMAIN s \ {p} : j <= i /\ RemoveAt(s, p)[j] = s[i]
           /\ \A i \in DOMAIN s \ {p} :
                 \E j \in DOMAIN RemoveAt(s, p) : RemoveAt(s, p)[j] = s[i]
<1> DEFINE a == SubSeq(s, 1, p - 1)
           b == SubSeq(s, p + 1, Len(s))
           r == RemoveAt(s, p)
           old(j) == IF j < p THEN j ELSE j + 1
<1>1. a \in Seq(EntrySet) /\ Len(a) = p - 1 /\ \A j \in 1 .. p - 1 : a[j] = s[j]
  BY SubSeqProperties
<1>2. /\ b \in Seq(EntrySet) /\ Len(b) = Len(s) - p
      /\ \A j \in 1 .. Len(s) - p : b[j] = s[p + j]
  BY SubSeqProperties
<1> HIDE DEF a, b
<1>3. r = a \o b
  BY DEF RemoveAt, a, b
<1>4. r \in Seq(EntrySet) /\ Len(r) = Len(s) - 1
  BY <1>1, <1>2, <1>3, ConcatProperties
<1>5. ASSUME NEW j \in DOMAIN r PROVE old(j) \in DOMAIN s \ {p} /\ r[j] = s[old(j)]
  <2>1. j \in 1 .. Len(s) - 1 /\ old(j) \in DOMAIN s \ {p}
    BY <1>4
  <2>2. CASE j < p
    BY <2>1, <2>2, <1>1, <1>2, <1>3, ConcatProperties
  <2>3. CASE ~(j < p)
    <3>1. (a \o b)[j] = b[j - (p - 1)]
      BY <2>1, <2>3, <1>1, <1>2, ConcatProperties
    <3>2. j - (p - 1) \in 1 .. Len(s) - p
      BY <2>1, <2>3
    <3> QED BY <1>2, <1>3, <2>1, <2>3, <3>1, <3>2
  <2> QED BY <2>1, <2>2, <2>3
<1> HIDE DEF r
<1>6. \A i \in DOMAIN s \ {p} : \E j \in DOMAIN r : old(j) = i
  <2> TAKE i \in DOMAIN s \ {p}
  <2>1. CASE i < p
    BY <2>1, <1>4
  <2>2. CASE ~(i < p)
    <3>1. i - 1 \in DOMAIN r /\ old(i - 1) = i
      BY <2>2, <1>4
    <3> QED BY <3>1
  <2> QED BY <2>1, <2>2
<1>7. \A j, k \in DOMAIN r : old(j) = old(k) => j = k
  BY <1>4
<1>8. \A j \in DOMAIN r : j <= old(j)
  BY <1>4
<1> HIDE DEF old
<1> QED BY <1>4, <1>5, <1>6, <1>7, <1>8 DEF Distinct, r

LEMMA EntriesTyped ==
    ASSUME TypeOK
    PROVE  /\ entries \in Seq(EntrySet) /\ Len(entries) \in Nat
           /\ DOMAIN entries = 1 .. Len(entries)
           /\ \A i \in DOMAIN entries : /\ entries[i] \in EntrySet
                                        /\ entries[i].id \in Inputs
                                        /\ entries[i].phase \in Phases
<1>1. entries \in Seq(EntrySet)
  BY DEF TypeOK, EntrySet, Phases
<1>2. \A i \in DOMAIN entries : entries[i] \in EntrySet
  BY <1>1
<1> QED BY <1>1, <1>2 DEF EntrySet

(* A change of phase leaves everything else of the queue alone.             *)
LEMMA Rephasing ==
    ASSUME TypeOK, NEW to \in Phases
    PROVE  /\ \A from : /\ Phased(from, to) \in Seq(EntrySet)
                        /\ Len(Phased(from, to)) = Len(entries)
                        /\ \A i \in DOMAIN entries :
                             /\ Phased(from, to)[i].id = entries[i].id
                             /\ Phased(from, to)[i].version = entries[i].version
                             /\ Phased(from, to)[i].phase =
                                  IF entries[i].phase \in from THEN to ELSE entries[i].phase
           /\ \A id : /\ Marked(id, to) \in Seq(EntrySet)
                      /\ Len(Marked(id, to)) = Len(entries)
                      /\ \A i \in DOMAIN entries :
                           /\ Marked(id, to)[i].id = entries[i].id
                           /\ Marked(id, to)[i].version = entries[i].version
                           /\ Marked(id, to)[i].phase =
                                IF entries[i].id = id THEN to ELSE entries[i].phase
<1>1. /\ entries \in Seq(EntrySet) /\ Len(entries) \in Nat
      /\ DOMAIN entries = 1 .. Len(entries)
      /\ \A i \in DOMAIN entries : entries[i] \in EntrySet
  BY EntriesTyped
<1>2. ASSUME NEW from
      PROVE  /\ Phased(from, to) \in [1 .. Len(entries) -> EntrySet]
             /\ \A i \in DOMAIN entries :
                     /\ Phased(from, to)[i].id = entries[i].id
                     /\ Phased(from, to)[i].version = entries[i].version
                     /\ Phased(from, to)[i].phase =
                          IF entries[i].phase \in from THEN to ELSE entries[i].phase
  BY <1>1 DEF Phased, EntrySet
<1>3. ASSUME NEW id
      PROVE  /\ Marked(id, to) \in [1 .. Len(entries) -> EntrySet]
             /\ \A i \in DOMAIN entries :
                     /\ Marked(id, to)[i].id = entries[i].id
                     /\ Marked(id, to)[i].version = entries[i].version
                     /\ Marked(id, to)[i].phase =
                          IF entries[i].id = id THEN to ELSE entries[i].phase
  BY <1>1 DEF Marked, EntrySet
<1> QED BY <1>1, <1>2, <1>3

(* Entry finds an input that is in the queue.                               *)
LEMMA Found ==
    ASSUME NEW id \in Ids
    PROVE  /\ Place(id) \in DOMAIN entries
           /\ entries[Place(id)].id = id /\ Entry(id) = entries[Place(id)]
  BY DEF Place, Entry, Ids

(* What a claim may take: an entry nobody claimed, in a queue not paused;    *)
(* a run under way takes the head, and only when no entry is preferred.      *)
LEMMA ClaimableIs ==
    ASSUME TypeOK, QueueInv, NEW ordinary \in BOOLEAN, NEW id \in Claimable(ordinary)
    PROVE  /\ ~paused /\ id \in Ids /\ id \in Inputs
           /\ entries[Place(id)].phase \in {"queued", "interrupting"}
           /\ ~ordinary => /\ handoff = Nil /\ initial = Nil
                           /\ entries # <<>> /\ id = entries[1].id /\ Place(id) = 1
<1>1. /\ ~paused /\ id \in Ids /\ Entry(id).phase \in {"queued", "interrupting"}
      /\ ~ordinary => handoff = Nil /\ initial = Nil /\ id = Head(entries).id
  BY DEF Claimable
<1>2. PICK i \in DOMAIN entries : entries[i].id = id
  BY <1>1 DEF Ids
<1>3. id \in Inputs /\ entries \in Seq(EntrySet) /\ Len(entries) > 0 /\ entries # <<>>
  BY <1>2, EntriesTyped
<1>4. Head(entries) = entries[1] /\ 1 \in DOMAIN entries
  BY <1>3
<1> QED BY <1>1, <1>3, <1>4, Found DEF QueueInv

-----------------------------------------------------------------------------
(* Which steps move the queue, and which the journal *)

Starts(id) == StartAdmitted(id) \/ StartRefused(id) \/ StartUnflushed(id) \/ StartLate(id)

\* A step that dispatches an input, whoever takes it.
Starting ==
    /\ slot = "none" /\ UNCHANGED <<last, taken, others>>
    /\ \E id \in Claimable(TRUE) : Starts(id)

LEMMA DispatchIs ==
    Dispatch /\ UNCHANGED <<last, taken, others>>
       => \/ Starting
          \/ UNCHANGED <<queueVars, workerVars, slot, journalVars, stopped, faults, last, taken, others>>
  BY DEF Dispatch, Starting, Starts

LEMMA QueueMoves ==
    [Next]_vars =>
       \/ SubmitEnqueue \/ InterruptMark \/ StopPause
       \/ \E id \in Inputs : TakeBack(id) \/ Edit(id)
       \/ Starting \/ ClaimNext \/ Received \/ SettleInputs
       \/ UNCHANGED <<entries, handoff, initial, last, taken>>
<1> SUFFICES ASSUME [Next]_vars
             PROVE  \/ SubmitEnqueue \/ InterruptMark \/ StopPause
                    \/ \E id \in Inputs : TakeBack(id) \/ Edit(id)
                    \/ Starting \/ ClaimNext \/ Received \/ SettleInputs
                    \/ UNCHANGED <<entries, handoff, initial, last, taken>>
  OBVIOUS
<1> USE DEF queueVars, journalVars
<1>1. CASE RpcStep
  BY <1>1, DispatchIs DEF RpcStep, SubmitRefused, CancelRun, RpcDispatch
<1>2. CASE UserStep
  BY <1>2, DispatchIs DEF UserStep, SubmitCheck, InterruptCheck, Reconcile, PromptSend
<1>3. CASE WorkerStep
  BY <1>3 DEF WorkerStep, SeesCancel, RunFails, FirstRequest, Journaled, NotJournaled,
     ModelStep, ToolCalls, Answer, Boundary, SealIfEmpty, SealLast, EndRun, Publish, EndWith,
     Go, HostIdle
<1>4. CASE SlotStep
  BY <1>4, DispatchIs DEF SlotStep, FinishRun, SettledDispatch, AutoFinished, AutoReaped,
     CompactEnd, SlotIdle
<1>5. CASE WriterCommits \/ AutoStart \/ CompactStart \/ UNCHANGED vars
  BY <1>5 DEF WriterCommits, AutoStart, CompactStart, SlotIdle, vars
<1> QED BY <1>1, <1>2, <1>3, <1>4, <1>5 DEF Next

\* The journal is extended by an entry, on disk or in doubt; what is on disk
\* stays there.
Committed(id) ==
    \E m \in Messages : m = Msg(id) /\ Journal' = Append(Journal, m) /\ OnDisk(m)'
Kept(id) ==
    \E m \in Messages : m = Msg(id) /\ Journal' = Append(Journal, m) /\ id \in doubted'
Grows ==
    /\ buffer' \in Seq(Messages) /\ durable' \in Seq(Messages)
    /\ doubted \subseteq doubted' /\ doubted' \subseteq Inputs
    /\ \A m : OnDisk(m) => OnDisk(m)'

LEMMA JournalTyped ==
    ASSUME TypeOK
    PROVE  /\ buffer \in Seq(Messages) /\ durable \in Seq(Messages)
           /\ Journal \in Seq(Messages) /\ Len(Journal) \in Nat
           /\ DOMAIN Journal = 1 .. Len(Journal)
<1>1. buffer \in Seq(Messages) /\ durable \in Seq(Messages)
  BY DEF TypeOK
<1>2. Journal \in Seq(Messages)
  BY <1>1, ConcatProperties DEF Journal
<1> QED BY <1>1, <1>2

LEMMA MsgTyped ==
    ASSUME TypeOK, QueueInv, NEW id \in Ids
    PROVE  /\ Msg(id) = [id |-> id, version |-> last[id]] /\ Msg(id) \in Messages
           /\ id \in Inputs
<1>1. entries[Place(id)] \in EntrySet /\ entries[Place(id)].id = id /\ Place(id) \in DOMAIN entries
  BY Found, EntriesTyped
<1> QED BY <1>1, Found DEF Msg, Messages, EntrySet, QueueInv

LEMMA Flushing ==
    ASSUME TypeOK, FlushInto(<<>>)
    PROVE  /\ Journal' = Journal
           /\ buffer' \in Seq(Messages) /\ durable' \in Seq(Messages)
           /\ \A m : OnDisk(m) => OnDisk(m)'
<1>1. durable' = Journal /\ buffer' = <<>>
  BY JournalTyped, ConcatEmptySeq DEF FlushInto, Journal
<1>2. Journal' = Journal
  BY <1>1, JournalTyped, ConcatEmptySeq DEF Journal
<1>3. ASSUME NEW m, OnDisk(m) PROVE OnDisk(m)'
  <2>1. PICK i \in DOMAIN durable : durable[i] = m
    BY <1>3 DEF OnDisk
  <2>2. i \in DOMAIN Journal /\ Journal[i] = m
    BY <2>1, JournalTyped, ConcatProperties DEF Journal
  <2> QED BY <1>1, <2>2 DEF OnDisk
<1> QED BY <1>1, <1>2, <1>3, JournalTyped, EmptySeq

LEMMA Writing ==
    ASSUME TypeOK, NEW m \in Messages, FlushInto(<<m>>)
    PROVE  /\ Journal' = Append(Journal, m)
           /\ buffer' \in Seq(Messages) /\ durable' \in Seq(Messages)
           /\ OnDisk(m)' /\ \A n : OnDisk(n) => OnDisk(n)'
<1>1. durable' = Append(Journal, m) /\ buffer' = <<>>
  BY JournalTyped DEF FlushInto, Journal
<1>2. Append(Journal, m) \in Seq(Messages) /\ Journal' = Append(Journal, m)
  BY <1>1, JournalTyped, ConcatEmptySeq DEF Journal
<1>3. ASSUME NEW n, OnDisk(n) PROVE OnDisk(n)'
  <2>1. PICK i \in DOMAIN durable : durable[i] = n
    BY <1>3 DEF OnDisk
  <2>2. i \in DOMAIN Journal /\ Journal[i] = n
    BY <2>1, JournalTyped, ConcatProperties DEF Journal
  <2>3. i \in DOMAIN durable' /\ durable'[i] = n
    BY <1>1, <2>2, JournalTyped
  <2> QED BY <2>3 DEF OnDisk
<1>4. Len(Journal) + 1 \in DOMAIN durable' /\ durable'[Len(Journal) + 1] = m
  BY <1>1, JournalTyped
<1> QED BY <1>1, <1>2, <1>3, <1>4, EmptySeq DEF OnDisk

LEMMA Keeping ==
    ASSUME TypeOK, NEW id, Msg(id) \in Messages, id \in Inputs, Keep(id)
    PROVE  Grows /\ Kept(id)
<1>1. durable' = durable /\ buffer' = Append(buffer, Msg(id)) /\ doubted' = doubted \cup {id}
  BY DEF Keep
<1>2. buffer' \in Seq(Messages) /\ durable' \in Seq(Messages)
  BY <1>1, JournalTyped
<1>3. durable \o Append(buffer, Msg(id)) = Append(durable \o buffer, Msg(id))
  BY JournalTyped
<1> QED BY <1>1, <1>2, <1>3 DEF Grows, Kept, Journal, OnDisk, TypeOK

LEMMA Committing ==
    ASSUME TypeOK, QueueInv, NEW id \in Ids, FlushInto(<<Msg(id)>>), UNCHANGED doubted
    PROVE  Grows /\ Committed(id)
<1>1. PICK m \in Messages : m = Msg(id)
  BY MsgTyped
<1>2. FlushInto(<<m>>)
  BY <1>1
<1>3. /\ Journal' = Append(Journal, m) /\ OnDisk(m)'
      /\ buffer' \in Seq(Messages) /\ durable' \in Seq(Messages)
      /\ \A n : OnDisk(n) => OnDisk(n)'
  BY <1>2, Writing
<1>4. doubted' = doubted /\ doubted \subseteq Inputs
  BY DEF TypeOK
<1> QED BY <1>1, <1>3, <1>4 DEF Grows, Committed

LEMMA Resting ==
    ASSUME TypeOK, UNCHANGED journalVars \/ (FlushInto(<<>>) /\ UNCHANGED doubted)
    PROVE  Grows /\ Journal' = Journal
<1>1. CASE UNCHANGED journalVars
  BY <1>1, JournalTyped DEF journalVars, Grows, Journal, OnDisk, TypeOK
<1>2. CASE FlushInto(<<>>) /\ UNCHANGED doubted
  BY <1>2, Flushing DEF Grows, TypeOK
<1> QED BY <1>1, <1>2

\* The worker holds what it claimed, in the queue, under its name.
LEMMA Claimed ==
    ASSUME TypeOK, QueueInv, ClaimInv, pc \in {"claimed", "journaled"}
    PROVE  /\ 1 \in DOMAIN entries /\ entries[1].id = mine /\ entries[1].phase = "claiming"
           /\ mine \in Ids /\ mine \in Inputs /\ Place(mine) = 1
<1>1. 1 \in DOMAIN entries /\ entries[1].id = mine /\ entries[1].phase = "claiming"
  BY DEF ClaimInv
<1> QED BY <1>1, EntriesTyped, Found DEF Ids, QueueInv

\* A start writes the entry it takes, or keeps it in doubt, or does not write.
LEMMA StartWrites ==
    ASSUME TypeOK, QueueInv, NEW id \in Claimable(TRUE), Starts(id)
    PROVE  /\ Grows
           /\ \/ (StartAdmitted(id) \/ StartLate(id)) /\ Committed(id)
              \/ StartUnflushed(id) /\ Kept(id)
              \/ StartRefused(id) /\ Journal' = Journal
<1>1. Msg(id) \in Messages /\ id \in Inputs /\ id \in Ids
  BY ClaimableIs, MsgTyped
<1>2. CASE StartAdmitted(id) \/ StartLate(id)
  <2>1. FlushInto(<<Msg(id)>>) /\ UNCHANGED doubted
    BY <1>2 DEF StartAdmitted, StartLate
  <2> QED BY <1>1, <1>2, <2>1, Committing
<1>3. CASE StartUnflushed(id)
  <2>1. Keep(id)
    BY <1>3 DEF StartUnflushed
  <2> QED BY <1>1, <1>3, <2>1, Keeping
<1>4. CASE StartRefused(id)
  BY <1>4, Resting DEF StartRefused
<1> QED BY <1>2, <1>3, <1>4 DEF Starts

LEMMA ClaimWrites ==
    ASSUME TypeOK, QueueInv, ClaimInv
    PROVE  /\ Journaled => Grows /\ Committed(mine)
           /\ NotJournaled => Grows /\ (Kept(mine) \/ Journal' = Journal)
<1>1. ASSUME Journaled PROVE Grows /\ Committed(mine)
  <2>1. FlushInto(<<Msg(mine)>>) /\ UNCHANGED doubted /\ mine \in Ids
    BY <1>1, Claimed DEF Journaled
  <2> QED BY <2>1, Committing
<1>2. ASSUME NotJournaled PROVE Grows /\ (Kept(mine) \/ Journal' = Journal)
  <2>1. Msg(mine) \in Messages /\ mine \in Inputs
    BY <1>2, Claimed, MsgTyped DEF NotJournaled
  <2> QED BY <1>2, <2>1, Resting, Keeping DEF NotJournaled
<1> QED BY <1>1, <1>2

LEMMA JournalMoves ==
    ASSUME TypeOK, QueueInv, ClaimInv, [Next]_vars
    PROVE  Grows /\ (Journal' = Journal \/ Journaled \/ NotJournaled \/ Starting)
<1>u. ASSUME UNCHANGED journalVars PROVE Grows /\ Journal' = Journal
  BY <1>u, Resting
<1>f. ASSUME FlushInto(<<>>), UNCHANGED doubted PROVE Grows /\ Journal' = Journal
  BY <1>f, Resting
<1>s. ASSUME Starting PROVE Grows
  BY <1>s, StartWrites DEF Starting
<1>1. CASE RpcStep
  <2>1. CASE RpcDispatch
    BY <2>1, <1>s, <1>u, DispatchIs DEF RpcDispatch
  <2> QED BY <1>1, <2>1, <1>u
          DEF RpcStep, SubmitEnqueue, SubmitRefused, InterruptMark, CancelRun
<1>2. CASE UserStep
  <2>1. CASE Reconcile
    BY <2>1, <1>s, <1>u, DispatchIs DEF Reconcile
  <2>2. CASE PromptSend
    BY <2>2, <1>f, <1>u DEF PromptSend, journalVars
  <2> QED BY <1>2, <2>1, <2>2, <1>u
          DEF UserStep, SubmitCheck, InterruptCheck, TakeBack, Edit, StopPause
<1>3. CASE WorkerStep
  <2>1. CASE EndRun
    BY <2>1, <1>f, <1>u DEF EndRun, journalVars
  <2> QED BY <1>3, <2>1, <1>u, ClaimWrites
          DEF WorkerStep, SeesCancel, RunFails, FirstRequest, ClaimNext, Received, ModelStep,
              ToolCalls, Answer, Boundary, SealIfEmpty, SealLast, SettleInputs, Publish, EndWith
<1>4. CASE SlotStep
  <2>1. CASE SettledDispatch
    BY <2>1, <1>s, <1>u, DispatchIs DEF SettledDispatch
  <2> QED BY <1>4, <2>1, <1>u
          DEF SlotStep, FinishRun, AutoFinished, AutoReaped, CompactEnd, SlotIdle
<1>5. CASE WriterCommits
  BY <1>5, <1>f DEF WriterCommits
<1>6. CASE AutoStart \/ CompactStart \/ UNCHANGED vars
  BY <1>6, <1>u DEF AutoStart, CompactStart, SlotIdle, vars
<1> QED BY <1>1, <1>2, <1>3, <1>4, <1>5, <1>6 DEF Next

-----------------------------------------------------------------------------
(* The initial state *)

LEMMA InitInvariant == Init => IInv
<1> SUFFICES ASSUME Init PROVE IInv
  OBVIOUS
<1> USE DEF Init
<1>1. DOMAIN entries = {} /\ Journal = <<>> /\ DOMAIN Journal = {}
  BY ConcatEmptySeq, EmptySeq DEF Journal
<1>2. TypeOK
  <2>1. entries \in Seq(EntrySet) /\ Len(entries) <= Limit
    BY InputAssumption, EmptySeq
  <2>2. buffer \in Seq(Messages) /\ durable \in Seq(Messages)
    BY EmptySeq
  <2>3. last \in [Inputs -> {0} \cup Versions] /\ faults \in 0 .. MaxFaults
        /\ others \in 0 .. MaxOthers
    BY InputAssumption
  <2> QED BY <2>1, <2>2, <2>3 DEF TypeOK, Points, FreeRpc, EntrySet, Phases
<1>3. QueueInv /\ ClaimInv /\ HostInv
  BY <1>1, InputAssumption DEF QueueInv, ClaimInv, HostInv, FreeRpc
<1>4. JournalInv
  BY <1>1 DEF JournalInv, Copies, Journal
<1> QED BY <1>2, <1>3, <1>4 DEF IInv

-----------------------------------------------------------------------------
(* Types *)

Marks == handoff \in Inputs \cup {Nil} /\ initial \in Inputs \cup {Nil}

\* An edit counts the version up, for the entry and for the history alike.
LEMMA Editing ==
    ASSUME IInv, NEW id \in Inputs, Edit(id)
    PROVE  /\ entries' \in Seq(EntrySet) /\ Len(entries') = Len(entries)
           /\ id \in Ids /\ entries[Place(id)].phase = "queued"
           /\ last' \in [Inputs -> {0} \cup Versions] /\ others' = others + 1
           /\ last'[id] = last[id] + 1 /\ \A x \in Inputs \ {id} : last'[x] = last[x]
           /\ \A i \in DOMAIN entries :
                 /\ entries'[i].id = entries[i].id /\ entries'[i].phase = entries[i].phase
                 /\ entries'[i].version = last'[entries'[i].id]
<1>1. /\ entries' = [i \in DOMAIN entries |-> IF entries[i].id = id
                       THEN [entries[i] EXCEPT !.version = @ + 1] ELSE entries[i]]
      /\ last' = [last EXCEPT ![id] = @ + 1] /\ others < MaxOthers /\ others' = others + 1
      /\ id \in Ids /\ entries[Place(id)].phase = "queued"
  BY Found DEF Edit, Other, Queued
<1>2. /\ last[id] <= others + 1 /\ last[id] \in Nat /\ others \in Nat /\ MaxOthers \in Nat
      /\ last \in [Inputs -> {0} \cup Versions]
  BY InputAssumption DEF IInv, HostInv, TypeOK, Versions
<1>3. last[id] + 1 \in Versions /\ last' \in [Inputs -> {0} \cup Versions]
  BY <1>1, <1>2, InputAssumption DEF Versions
<1>4. TypeOK /\ \A i \in DOMAIN entries : entries[i].version = last[entries[i].id]
  BY DEF IInv, QueueInv
<1>5. \A i \in DOMAIN entries :
         /\ entries'[i] \in EntrySet
         /\ entries'[i].id = entries[i].id /\ entries'[i].phase = entries[i].phase
         /\ entries'[i].version = last'[entries'[i].id]
  BY <1>1, <1>2, <1>3, <1>4, EntriesTyped DEF EntrySet
<1>6. entries' \in [1 .. Len(entries) -> EntrySet]
  BY <1>1, <1>4, <1>5, EntriesTyped
<1>7. entries' \in Seq(EntrySet) /\ Len(entries') = Len(entries)
  BY <1>4, <1>6, EntriesTyped
<1> QED BY <1>1, <1>2, <1>3, <1>5, <1>7

LEMMA SubmitEnqueues ==
    ASSUME IInv, SubmitEnqueue
    PROVE  /\ rpc.id \in Inputs /\ last[rpc.id] = 0
           /\ last' = [last EXCEPT ![rpc.id] = 1] /\ 1 \in Versions
           /\ entries' \in Seq(EntrySet) /\ Len(entries') = Len(entries) + 1
           /\ \A i \in DOMAIN entries : entries'[i] = entries[i] /\ entries[i].id # rpc.id
           /\ entries'[Len(entries) + 1] = [id |-> rpc.id, version |-> 1, phase |-> "queued"]
<1>1. rpc.id \in Inputs /\ last[rpc.id] = 0 /\ last' = [last EXCEPT ![rpc.id] = 1]
  BY DEF SubmitEnqueue, IInv, HostInv
<1>2. 1 \in Versions
  BY InputAssumption DEF Versions
<1>3. /\ entries' = Append(entries, [id |-> rpc.id, version |-> 1, phase |-> "queued"])
      /\ [id |-> rpc.id, version |-> 1, phase |-> "queued"] \in EntrySet
  BY <1>1, <1>2 DEF SubmitEnqueue, EntrySet, Phases
<1>4. \A i \in DOMAIN entries : entries[i].id # rpc.id
  BY <1>1, EntriesTyped DEF IInv, QueueInv, EntrySet, Versions
<1> QED BY <1>1, <1>2, <1>3, <1>4, EntriesTyped DEF IInv

LEMMA QueueTypes ==
    ASSUME IInv, [Next]_vars
    PROVE  /\ entries' \in Seq(EntrySet) /\ Len(entries') <= Limit /\ Marks'
           /\ last' \in [Inputs -> {0} \cup Versions] /\ taken' \subseteq Inputs
<1>t. /\ TypeOK /\ QueueInv /\ Marks
      /\ last \in [Inputs -> {0} \cup Versions] /\ taken \subseteq Inputs
      /\ Len(entries) <= Limit /\ Limit \in Nat /\ mine \in Inputs \cup {Nil}
  BY InputAssumption DEF IInv, TypeOK, Marks
<1>q. /\ entries \in Seq(EntrySet) /\ Len(entries) \in Nat
      /\ DOMAIN entries = 1 .. Len(entries) /\ Distinct(entries)
  BY <1>t, EntriesTyped DEF QueueInv, Distinct
<1>r. ASSUME NEW id \in Ids, Leave(id)
      PROVE  /\ entries' \in Seq(EntrySet) /\ Len(entries') <= Limit /\ Marks'
  BY <1>r, <1>t, <1>q, Found, Removal DEF Leave, Without, Unless, Marks
<1>1. CASE SubmitEnqueue
  <2>1. /\ Len(entries) < Limit /\ taken' = taken /\ handoff' = handoff
        /\ initial' \in {initial, rpc.id}
    BY <1>1 DEF SubmitEnqueue
  <2>2. /\ rpc.id \in Inputs /\ last' = [last EXCEPT ![rpc.id] = 1] /\ 1 \in Versions
        /\ entries' \in Seq(EntrySet) /\ Len(entries') = Len(entries) + 1
    BY <1>1, SubmitEnqueues
  <2> QED BY <2>1, <2>2, <1>t, <1>q DEF Marks
<1>2. CASE InterruptMark
  <2>1. "interrupting" \in Phases
    BY DEF Phases
  <2>2. CASE entries' = Marked(rpc.id, "interrupting") /\ handoff' = rpc.id /\ Queued(rpc.id)
    BY <1>2, <2>1, <2>2, <1>t, <1>q, Rephasing, MsgTyped DEF InterruptMark, Marks, Queued
  <2>3. CASE UNCHANGED <<entries, handoff>>
    BY <1>2, <2>3, <1>t, <1>q DEF InterruptMark, Marks
  <2> QED BY <1>2, <2>2, <2>3 DEF InterruptMark
<1>3. CASE StopPause
  <2>1. "queued" \in Phases
    BY DEF Phases
  <2> QED BY <1>3, <2>1, <1>t, <1>q, Rephasing DEF StopPause, Pause, Marks
<1>4. ASSUME NEW id \in Inputs, TakeBack(id)
      PROVE  /\ entries' \in Seq(EntrySet) /\ Len(entries') <= Limit /\ Marks'
             /\ last' = last /\ taken' \subseteq Inputs
  BY <1>4, <1>r, <1>t DEF TakeBack, Queued
<1>5. ASSUME NEW id \in Inputs, Edit(id)
      PROVE  /\ entries' \in Seq(EntrySet) /\ Len(entries') <= Limit /\ Marks'
             /\ last' \in [Inputs -> {0} \cup Versions] /\ taken' = taken
  BY <1>5, <1>t, <1>q, Editing DEF Edit, Marks
<1>6. CASE Starting
  <2>1. PICK id \in Claimable(TRUE) : Starts(id) /\ UNCHANGED <<last, taken>>
    BY <1>6 DEF Starting
  <2>2. id \in Ids /\ Place(id) \in DOMAIN entries /\ "queued" \in Phases
    BY <1>t, ClaimableIs, Found DEF Phases
  <2>3. CASE StartAdmitted(id)
    BY <2>1, <2>2, <2>3, <1>r, <1>t DEF StartAdmitted
  <2>4. CASE StartRefused(id) \/ StartUnflushed(id)
    <3>1. entries' = Phased({"interrupting"}, "queued") /\ Marks'
      BY <2>4 DEF StartRefused, StartUnflushed, StartFailed, Pause, Marks
    <3> QED BY <2>1, <2>2, <3>1, <1>t, <1>q, Rephasing
  <2>5. CASE StartLate(id)
    <3> DEFINE s == Phased({"interrupting"}, "queued")
    <3>1. s \in Seq(EntrySet) /\ Distinct(s) /\ Place(id) \in DOMAIN s /\ Len(s) = Len(entries)
      BY <2>2, <1>t, <1>q, Rephasing DEF Distinct
    <3>2. entries' = RemoveAt(s, Place(id)) /\ Marks'
      BY <2>5 DEF StartLate, StartFailed, Pause, Marks
    <3> HIDE DEF s
    <3> QED BY <2>1, <3>1, <3>2, <1>t, <1>q, Removal
  <2> QED BY <2>1, <2>3, <2>4, <2>5 DEF Starts
<1>7. CASE ClaimNext
  <2>1. "claiming" \in Phases
    BY DEF Phases
  <2>2. /\ UNCHANGED <<handoff, initial, last, taken>>
        /\ entries' = entries \/ \E id : entries' = Marked(id, "claiming")
    BY <1>7 DEF ClaimNext, HostIdle
  <2> QED BY <2>1, <2>2, <1>t, <1>q, Rephasing DEF Marks
<1>8. CASE Received
  <2>1. mine \in Ids
    BY <1>8, <1>t, Claimed DEF Received, IInv
  <2> QED BY <1>8, <2>1, <1>r, <1>t DEF Received, HostIdle
<1>9. CASE SettleInputs
  <2>1. "queued" \in Phases
    BY DEF Phases
  <2> QED BY <1>9, <2>1, <1>t, <1>q, Rephasing DEF SettleInputs, Settled, HostIdle, Marks
<1>10. CASE UNCHANGED <<entries, handoff, initial, last, taken>>
  BY <1>10, <1>t, <1>q DEF Marks
<1> QED BY <1>t, <1>1, <1>2, <1>3, <1>4, <1>5, <1>6, <1>7, <1>8, <1>9, <1>10, QueueMoves

Rpcs == [at : {"free", "submit", "interrupt", "cancel", "stop", "dispatch"},
         id : Inputs \cup {Nil}, idle : BOOLEAN]

\* What is not the queue, its history or the journal.
HostType ==
    /\ mine \in Inputs \cup {Nil}
    /\ {paused, terminal, resume, sealed, cancelled, jerr, compacting, refresh, stopped}
          \subseteq BOOLEAN
    /\ pc \in Points /\ outcome \in {"completed", "cancelled", "failed"}
    /\ rpc \in Rpcs
    /\ slot \in {"none", "run", "auto", "ended"} /\ owed \in Nat
    /\ faults \in 0 .. MaxFaults /\ others \in 0 .. MaxOthers

LEMMA HostTypes ==
    ASSUME IInv, [Next]_vars
    PROVE  HostType'
<1>t. HostType /\ TypeOK /\ QueueInv /\ MaxFaults \in Nat /\ MaxOthers \in Nat
  BY InputAssumption DEF IInv, TypeOK, HostType, Rpcs
<1> USE <1>t DEF HostType
<1>r. /\ FreeRpc \in Rpcs
      /\ \A at \in {"interrupt", "cancel", "stop", "dispatch"} :
           Handler(at, Nil) \in Rpcs /\ \A id \in Inputs : Handler(at, id) \in Rpcs
  BY DEF FreeRpc, Handler, Rpcs
<1>f. Fault => faults' \in 0 .. MaxFaults
  BY DEF Fault
<1>o. Other => others' \in 0 .. MaxOthers
  BY DEF Other
<1>s. ASSUME Starting, UNCHANGED <<compacting, refresh>> \/ (refresh' = FALSE /\ UNCHANGED compacting),
             rpc' \in {rpc, FreeRpc}, owed' \in Nat
      PROVE  HostType'
  <2>1. PICK id \in Claimable(TRUE) : Starts(id) /\ UNCHANGED others
    BY <1>s DEF Starting
  <2>2. CASE StartAdmitted(id)
    BY <2>1, <2>2, <1>s, <1>r DEF StartAdmitted, NewWorker, Points
  <2>3. CASE StartFailed
    BY <2>1, <2>3, <1>s, <1>f, <1>r DEF StartFailed, Pause, workerVars
  <2> QED BY <2>1, <2>2, <2>3 DEF Starts, StartRefused, StartUnflushed, StartLate
<1>1. CASE SubmitEnqueue \/ SubmitRefused \/ InterruptMark \/ CancelRun
  <2>1. CASE SubmitEnqueue
    BY <2>1, <1>r DEF SubmitEnqueue, workerVars, slotVars
  <2>2. CASE SubmitRefused
    BY <2>2, <1>r DEF SubmitRefused, queueVars, workerVars, slotVars
  <2>3. CASE InterruptMark
    BY <2>3, <1>r DEF InterruptMark, workerVars, slotVars
  <2>4. CASE CancelRun
    BY <2>4, <1>r DEF CancelRun, queueVars, slotVars
  <2> QED BY <1>1, <2>1, <2>2, <2>3, <2>4
<1>2. CASE \E id \in Inputs : SubmitCheck(id) \/ InterruptCheck(id)
  <2>1. UNCHANGED <<queueVars, workerVars, slotVars, stopped, faults, others>>
    BY <1>2 DEF SubmitCheck, InterruptCheck
  <2>2. PICK id \in Inputs : SubmitCheck(id) \/ InterruptCheck(id)
    BY <1>2
  <2>3. rpc' \in Rpcs
    <3>1. CASE SubmitCheck(id)
      <4>1. (RunFinished /\ handoff = Nil) \in BOOLEAN
        BY DEF RunFinished
      <4> QED BY <3>1, <4>1 DEF SubmitCheck, Rpcs
    <3>2. CASE InterruptCheck(id)
      BY <3>2, <1>r DEF InterruptCheck
    <3> QED BY <2>2, <3>1, <3>2
  <2> QED BY <2>1, <2>3 DEF queueVars, workerVars, slotVars
<1>3. CASE \E id \in Inputs : TakeBack(id) \/ Edit(id)
  BY <1>3, <1>o, <1>r DEF TakeBack, Edit, Leave, Unless, workerVars, slotVars
<1>4. CASE StopPause
  BY <1>4, <1>r DEF StopPause, Pause, workerVars, slotVars
<1>5. CASE RpcDispatch \/ Reconcile \/ SettledDispatch
  <2>o. owed > 0 => owed - 1 \in Nat
    OBVIOUS
  <2>1. CASE Starting
    BY <1>5, <2>o, <2>1, <1>s DEF RpcDispatch, Reconcile, SettledDispatch
  <2>2. CASE UNCHANGED <<queueVars, workerVars, slot, journalVars, stopped, faults, last, taken, others>>
    <3>1. owed' \in Nat /\ rpc' \in Rpcs /\ {compacting', refresh'} \subseteq BOOLEAN
      BY <1>5, <2>o, <1>r DEF RpcDispatch, Reconcile, SettledDispatch
    <3> QED BY <2>2, <3>1 DEF queueVars, workerVars
  <2> QED BY <1>5, <2>1, <2>2, DispatchIs DEF RpcDispatch, Reconcile, SettledDispatch
<1>6. CASE PromptSend
  BY <1>6, <1>f, <1>o DEF PromptSend, NewWorker, Points, workerVars
<1>7. CASE WorkerStep
  <2> USE DEF HostIdle, slotVars, queueVars, Points
  <2>1. CASE SeesCancel \/ RunFails \/ Boundary
    BY <2>1, <1>f DEF SeesCancel, RunFails, Boundary, EndWith
  <2>2. CASE FirstRequest \/ Journaled \/ Answer \/ Publish \/ Received \/ SealLast
    BY <2>2 DEF FirstRequest, Journaled, Answer, Publish, Go, Received, SealLast
  <2>3. CASE ClaimNext
    BY <2>3, ClaimableIs DEF ClaimNext, Go
  <2>4. CASE NotJournaled \/ ToolCalls \/ SealIfEmpty
    BY <2>4, <1>f DEF NotJournaled, ToolCalls, SealIfEmpty
  <2>5. CASE EndRun
    BY <2>5, <1>f DEF EndRun
  <2>6. CASE SettleInputs
    BY <2>6 DEF SettleInputs, Settled
  <2> QED BY <1>7, <2>1, <2>2, <2>3, <2>4, <2>5, <2>6 DEF WorkerStep, ModelStep
<1>8. CASE \/ FinishRun \/ AutoFinished \/ AutoReaped \/ CompactEnd \/ AutoStart \/ CompactStart
  <2>1. owed + 1 \in Nat
    OBVIOUS
  <2> QED BY <1>8, <1>o, <2>1 DEF FinishRun, AutoFinished, AutoReaped, CompactEnd, AutoStart,
             CompactStart, SlotIdle, queueVars, workerVars
<1>9. CASE WriterCommits \/ UNCHANGED vars
  BY <1>9 DEF WriterCommits, vars, queueVars, workerVars, slotVars
<1> QED BY <1>1, <1>2, <1>3, <1>4, <1>5, <1>6, <1>7, <1>8, <1>9
        DEF Next, RpcStep, UserStep, SlotStep

LEMMA TypeStep == IInv /\ [Next]_vars => TypeOK'
<1> SUFFICES ASSUME IInv, [Next]_vars PROVE TypeOK'
  OBVIOUS
<1>1. Grows
  BY JournalMoves DEF IInv
<1> QED BY <1>1, QueueTypes, HostTypes DEF Grows, HostType, Rpcs, Marks, EntrySet, Phases, TypeOK

-----------------------------------------------------------------------------
(* Handlers: what was checked before the lock is still so when it is used *)

LEMMA HostStep == IInv /\ [Next]_vars => HostInv'
<1> SUFFICES ASSUME IInv, [Next]_vars PROVE HostInv'
  OBVIOUS
<1>t. /\ HostInv /\ TypeOK /\ QueueInv
      /\ last \in [Inputs -> {0} \cup Versions] /\ others \in Nat
  BY DEF IInv, TypeOK
<1>k. ASSUME rpc' = rpc \/ rpc'.at \notin {"submit", "interrupt"},
             last' = last, others' \in {others, others + 1}, stopped' => paused'
      PROVE  HostInv'
  BY <1>k, <1>t DEF HostInv, Versions
<1>h. /\ FreeRpc.at \notin {"submit", "interrupt"}
      /\ \A at, id : Handler(at, id).at = at /\ Handler(at, id).id = id
  BY DEF FreeRpc, Handler
<1>s. ASSUME Starting, rpc' \in {rpc, FreeRpc} PROVE HostInv'
  <2>1. PICK id \in Claimable(TRUE) : Starts(id) /\ UNCHANGED <<last, others>>
    BY <1>s DEF Starting
  <2>2. CASE StartAdmitted(id)
    <3>1. ~stopped /\ stopped' = stopped
      BY <2>2, <1>t, ClaimableIs DEF StartAdmitted, HostInv
    <3> QED BY <1>s, <2>1, <3>1, <1>k, <1>h
  <2>3. CASE StartFailed
    BY <1>s, <2>1, <2>3, <1>k, <1>h DEF StartFailed, Pause
  <2> QED BY <2>1, <2>2, <2>3 DEF Starts, StartRefused, StartUnflushed, StartLate
<1>1. CASE SubmitEnqueue
  <2>1. rpc'.at \notin {"submit", "interrupt"} /\ ~stopped' /\ others' = others
    BY <1>1, <1>h DEF SubmitEnqueue
  <2> QED BY <1>1, <2>1, <1>t, SubmitEnqueues DEF HostInv, Versions
<1>2. CASE SubmitRefused \/ InterruptMark \/ CancelRun
  <2>1. CASE SubmitRefused \/ CancelRun
    BY <2>1, <1>k, <1>h, <1>t DEF SubmitRefused, CancelRun, queueVars, HostInv
  <2>2. CASE InterruptMark
    BY <2>2, <1>k, <1>h, <1>t DEF InterruptMark, HostInv
  <2> QED BY <1>2, <2>1, <2>2
<1>3. ASSUME NEW id \in Inputs, SubmitCheck(id) \/ InterruptCheck(id) PROVE HostInv'
  <2>1. UNCHANGED <<last, others, stopped, paused>>
    BY <1>3 DEF SubmitCheck, InterruptCheck, queueVars
  <2>2. rpc'.id = id /\ (rpc'.at = "submit" => last[id] = 0)
    BY <1>3, <1>h DEF SubmitCheck, InterruptCheck
  <2> QED BY <2>1, <2>2, <1>t DEF HostInv
<1>4. ASSUME NEW id \in Inputs, TakeBack(id) PROVE HostInv'
  BY <1>4, <1>k, <1>h, <1>t DEF TakeBack, HostInv
<1>5. ASSUME NEW id \in Inputs, Edit(id) PROVE HostInv'
  <2>1. rpc'.at \notin {"submit", "interrupt"} /\ stopped' = stopped /\ paused' = paused
    BY <1>5, <1>h DEF Edit
  <2> QED BY <1>5, <2>1, <1>t, Editing DEF HostInv, Versions
<1>6. CASE StopPause
  BY <1>6, <1>k, <1>h DEF StopPause, Pause
<1>7. CASE RpcDispatch \/ Reconcile \/ SettledDispatch
  <2>1. rpc' \in {rpc, FreeRpc} /\ Dispatch /\ UNCHANGED <<last, taken, others>>
    BY <1>7 DEF RpcDispatch, Reconcile, SettledDispatch
  <2>2. CASE UNCHANGED <<queueVars, workerVars, slot, journalVars, stopped, faults, last, taken, others>>
    BY <2>1, <2>2, <1>k, <1>h, <1>t DEF queueVars, HostInv
  <2> QED BY <2>1, <2>2, <1>s, DispatchIs
<1>8. CASE PromptSend
  BY <1>8, <1>k, <1>t DEF PromptSend, Other, HostInv
<1>9. CASE WorkerStep
  <2>1. UNCHANGED <<rpc, last, others, stopped>>
    BY <1>9 DEF WorkerStep, HostIdle, SeesCancel, RunFails, FirstRequest, ClaimNext, Journaled,
       NotJournaled, Received, ModelStep, ToolCalls, Answer, Boundary, SealIfEmpty, SealLast,
       EndRun, SettleInputs, Publish
  <2>2. paused => paused'
    BY <1>9 DEF WorkerStep, SeesCancel, RunFails, FirstRequest, ClaimNext, Journaled,
       NotJournaled, Received, ModelStep, ToolCalls, Answer, Boundary, SealIfEmpty, SealLast,
       EndRun, SettleInputs, Publish, Settled, EndWith, queueVars
  <2> QED BY <2>1, <2>2, <1>k, <1>t DEF HostInv
<1>10. CASE \/ FinishRun \/ AutoFinished \/ AutoReaped \/ CompactEnd \/ AutoStart \/ CompactStart
            \/ WriterCommits \/ UNCHANGED vars
  <2>1. UNCHANGED <<rpc, last, stopped, paused>> /\ others' \in {others, others + 1}
    BY <1>10 DEF FinishRun, AutoFinished, AutoReaped, CompactEnd, AutoStart, CompactStart,
       WriterCommits, vars, SlotIdle, Other, queueVars
  <2> QED BY <2>1, <1>k, <1>t DEF HostInv
<1> QED BY <1>1, <1>2, <1>3, <1>4, <1>5, <1>6, <1>7, <1>8, <1>9, <1>10
        DEF Next, RpcStep, UserStep, SlotStep

-----------------------------------------------------------------------------
(* The claim: one entry, at the head, of a worker that goes on *)

\* A claim survives a step that leaves the worker where it is and the head alone.
LEMMA ClaimFrame ==
    ASSUME TypeOK, ClaimInv, slot' = slot, mine' = mine, entries' \in Seq(EntrySet),
           pc' = pc \/ (pc # "idle" /\ pc' \notin {"idle", "first", "publish", "claimed", "journaled"}),
           \A j \in DOMAIN entries' : entries'[j].phase = "claiming" =>
              \E i \in DOMAIN entries : j <= i /\ entries'[j].id = entries[i].id
                                        /\ entries[i].phase = "claiming",
           \A i \in DOMAIN entries : entries[i].phase = "claiming" =>
              \E j \in DOMAIN entries' : entries'[j].phase = "claiming"
    PROVE  ClaimInv'
<1>1. ASSUME NEW j \in DOMAIN entries', entries'[j].phase = "claiming"
      PROVE  j = 1 /\ mine = entries'[j].id /\ pc' \notin {"idle", "first", "publish"}
  <2>1. PICK i \in DOMAIN entries : /\ j <= i /\ entries'[j].id = entries[i].id
                                    /\ entries[i].phase = "claiming"
    BY <1>1
  <2>2. i = 1 /\ mine = entries[i].id /\ pc \notin {"idle", "first", "publish"}
    BY <2>1 DEF ClaimInv
  <2>3. j \in Nat \ {0}
    OBVIOUS
  <2> QED BY <2>1, <2>2, <2>3
<1> QED BY <1>1 DEF ClaimInv

LEMMA NothingClaimed ==
    ASSUME TypeOK, ClaimInv, pc \in {"idle", "first", "publish"}
    PROVE  \A i \in DOMAIN entries : entries[i].phase # "claiming"
  BY DEF ClaimInv

\* An entry that leaves takes no claim of another with it.
LEMMA Leaving ==
    ASSUME TypeOK, QueueInv, NEW id \in Ids
    PROVE  /\ Without(id) \in Seq(EntrySet) /\ Distinct(Without(id))
           /\ \A j \in DOMAIN Without(id) :
                 /\ Without(id)[j].id # id
                 /\ \E i \in DOMAIN entries : j <= i /\ Without(id)[j] = entries[i]
           /\ \A i \in DOMAIN entries : entries[i].id # id =>
                 \E j \in DOMAIN Without(id) : Without(id)[j] = entries[i]
<1>1. entries \in Seq(EntrySet) /\ Distinct(entries) /\ Place(id) \in DOMAIN entries
  BY EntriesTyped, Found DEF QueueInv, Distinct
<1>2. \A i \in DOMAIN entries : entries[i].id = id <=> i = Place(id)
  BY <1>1, Found DEF QueueInv
<1> DEFINE p == Place(id)
           r == RemoveAt(entries, p)
<1>3. /\ r \in Seq(EntrySet) /\ Distinct(r)
      /\ \A j \in DOMAIN r : \E i \in DOMAIN entries \ {p} : j <= i /\ r[j] = entries[i]
      /\ \A i \in DOMAIN entries \ {p} : \E j \in DOMAIN r : r[j] = entries[i]
  BY <1>1, Removal
<1>4. Without(id) = r
  BY DEF Without
<1> HIDE DEF p, r
<1>5. \A i \in DOMAIN entries : entries[i].id = id <=> i = p
  BY <1>2 DEF p
<1> QED BY <1>3, <1>4, <1>5

LEMMA ClaimStep == IInv /\ [Next]_vars => ClaimInv'
<1> SUFFICES ASSUME IInv, [Next]_vars PROVE ClaimInv'
  OBVIOUS
<1>t. /\ TypeOK /\ QueueInv /\ ClaimInv /\ "queued" \in Phases /\ "interrupting" \in Phases
      /\ entries \in Seq(EntrySet) /\ entries' \in Seq(EntrySet)
      /\ DOMAIN entries = 1 .. Len(entries) /\ Len(entries) \in Nat
      /\ DOMAIN entries' = 1 .. Len(entries') /\ Len(entries') \in Nat
      /\ \A i \in DOMAIN entries : i <= i
  BY EntriesTyped, QueueTypes DEF IInv, Phases
<1>k. ASSUME UNCHANGED <<entries, slot, mine>>,
             pc' = pc \/ (pc # "idle" /\ pc' \notin {"idle", "first", "publish", "claimed", "journaled"})
      PROVE  ClaimInv'
  BY <1>k, <1>t, ClaimFrame
<1>n. ASSUME \A i \in DOMAIN entries' : entries'[i].phase # "claiming",
             pc' \notin {"claimed", "journaled"}, slot' # "run" => pc' = "idle"
      PROVE  ClaimInv'
  BY <1>n DEF ClaimInv
<1>p. ASSUME NEW from, "claiming" \notin from, entries' = Phased(from, "queued"),
             UNCHANGED <<slot, mine, pc>>
      PROVE  ClaimInv'
  BY <1>p, <1>t, Rephasing, ClaimFrame
<1>s. ASSUME Starting PROVE ClaimInv'
  <2>1. PICK id \in Claimable(TRUE) : slot = "none" /\ Starts(id)
    BY <1>s DEF Starting
  <2>2. pc = "idle" /\ id \in Ids /\ \A i \in DOMAIN entries : entries[i].phase # "claiming"
    BY <2>1, <1>t, ClaimableIs, NothingClaimed DEF ClaimInv
  <2>3. CASE StartAdmitted(id)
    BY <2>2, <2>3, <1>t, <1>n, Leaving DEF StartAdmitted, Leave, NewWorker
  <2>4. CASE StartRefused(id) \/ StartUnflushed(id)
    BY <2>4, <1>p DEF StartRefused, StartUnflushed, StartFailed, workerVars
  <2>5. CASE StartLate(id)
    <3> DEFINE s == Phased({"interrupting"}, "queued")
           p == Place(id)
           r == RemoveAt(s, p)
    <3>1. /\ s \in Seq(EntrySet) /\ DOMAIN s = DOMAIN entries
          /\ \A i \in DOMAIN s : s[i].id = entries[i].id /\ s[i].phase # "claiming"
      BY <2>2, <1>t, Rephasing
    <3>2. entries' = r /\ pc' = "idle"
      BY <2>2, <2>5 DEF StartLate, StartFailed, workerVars
    <3>3. p \in DOMAIN entries
      BY <2>2, Found
    <3> HIDE DEF s, p
    <3>4. Distinct(s)
      BY <3>1, <1>t DEF QueueInv, Distinct
    <3>5. \A j \in DOMAIN r : \E i \in DOMAIN s \ {p} : r[j] = s[i]
      BY <3>1, <3>3, <3>4, Removal
    <3> HIDE DEF r
    <3>6. \A i \in DOMAIN entries' : entries'[i].phase # "claiming"
      BY <3>1, <3>2, <3>5
    <3> QED BY <3>2, <3>6, <1>n
  <2> QED BY <2>1, <2>3, <2>4, <2>5 DEF Starts
<1>1. CASE SubmitEnqueue
  BY <1>1, <1>t, SubmitEnqueues, ClaimFrame DEF SubmitEnqueue, workerVars, slotVars
<1>2. CASE SubmitRefused \/ CancelRun
  BY <1>2, <1>k DEF SubmitRefused, CancelRun, queueVars, workerVars, slotVars
<1>3. CASE InterruptMark
  <2>1. UNCHANGED <<slot, mine, pc>>
    BY <1>3 DEF InterruptMark, workerVars, slotVars
  <2>2. CASE entries' = Marked(rpc.id, "interrupting") /\ Queued(rpc.id)
    <3>1. \A i \in DOMAIN entries : entries[i].id = rpc.id => entries[i].phase = "queued"
      BY <2>2, <1>t, Found DEF Queued, QueueInv
    <3> QED BY <2>1, <2>2, <3>1, <1>t, Rephasing, ClaimFrame
  <2> QED BY <1>3, <2>1, <2>2, <1>k DEF InterruptMark
<1>4. CASE \E id \in Inputs : SubmitCheck(id) \/ InterruptCheck(id)
  BY <1>4, <1>k DEF SubmitCheck, InterruptCheck, queueVars, workerVars, slotVars
<1>5. ASSUME NEW id \in Inputs, TakeBack(id) PROVE ClaimInv'
  <2>1. UNCHANGED <<slot, mine, pc>> /\ entries' = Without(id) /\ id \in Ids
    BY <1>5 DEF TakeBack, Queued, Leave, workerVars, slotVars
  <2>2. \A i \in DOMAIN entries : entries[i].id = id => entries[i].phase = "queued"
    BY <1>5, <1>t, Found DEF TakeBack, Queued, QueueInv
  <2> DEFINE r == Without(id)
  <2>3. /\ \A j \in DOMAIN r : \E i \in DOMAIN entries : j <= i /\ r[j] = entries[i]
        /\ \A i \in DOMAIN entries : entries[i].phase = "claiming" =>
              \E j \in DOMAIN r : r[j] = entries[i]
    BY <2>1, <2>2, <1>t, Leaving
  <2> HIDE DEF r
  <2> QED BY <2>1, <2>3, <1>t, ClaimFrame DEF r
<1>6. ASSUME NEW id \in Inputs, Edit(id) PROVE ClaimInv'
  <2>1. UNCHANGED <<slot, mine, pc>>
    BY <1>6 DEF Edit, workerVars, slotVars
  <2> QED BY <1>6, <2>1, <1>t, Editing, ClaimFrame
<1>7. CASE StopPause
  BY <1>7, <1>p DEF StopPause, workerVars, slotVars
<1>8. CASE RpcDispatch \/ Reconcile \/ SettledDispatch
  <2>1. Dispatch /\ UNCHANGED <<last, taken, others>>
    BY <1>8 DEF RpcDispatch, Reconcile, SettledDispatch
  <2>2. CASE UNCHANGED <<queueVars, workerVars, slot, journalVars, stopped, faults, last, taken, others>>
    BY <2>2, <1>k DEF queueVars, workerVars
  <2> QED BY <2>1, <2>2, <1>s, DispatchIs
<1>9. CASE PromptSend
  <2>1. slot = "none" /\ entries' = entries
    BY <1>9 DEF PromptSend
  <2>2. \A i \in DOMAIN entries' : entries'[i].phase # "claiming"
    BY <2>1, <1>t, NothingClaimed DEF ClaimInv
  <2> QED BY <1>9, <2>1, <2>2, <1>k, <1>n DEF PromptSend, NewWorker, workerVars
<1>10. CASE WorkerStep
  <2> USE DEF HostIdle, queueVars, slotVars
  <2>1. CASE SeesCancel \/ RunFails \/ Boundary
    BY <2>1, <1>k DEF SeesCancel, RunFails, Boundary, EndWith
  <2>2. CASE FirstRequest \/ NotJournaled \/ ModelStep \/ SealIfEmpty \/ SealLast \/ EndRun
    BY <2>2, <1>k DEF FirstRequest, NotJournaled, ModelStep, ToolCalls, Answer, Boundary, EndWith,
       SealIfEmpty, SealLast, EndRun, Go
  <2>3. CASE ClaimNext
    <3>1. CASE UNCHANGED entries /\ Go("model")
      BY <2>3, <3>1, <1>k DEF ClaimNext, Go
    <3>2. CASE \E id \in Claimable(FALSE) : entries' = Marked(id, "claiming") /\ mine' = id /\ pc' = "claimed"
      <4>1. PICK id \in Claimable(FALSE) : entries' = Marked(id, "claiming") /\ mine' = id /\ pc' = "claimed"
        BY <3>2
      <4>a. id \in Ids /\ Place(id) = 1
        BY <4>1, <1>t, ClaimableIs
      <4>b. pc = "step" /\ slot' = slot
        BY <2>3 DEF ClaimNext
      <4>2. id \in Ids /\ Place(id) = 1 /\ pc = "step" /\ slot' = slot /\ "claiming" \in Phases
            /\ 1 \in DOMAIN entries /\ entries[1].id = id
        BY <4>a, <4>b, Found DEF Phases
      <4>3. slot = "run" /\ \A i \in DOMAIN entries : entries[i].phase = "claiming" => i = 1
        BY <4>2, <1>t DEF ClaimInv
      <4>4. \A i \in DOMAIN entries : entries[i].id = id <=> i = 1
        BY <4>2, <1>t DEF QueueInv
      <4>5. /\ \A i \in DOMAIN entries' : entries'[i].phase = "claiming" => i = 1 /\ entries'[i].id = id
            /\ 1 \in DOMAIN entries' /\ entries'[1].phase = "claiming"
        BY <4>1, <4>2, <4>3, <4>4, <1>t, Rephasing
      <4> QED BY <4>1, <4>2, <4>3, <4>5 DEF ClaimInv
    <3> QED BY <2>3, <3>1, <3>2 DEF ClaimNext
  <2>4. CASE Journaled
    BY <2>4, <1>t DEF Journaled, Go, ClaimInv
  <2>5. CASE Received
    <3>1. mine \in Ids /\ entries' = Without(mine) /\ slot = "run"
      BY <2>5, <1>t, Claimed DEF Received, Leave, ClaimInv
    <3>2. \A i \in DOMAIN entries : entries[i].phase = "claiming" => entries[i].id = mine
      BY <1>t DEF ClaimInv
    <3> DEFINE r == Without(mine)
    <3>r. \A j \in DOMAIN r : r[j].id # mine /\ \E i \in DOMAIN entries : r[j] = entries[i]
      BY <3>1, <1>t, Leaving
    <3>3. \A i \in DOMAIN entries' : entries'[i].phase # "claiming"
      BY <3>1, <3>2, <3>r
    <3> QED BY <2>5, <3>1, <3>3, <1>n DEF Received
  <2>6. CASE SettleInputs
    <3>1. \E from : "claiming" \in from /\ entries' = Phased(from, "queued")
      BY <2>6 DEF SettleInputs, Settled
    <3>2. \A i \in DOMAIN entries' : entries'[i].phase # "claiming"
      BY <3>1, <1>t, Rephasing
    <3> QED BY <2>6, <3>2, <1>t, <1>n DEF SettleInputs, ClaimInv
  <2>7. CASE Publish
    <3>1. \A i \in DOMAIN entries' : entries'[i].phase # "claiming"
      BY <2>7, <1>t, NothingClaimed DEF Publish
    <3> QED BY <2>7, <3>1, <1>n DEF Publish, Go
  <2> QED BY <1>10, <2>1, <2>2, <2>3, <2>4, <2>5, <2>6, <2>7 DEF WorkerStep
<1>11. CASE \/ FinishRun \/ AutoFinished \/ AutoReaped \/ AutoStart
  BY <1>11, <1>t DEF FinishRun, AutoFinished, AutoReaped, AutoStart, SlotIdle, queueVars,
     workerVars, ClaimInv
<1>12. CASE CompactEnd \/ CompactStart \/ WriterCommits \/ UNCHANGED vars
  BY <1>12, <1>k DEF CompactEnd, CompactStart, WriterCommits, SlotIdle, vars, queueVars,
     workerVars, slotVars
<1> QED BY <1>1, <1>2, <1>3, <1>4, <1>5, <1>6, <1>7, <1>8, <1>9, <1>10, <1>11, <1>12
        DEF Next, RpcStep, UserStep, SlotStep

-----------------------------------------------------------------------------
(* The queue: one place for each input, and marks that name someone in it *)

LEMMA QueueStep == IInv /\ [Next]_vars => QueueInv'
<1> SUFFICES ASSUME IInv, [Next]_vars PROVE QueueInv'
  OBVIOUS
<1>t. /\ TypeOK /\ QueueInv /\ ClaimInv /\ HostInv
      /\ {"queued", "interrupting", "claiming"} \subseteq Phases
      /\ entries \in Seq(EntrySet) /\ entries' \in Seq(EntrySet)
      /\ DOMAIN entries = 1 .. Len(entries) /\ Len(entries) \in Nat
      /\ DOMAIN entries' = 1 .. Len(entries') /\ Len(entries') \in Nat
      /\ Nil \notin Inputs
  BY EntriesTyped, QueueTypes, InputAssumption DEF IInv, Phases
<1>i. \A i \in DOMAIN entries : entries[i].id \in Inputs /\ entries[i].id # Nil
  BY <1>t, EntriesTyped
\* The same inputs, in other phases.
<1>p. ASSUME DOMAIN entries' = DOMAIN entries, UNCHANGED <<last, taken>>,
             \A i \in DOMAIN entries : /\ entries'[i].id = entries[i].id
                                       /\ entries'[i].version = entries[i].version
                                       /\ entries'[i].phase = "interrupting" <=> handoff' = entries[i].id,
             \A mark \in {handoff', initial'} \ {Nil} :
                \E i \in DOMAIN entries : entries[i].id = mark /\ entries'[i].phase # "claiming"
      PROVE  QueueInv'
  <2>1. \A i, j \in DOMAIN entries' : entries'[i].id = entries'[j].id => i = j
    BY <1>p, <1>t DEF QueueInv
  <2>2. \A i \in DOMAIN entries' :
           /\ entries'[i].version = last'[entries'[i].id] /\ entries'[i].id \notin taken'
           /\ entries'[i].phase = "interrupting" <=> handoff' = entries'[i].id
    BY <1>p, <1>t DEF QueueInv
  <2>3. \A mark \in {handoff', initial'} \ {Nil} :
           \E i \in DOMAIN entries' : entries'[i].id = mark /\ entries'[i].phase # "claiming"
    BY <1>p
  <2>4. \A id \in taken' : last'[id] > 0
    BY <1>p, <1>t DEF QueueInv
  <2> QED BY <2>1, <2>2, <2>3, <2>4 DEF QueueInv
\* One input less.
<1>l. ASSUME NEW id \in Ids, Leave(id), UNCHANGED last, taken' \subseteq taken \cup {id}
      PROVE  QueueInv'
  <2> DEFINE r == Without(id)
  <2>1. /\ Distinct(r)
        /\ \A j \in DOMAIN r : r[j].id # id /\ \E i \in DOMAIN entries : r[j] = entries[i]
        /\ \A i \in DOMAIN entries : entries[i].id # id => \E j \in DOMAIN r : r[j] = entries[i]
    BY <1>t, Leaving
  <2>2. entries' = r /\ handoff' = Unless(handoff, id) /\ initial' = Unless(initial, id)
    BY <1>l DEF Leave
  <2> HIDE DEF r
  <2>3. ASSUME NEW j \in DOMAIN entries'
        PROVE  /\ entries'[j].version = last'[entries'[j].id] /\ entries'[j].id \notin taken'
               /\ entries'[j].phase = "interrupting" <=> handoff' = entries'[j].id
    <3>1. PICK i \in DOMAIN entries : entries'[j] = entries[i] /\ entries[i].id # id
      BY <2>1, <2>2
    <3>2. /\ entries[i].version = last[entries[i].id] /\ entries[i].id \notin taken
          /\ entries[i].phase = "interrupting" <=> handoff = entries[i].id
      BY <1>t DEF QueueInv
    <3> QED BY <1>l, <1>i, <2>2, <3>1, <3>2 DEF Unless
  <2>4. ASSUME NEW mark \in {handoff', initial'} \ {Nil}
        PROVE  \E j \in DOMAIN entries' : entries'[j].id = mark /\ entries'[j].phase # "claiming"
    <3>1. mark \in {handoff, initial} \ {Nil} /\ mark # id
      BY <2>2 DEF Unless
    <3>2. PICK i \in DOMAIN entries : entries[i].id = mark /\ entries[i].phase # "claiming"
      BY <1>t, <3>1 DEF QueueInv
    <3> QED BY <2>1, <2>2, <3>1, <3>2
  <2>5. \A x \in taken' : last'[x] > 0
    <3>1. PICK i \in DOMAIN entries : entries[i].id = id
      BY DEF Ids
    <3>2. last[id] \in Versions
      BY <1>t, <3>1, EntriesTyped DEF QueueInv, EntrySet
    <3> QED BY <1>l, <1>t, <3>2 DEF QueueInv, Versions
  <2> QED BY <2>1, <2>2, <2>3, <2>4, <2>5 DEF QueueInv, Distinct
<1>f. ASSUME NEW m \in {handoff, initial} \ {Nil}
      PROVE  \E i \in DOMAIN entries : entries[i].id = m /\ entries[i].phase # "claiming"
  BY <1>t DEF QueueInv
<1>1. CASE SubmitEnqueue
  <2>1. /\ rpc.id \in Inputs /\ last[rpc.id] = 0 /\ last' = [last EXCEPT ![rpc.id] = 1]
        /\ last \in [Inputs -> {0} \cup Versions]
        /\ Len(entries') = Len(entries) + 1
        /\ \A i \in DOMAIN entries : entries'[i] = entries[i] /\ entries[i].id # rpc.id
        /\ entries'[Len(entries) + 1] = [id |-> rpc.id, version |-> 1, phase |-> "queued"]
    BY <1>1, SubmitEnqueues, <1>t DEF TypeOK
  <2>2. handoff' = handoff /\ initial' \in {initial, rpc.id} /\ taken' = taken
    BY <1>1 DEF SubmitEnqueue
  <2>3. rpc.id \notin taken /\ handoff # rpc.id /\ rpc.id # Nil
    <3>1. rpc.id \notin taken
      BY <2>1, <1>t DEF QueueInv
    <3> QED BY <3>1, <1>t, <1>f, <2>1
  <2>4. \A i \in DOMAIN entries' : i \in DOMAIN entries \/ i = Len(entries) + 1
    BY <1>t, <2>1
  <2>5. DOMAIN entries \subseteq DOMAIN entries' /\ Len(entries) + 1 \in DOMAIN entries'
    BY <1>t, <2>1
  <2>6. \A i, j \in DOMAIN entries' : entries'[i].id = entries'[j].id => i = j
    BY <2>1, <2>4, <1>t DEF QueueInv
  <2>7. \A i \in DOMAIN entries' :
           /\ entries'[i].version = last'[entries'[i].id] /\ entries'[i].id \notin taken'
           /\ entries'[i].phase = "interrupting" <=> handoff' = entries'[i].id
    BY <2>1, <2>2, <2>3, <2>4, <1>t, <1>i DEF QueueInv
  <2>8. ASSUME NEW mark \in {handoff', initial'} \ {Nil}
        PROVE  \E i \in DOMAIN entries' : entries'[i].id = mark /\ entries'[i].phase # "claiming"
    <3>1. CASE mark = rpc.id
      BY <2>1, <2>5, <3>1
    <3>2. CASE mark \in {handoff, initial} \ {Nil}
      <4>1. PICK i \in DOMAIN entries : entries[i].id = mark /\ entries[i].phase # "claiming"
        BY <1>f, <3>2
      <4>2. entries'[i] = entries[i] /\ i \in DOMAIN entries'
        BY <2>1, <2>5
      <4> QED BY <4>1, <4>2
    <3> QED BY <2>2, <3>1, <3>2
  <2>9. \A id \in taken' : last'[id] > 0
    BY <2>1, <2>2, <2>3, <1>t DEF QueueInv, TypeOK
  <2> QED BY <2>6, <2>7, <2>8, <2>9 DEF QueueInv
<1>2. CASE InterruptMark
  <2>1. CASE entries' = Marked(rpc.id, "interrupting") /\ handoff = Nil /\ Queued(rpc.id) /\ handoff' = rpc.id
    <3>1. UNCHANGED <<initial, last, taken>>
      BY <1>2 DEF InterruptMark
    <3>2. /\ DOMAIN entries' = DOMAIN entries
          /\ \A i \in DOMAIN entries :
               /\ entries'[i].id = entries[i].id /\ entries'[i].version = entries[i].version
               /\ entries'[i].phase = IF entries[i].id = rpc.id THEN "interrupting" ELSE entries[i].phase
      BY <2>1, <1>t, Rephasing
    <3>3. \A i \in DOMAIN entries : entries[i].phase # "interrupting"
      BY <2>1, <1>t, <1>i DEF QueueInv
    <3>4. rpc.id \in Ids
      BY <2>1 DEF Queued
    <3>5. \E i \in DOMAIN entries : entries[i].id = rpc.id
      BY <3>4, Found
    <3> QED BY <2>1, <3>1, <3>2, <3>3, <3>5, <1>p, <1>f
  <2>2. CASE UNCHANGED <<entries, handoff>>
    BY <1>2, <2>2, <1>t DEF InterruptMark, QueueInv
  <2> QED BY <1>2, <2>1, <2>2 DEF InterruptMark
\* Pause drops both marks, and nobody interrupts any more.
<1>q. ASSUME NEW s, s = Phased({"interrupting"}, "queued")
      PROVE  /\ s \in Seq(EntrySet) /\ DOMAIN s = DOMAIN entries
             /\ \A i \in DOMAIN entries : /\ s[i].id = entries[i].id
                                          /\ s[i].version = entries[i].version
                                          /\ s[i].phase # "interrupting"
  BY <1>q, <1>t, Rephasing
<1>3. CASE StopPause
  <2>1. entries' = Phased({"interrupting"}, "queued") /\ handoff' = Nil /\ initial' = Nil
        /\ UNCHANGED <<last, taken>>
    BY <1>3 DEF StopPause, Pause
  <2> QED BY <2>1, <1>q, <1>p, <1>i
<1>4. ASSUME NEW id \in Inputs, TakeBack(id) PROVE QueueInv'
  BY <1>4, <1>l DEF TakeBack, Queued
<1>5. ASSUME NEW id \in Inputs, Edit(id) PROVE QueueInv'
  <2>1. UNCHANGED <<handoff, initial, taken>>
    BY <1>5 DEF Edit
  <2>2. /\ DOMAIN entries' = DOMAIN entries
        /\ \A i \in DOMAIN entries :
                 /\ entries'[i].id = entries[i].id /\ entries'[i].phase = entries[i].phase
                 /\ entries'[i].version = last'[entries'[i].id]
    BY <1>5, <1>t, Editing
  <2>3. \A x \in taken : last'[x] > 0
    <3>1. taken \subseteq Inputs /\ \A x \in taken : last[x] > 0 /\ last[x] \in Nat
      BY <1>t DEF QueueInv, TypeOK, Versions
    <3>2. last'[id] = last[id] + 1 /\ \A x \in Inputs \ {id} : last'[x] = last[x]
      BY <1>5, Editing
    <3> QED BY <3>1, <3>2
  <2>4. \A i, j \in DOMAIN entries' : entries'[i].id = entries'[j].id => i = j
    BY <2>2, <1>t DEF QueueInv
  <2>5. \A i \in DOMAIN entries' :
           /\ entries'[i].version = last'[entries'[i].id] /\ entries'[i].id \notin taken'
           /\ entries'[i].phase = "interrupting" <=> handoff' = entries'[i].id
    BY <2>1, <2>2, <1>t DEF QueueInv
  <2>6. ASSUME NEW mark \in {handoff', initial'} \ {Nil}
        PROVE  \E i \in DOMAIN entries' : entries'[i].id = mark /\ entries'[i].phase # "claiming"
    <3>1. PICK i \in DOMAIN entries : entries[i].id = mark /\ entries[i].phase # "claiming"
      BY <2>1, <1>f
    <3> QED BY <2>2, <3>1
  <2> QED BY <2>1, <2>3, <2>4, <2>5, <2>6 DEF QueueInv
<1>6. CASE Starting
  <2>1. PICK id \in Claimable(TRUE) : Starts(id) /\ UNCHANGED <<last, taken>>
    BY <1>6 DEF Starting
  <2>2. id \in Ids
    BY <1>t, ClaimableIs
  <2>3. CASE StartAdmitted(id)
    BY <2>1, <2>2, <2>3, <1>l DEF StartAdmitted
  <2>4. CASE StartRefused(id) \/ StartUnflushed(id)
    <3>1. entries' = Phased({"interrupting"}, "queued") /\ handoff' = Nil /\ initial' = Nil
      BY <2>4 DEF StartRefused, StartUnflushed, StartFailed, Pause
    <3> QED BY <2>1, <3>1, <1>q, <1>p, <1>i
  <2>5. CASE StartLate(id)
    <3> DEFINE s == Phased({"interrupting"}, "queued")
               p == Place(id)
               r == RemoveAt(s, p)
    <3>1. /\ s \in Seq(EntrySet) /\ DOMAIN s = DOMAIN entries
          /\ \A i \in DOMAIN entries : /\ s[i].id = entries[i].id /\ s[i].version = entries[i].version
                                       /\ s[i].phase # "interrupting"
      BY <1>q
    <3>2. entries' = r /\ handoff' = Nil /\ initial' = Nil
      BY <2>5 DEF StartLate, StartFailed, Pause
    <3>3. p \in DOMAIN entries
      BY <2>2, Found
    <3> HIDE DEF s, p
    <3>4. Distinct(s)
      BY <3>1, <1>t DEF QueueInv, Distinct
    <3>5. Distinct(r) /\ \A j \in DOMAIN r : \E i \in DOMAIN s \ {p} : r[j] = s[i]
      BY <3>1, <3>3, <3>4, Removal
    <3> HIDE DEF r
    <3>6. ASSUME NEW j \in DOMAIN entries'
          PROVE  /\ entries'[j].version = last'[entries'[j].id] /\ entries'[j].id \notin taken'
                 /\ entries'[j].phase # "interrupting" /\ handoff' # entries'[j].id
      <4>1. PICK i \in DOMAIN entries : entries'[j] = s[i]
        BY <3>1, <3>2, <3>5
      <4>2. entries[i].version = last[entries[i].id] /\ entries[i].id \notin taken
        BY <1>t DEF QueueInv
      <4> QED BY <2>1, <3>1, <3>2, <4>1, <4>2, <1>i
    <3> QED BY <2>1, <3>2, <3>5, <3>6, <1>t DEF QueueInv, Distinct
  <2> QED BY <2>1, <2>3, <2>4, <2>5 DEF Starts
<1>7. CASE ClaimNext
  <2>1. UNCHANGED <<handoff, initial, last, taken>>
    BY <1>7 DEF ClaimNext, HostIdle
  <2>2. CASE \E id \in Claimable(FALSE) : entries' = Marked(id, "claiming")
    <3>1. PICK id \in Claimable(FALSE) : entries' = Marked(id, "claiming")
      BY <2>2
    <3>2. handoff = Nil /\ initial = Nil
      BY <3>1, <1>t, ClaimableIs
    <3>3. /\ DOMAIN entries' = DOMAIN entries
          /\ \A i \in DOMAIN entries :
               /\ entries'[i].id = entries[i].id /\ entries'[i].version = entries[i].version
               /\ entries'[i].phase \in {"claiming", entries[i].phase}
      BY <3>1, <1>t, Rephasing
    <3>4. \A i \in DOMAIN entries : entries[i].phase # "interrupting"
      BY <3>2, <1>t, <1>i DEF QueueInv
    <3> QED BY <2>1, <3>2, <3>3, <3>4, <1>p, <1>i
  <2>3. CASE UNCHANGED entries
    BY <2>1, <2>3, <1>t DEF QueueInv
  <2> QED BY <1>7, <2>2, <2>3 DEF ClaimNext
<1>8. CASE Received
  <2>1. mine \in Ids
    BY <1>8, <1>t, Claimed DEF Received
  <2> QED BY <1>8, <2>1, <1>l DEF Received, HostIdle
<1>9. CASE SettleInputs
  <2> DEFINE dropped == outcome = "failed" /\ handoff # Nil
             from == {"claiming"} \cup IF dropped THEN {"interrupting"} ELSE {}
  <2>1. /\ handoff' = IF dropped THEN Nil ELSE handoff
        /\ entries' = Phased(from, "queued") /\ UNCHANGED <<initial, last, taken>>
    BY <1>9 DEF SettleInputs, Settled, HostIdle
  <2>2. /\ "claiming" \in from
        /\ dropped => "interrupting" \in from
        /\ ~dropped => "interrupting" \notin from
    OBVIOUS
  <2> HIDE DEF from, dropped
  <2>3. /\ DOMAIN entries' = DOMAIN entries
        /\ \A i \in DOMAIN entries :
             /\ entries'[i].id = entries[i].id /\ entries'[i].version = entries[i].version
             /\ entries'[i].phase = IF entries[i].phase \in from THEN "queued" ELSE entries[i].phase
    BY <2>1, <1>t, Rephasing
  <2>4. \A i \in DOMAIN entries : entries[i].phase = "interrupting" <=> handoff = entries[i].id
    BY <1>t DEF QueueInv
  <2>5. \A i \in DOMAIN entries : /\ entries'[i].phase = "interrupting" <=> handoff' = entries[i].id
                                  /\ entries'[i].phase # "claiming"
    <3> TAKE i \in DOMAIN entries
    <3>1. entries[i].phase \in Phases
      BY <1>t, EntriesTyped
    <3>2. /\ entries'[i].phase = IF entries[i].phase \in from THEN "queued" ELSE entries[i].phase
          /\ entries[i].phase = "interrupting" <=> handoff = entries[i].id
          /\ entries[i].id # Nil
      BY <2>3, <2>4, <1>i
    <3> QED BY <2>1, <2>2, <3>1, <3>2 DEF Phases
  <2>6. ASSUME NEW mark \in {handoff', initial'} \ {Nil}
        PROVE  \E i \in DOMAIN entries : entries[i].id = mark
    BY <2>1, <1>f
  <2> QED BY <2>1, <2>3, <2>5, <2>6, <1>p
<1>10. CASE UNCHANGED <<entries, handoff, initial, last, taken>>
  BY <1>10, <1>t DEF QueueInv
<1> QED BY <1>1, <1>2, <1>3, <1>4, <1>5, <1>6, <1>7, <1>8, <1>9, <1>10, QueueMoves

-----------------------------------------------------------------------------
(* The journal: nothing that left the queue is missing, nothing is there twice *)

LEMMA CopiesOf ==
    ASSUME TypeOK, NEW id
    PROVE  /\ Copies(id) = {i \in DOMAIN Journal : Journal[i].id = id}
           /\ Journal' = Journal => Copies(id)' = Copies(id)
           /\ \A m \in Messages : Journal' = Append(Journal, m) =>
                 Copies(id)' = Copies(id) \cup IF m.id = id THEN {Len(Journal) + 1} ELSE {}
<1>1. Copies(id) = {i \in DOMAIN Journal : Journal[i].id = id}
  BY DEF Copies, Journal
<1>2. Copies(id)' = {i \in DOMAIN Journal' : Journal'[i].id = id}
  BY DEF Copies, Journal
<1>3. ASSUME NEW m \in Messages, Journal' = Append(Journal, m)
      PROVE  Copies(id)' = Copies(id) \cup IF m.id = id THEN {Len(Journal) + 1} ELSE {}
  <2>1. /\ DOMAIN Journal' = 1 .. Len(Journal) + 1 /\ Journal'[Len(Journal) + 1] = m
        /\ \A i \in 1 .. Len(Journal) : Journal'[i] = Journal[i]
        /\ DOMAIN Journal = 1 .. Len(Journal) /\ Len(Journal) \in Nat
    BY <1>3, JournalTyped
  <2> QED BY <1>1, <1>2, <2>1
<1> QED BY <1>1, <1>2, <1>3

LEMMA PlacesOf == \A id : Places(id) = {} <=> id \notin Ids
  BY DEF Places, Ids

\* Nothing is written, and nobody comes, goes or changes.
LEMMA JournalFrame ==
    ASSUME IInv, Grows, Journal' = Journal, UNCHANGED <<last, taken>>,
           \A id \in Inputs : id \in Ids' <=> id \in Ids,
           pc' = "journaled" <=> pc = "journaled", pc = "journaled" => mine' = mine
    PROVE  JournalInv'
<1>1. ASSUME NEW id \in Inputs, (last[id] > 0 /\ Places(id) = {} /\ id \notin taken)'
      PROVE  OnDisk([id |-> id, version |-> last[id]])'
  <2>1. OnDisk([id |-> id, version |-> last[id]])
    BY <1>1, PlacesOf DEF IInv, JournalInv, Places, Ids
  <2> QED BY <2>1 DEF Grows, OnDisk
<1>2. ASSUME pc' = "journaled" PROVE OnDisk([id |-> mine, version |-> last[mine]])'
  <2>1. OnDisk([id |-> mine, version |-> last[mine]]) /\ mine' = mine
    BY <1>2 DEF IInv, JournalInv
  <2> QED BY <2>1 DEF Grows, OnDisk
<1>3. ASSUME NEW id \in Inputs \ doubted', NEW a \in Copies(id)'
      PROVE  /\ \A b \in Copies(id)' : a = b
             /\ last'[id] > 0 /\ id \notin taken'
             /\ Places(id)' = {} \/ (pc' = "journaled" /\ mine' = id)
  <2>1. id \in Inputs \ doubted /\ Copies(id)' = Copies(id)
    BY CopiesOf DEF Grows, IInv
  <2> QED BY <1>3, <2>1, PlacesOf DEF IInv, JournalInv, Places, Ids
<1> QED BY <1>1, <1>2, <1>3 DEF JournalInv

LEMMA WorkerMoves ==
    ASSUME IInv, [Next]_vars
    PROVE  \/ Journaled \/ Received
           \/ /\ pc' = "journaled" <=> pc = "journaled"
              /\ pc = "journaled" => mine' = mine
<1>1. CASE RpcDispatch \/ Reconcile \/ SettledDispatch
  <2>1. Dispatch /\ UNCHANGED <<last, taken, others>>
    BY <1>1 DEF RpcDispatch, Reconcile, SettledDispatch
  <2>2. CASE Starting
    <3>1. pc = "idle" /\ (UNCHANGED <<pc, mine>> \/ pc' = "first")
      BY <2>2 DEF Starting, Starts, StartAdmitted, NewWorker, StartRefused, StartUnflushed,
         StartLate, StartFailed, workerVars, IInv, ClaimInv
    <3> QED BY <3>1
  <2> QED BY <2>1, <2>2, DispatchIs DEF workerVars
<1>2. CASE PromptSend
  <2>1. pc = "idle" /\ (UNCHANGED <<pc, mine>> \/ pc' = "first")
    BY <1>2 DEF PromptSend, NewWorker, workerVars, IInv, ClaimInv
  <2> QED BY <2>1
<1>3. CASE WorkerStep
  BY <1>3 DEF WorkerStep, SeesCancel, RunFails, FirstRequest, ClaimNext, NotJournaled, ModelStep,
     ToolCalls, Answer, Boundary, SealIfEmpty, SealLast, EndRun, SettleInputs, Publish, EndWith, Go
<1>4. CASE \/ SubmitEnqueue \/ SubmitRefused \/ InterruptMark \/ CancelRun \/ StopPause
           \/ \E id \in Inputs : SubmitCheck(id) \/ InterruptCheck(id) \/ TakeBack(id) \/ Edit(id)
  BY <1>4 DEF SubmitEnqueue, SubmitRefused, InterruptMark, CancelRun, StopPause, SubmitCheck,
     InterruptCheck, TakeBack, Edit, workerVars
<1>5. CASE \/ FinishRun \/ AutoFinished \/ AutoReaped \/ CompactEnd \/ AutoStart \/ CompactStart
           \/ WriterCommits \/ UNCHANGED vars
  BY <1>5 DEF FinishRun, AutoFinished, AutoReaped, CompactEnd, AutoStart, CompactStart,
     WriterCommits, SlotIdle, vars, workerVars
<1> QED BY <1>1, <1>2, <1>3, <1>4, <1>5 DEF Next, RpcStep, UserStep, SlotStep

LEMMA IdsKept ==
    ASSUME IInv, InterruptMark \/ StopPause \/ ClaimNext \/ SettleInputs
                 \/ UNCHANGED <<entries, last, taken>>
    PROVE  (\A id : id \in Ids' <=> id \in Ids) /\ UNCHANGED <<last, taken>>
<1>1. UNCHANGED <<last, taken>>
  BY DEF InterruptMark, StopPause, ClaimNext, SettleInputs, HostIdle
<1>2. \/ entries' = entries \/ \E from : entries' = Phased(from, "queued")
      \/ \E id, to \in Phases : entries' = Marked(id, to)
      \/ \E id : entries' = Marked(id, "interrupting") \/ entries' = Marked(id, "claiming")
  BY DEF InterruptMark, StopPause, Pause, ClaimNext, SettleInputs, Settled
<1>3. {"queued", "interrupting", "claiming"} \subseteq Phases /\ TypeOK
  BY DEF Phases, IInv
<1>4. DOMAIN entries' = DOMAIN entries /\ \A i \in DOMAIN entries : entries'[i].id = entries[i].id
  BY <1>2, <1>3, Rephasing, EntriesTyped
<1> QED BY <1>1, <1>4 DEF Ids

\* The ids that remain when one leaves.
LEMMA IdsLeft ==
    ASSUME IInv, NEW id \in Ids, entries' = Without(id)
    PROVE  \A x : x \in Ids' <=> x \in Ids /\ x # id
<1> DEFINE r == Without(id)
<1>1. /\ \A j \in DOMAIN r : r[j].id # id /\ \E i \in DOMAIN entries : r[j] = entries[i]
      /\ \A i \in DOMAIN entries : entries[i].id # id => \E j \in DOMAIN r : r[j] = entries[i]
  BY Leaving DEF IInv
<1>2. entries' = r
  OBVIOUS
<1> HIDE DEF r
<1>3. \A x \in Ids' : x \in Ids /\ x # id
  BY <1>1, <1>2 DEF Ids
<1>4. \A x \in Ids : x # id => x \in Ids'
  BY <1>1, <1>2 DEF Ids
<1> QED BY <1>3, <1>4

\* An undoubted entry that waits, and that no worker has written, has no copy.
LEMMA NoCopy ==
    ASSUME IInv, NEW id \in Ids, id \notin doubted, ~(pc = "journaled" /\ mine = id)
    PROVE  Copies(id) = {}
<1>1. id \in Inputs
  BY MsgTyped DEF IInv
<1> QED BY <1>1, PlacesOf DEF IInv, JournalInv

LEMMA LateLeft ==
    ASSUME IInv, NEW id \in Ids, StartLate(id)
    PROVE  \A x : x \in Ids' <=> x \in Ids /\ x # id
<1> DEFINE s == Phased({"interrupting"}, "queued")
           p == Place(id)
           r == RemoveAt(s, p)
<1>1. /\ s \in Seq(EntrySet) /\ DOMAIN s = DOMAIN entries
      /\ \A i \in DOMAIN entries : s[i].id = entries[i].id
  BY Rephasing, EntriesTyped DEF IInv, Phases
<1>2. p \in DOMAIN entries /\ entries[p].id = id /\ entries' = r
  BY Found DEF StartLate
<1>3. \A i, j \in DOMAIN entries : entries[i].id = entries[j].id => i = j
  BY DEF IInv, QueueInv
<1> HIDE DEF s, p
<1>4. Distinct(s)
  BY <1>1, <1>3 DEF Distinct
<1>5. /\ \A j \in DOMAIN r : \E i \in DOMAIN s \ {p} : r[j] = s[i]
      /\ \A i \in DOMAIN s \ {p} : \E j \in DOMAIN r : r[j] = s[i]
  BY <1>1, <1>2, <1>4, Removal
<1> HIDE DEF r
<1>6. \A x \in Ids' : x \in Ids /\ x # id
  BY <1>1, <1>2, <1>3, <1>5 DEF Ids
<1>7. \A x \in Ids : x # id => x \in Ids'
  BY <1>1, <1>2, <1>3, <1>5 DEF Ids
<1> QED BY <1>6, <1>7

\* An entry is written: it leaves, or the worker is about to take it out.
LEMMA CommitStep ==
    ASSUME IInv, NEW id \in Ids, Grows, Committed(id), UNCHANGED <<last, taken>>,
           pc # "journaled", pc' = "journaled" => mine' = id,
           \A x : x \in Ids' <=> x \in Ids /\ (x # id \/ pc' = "journaled")
    PROVE  JournalInv'
<1>1. PICK m \in Messages : m = Msg(id) /\ Journal' = Append(Journal, m) /\ OnDisk(m)'
  BY DEF Committed
<1>2. m = [id |-> id, version |-> last[id]] /\ id \in Inputs
  BY <1>1, MsgTyped DEF IInv
<1>3. ASSUME NEW x \in Inputs, (last[x] > 0 /\ Places(x) = {} /\ x \notin taken)'
      PROVE  OnDisk([id |-> x, version |-> last[x]])'
  <2>1. CASE x = id
    BY <1>1, <1>2, <2>1 DEF OnDisk
  <2>2. CASE x # id
    <3>1. OnDisk([id |-> x, version |-> last[x]])
      BY <1>3, <2>2, PlacesOf DEF IInv, JournalInv, Places, Ids
    <3> QED BY <3>1 DEF Grows, OnDisk
  <2> QED BY <2>1, <2>2
<1>4. ASSUME pc' = "journaled" PROVE OnDisk([id |-> mine, version |-> last[mine]])'
  BY <1>1, <1>2, <1>4 DEF OnDisk
<1>5. ASSUME NEW x \in Inputs \ doubted', NEW a \in Copies(x)'
      PROVE  /\ \A b \in Copies(x)' : a = b
             /\ last'[x] > 0 /\ x \notin taken'
             /\ Places(x)' = {} \/ (pc' = "journaled" /\ mine' = x)
  <2>1. x \in Inputs \ doubted
    BY DEF Grows
  <2>2. Copies(x)' = Copies(x) \cup IF m.id = x THEN {Len(Journal) + 1} ELSE {}
    BY <1>1, CopiesOf DEF IInv
  <2>3. CASE x = id
    <3>1. Copies(x) = {}
      BY <2>1, <2>3, NoCopy
    <3>2. PICK i \in DOMAIN entries : entries[i].id = id
      BY DEF Ids
    <3>3. last[id] \in Versions /\ id \notin taken
      BY <3>2, EntriesTyped DEF IInv, QueueInv, EntrySet
    <3>4. Places(x)' = {} \/ (pc' = "journaled" /\ mine' = x)
      BY <2>3 DEF Places, Ids
    <3> QED BY <2>2, <2>3, <3>1, <3>3, <3>4 DEF Versions
  <2>4. CASE x # id
    <3>1. Copies(x)' = Copies(x)
      BY <1>2, <2>2, <2>4
    <3>2. /\ \A b \in Copies(x) : a = b
          /\ last[x] > 0 /\ x \notin taken /\ x \notin Ids
      BY <2>1, <3>1, PlacesOf DEF IInv, JournalInv
    <3> QED BY <3>1, <3>2 DEF Places, Ids
  <2> QED BY <2>3, <2>4
<1> QED BY <1>3, <1>4, <1>5 DEF JournalInv

\* An entry is in doubt: what the journal says of it does not count.
LEMMA DoubtStep ==
    ASSUME IInv, NEW id \in Ids, Grows, Kept(id), UNCHANGED <<last, taken>>,
           pc # "journaled", pc' # "journaled", \A x : x \in Ids' <=> x \in Ids
    PROVE  JournalInv'
<1>1. PICK m \in Messages : m = Msg(id) /\ Journal' = Append(Journal, m) /\ id \in doubted'
  BY DEF Kept
<1>2. m.id = id
  BY <1>1, MsgTyped DEF IInv
<1>3. ASSUME NEW x \in Inputs, (last[x] > 0 /\ Places(x) = {} /\ x \notin taken)'
      PROVE  OnDisk([id |-> x, version |-> last[x]])'
  <2>1. OnDisk([id |-> x, version |-> last[x]])
    BY <1>3, PlacesOf DEF IInv, JournalInv, Places, Ids
  <2> QED BY <2>1 DEF Grows, OnDisk
<1>4. ASSUME NEW x \in Inputs \ doubted', NEW a \in Copies(x)'
      PROVE  /\ \A b \in Copies(x)' : a = b
             /\ last'[x] > 0 /\ x \notin taken' /\ Places(x)' = {}
  <2>1. x \in Inputs \ doubted /\ x # id
    BY <1>1 DEF Grows
  <2>2. Copies(x)' = Copies(x)
    BY <1>1, <1>2, <2>1, CopiesOf DEF IInv
  <2>3. /\ \A b \in Copies(x) : a = b
        /\ last[x] > 0 /\ x \notin taken /\ x \notin Ids
    BY <2>1, <2>2, PlacesOf DEF IInv, JournalInv
  <2> QED BY <2>2, <2>3 DEF Places, Ids
<1> QED BY <1>3, <1>4 DEF JournalInv

LEMMA JournalStep == IInv /\ [Next]_vars => JournalInv'
<1> SUFFICES ASSUME IInv, [Next]_vars PROVE JournalInv'
  OBVIOUS
<1>t. TypeOK /\ QueueInv /\ ClaimInv /\ HostInv /\ JournalInv
  BY DEF IInv
<1>g. Grows /\ (Journal' = Journal \/ Journaled \/ NotJournaled \/ Starting)
  BY <1>t, JournalMoves
<1>1. CASE Starting
  <2>1. PICK id \in Claimable(TRUE) : slot = "none" /\ Starts(id) /\ UNCHANGED <<last, taken>>
    BY <1>1 DEF Starting
  <2>2. id \in Ids /\ pc = "idle"
    BY <2>1, <1>t, ClaimableIs DEF ClaimInv
  <2>3. CASE (StartAdmitted(id) \/ StartLate(id)) /\ Committed(id)
    <3>1. pc' # "journaled"
      BY <2>2, <2>3 DEF StartAdmitted, NewWorker, StartLate, StartFailed, workerVars
    <3>2. \A x : x \in Ids' <=> x \in Ids /\ x # id
      BY <2>2, <2>3, IdsLeft, LateLeft DEF StartAdmitted, Leave
    <3> QED BY <1>g, <2>1, <2>2, <2>3, <3>1, <3>2, CommitStep
  <2>4. CASE (StartUnflushed(id) /\ Kept(id)) \/ (StartRefused(id) /\ Journal' = Journal)
    <3>1. /\ entries' = Phased({"interrupting"}, "queued") /\ UNCHANGED <<pc, mine>>
      BY <2>4 DEF StartUnflushed, StartRefused, StartFailed, workerVars
    <3>2. \A x : x \in Ids' <=> x \in Ids
      <4>1. /\ DOMAIN entries' = DOMAIN entries
            /\ \A i \in DOMAIN entries : entries'[i].id = entries[i].id
        BY <3>1, <1>t, Rephasing, EntriesTyped DEF Phases
      <4> QED BY <4>1 DEF Ids
    <3>3. CASE Kept(id)
      BY <1>g, <2>1, <2>2, <3>1, <3>2, <3>3, DoubtStep
    <3>4. CASE Journal' = Journal
      BY <1>g, <2>1, <3>1, <3>2, <3>4, JournalFrame
    <3> QED BY <2>4, <3>3, <3>4
  <2> QED BY <2>1, <2>3, <2>4, <1>t, StartWrites
<1>2. CASE Journaled
  <2>1. Committed(mine) /\ mine \in Ids /\ pc = "claimed"
    BY <1>2, <1>t, ClaimWrites, Claimed DEF Journaled
  <2>2. pc' = "journaled" /\ mine' = mine /\ UNCHANGED <<entries, last, taken>>
    BY <1>2 DEF Journaled, Go, queueVars, HostIdle
  <2>3. \A x : x \in Ids' <=> x \in Ids
    BY <2>2 DEF Ids
  <2> QED BY <1>g, <2>1, <2>2, <2>3, CommitStep
<1>3. CASE NotJournaled
  <2>1. mine \in Ids /\ pc = "claimed" /\ (Kept(mine) \/ Journal' = Journal)
    BY <1>3, <1>t, ClaimWrites, Claimed DEF NotJournaled
  <2>2. pc' = "model" /\ mine' = mine /\ UNCHANGED <<entries, last, taken>>
    BY <1>3 DEF NotJournaled, queueVars, HostIdle
  <2>3. \A x : x \in Ids' <=> x \in Ids
    BY <2>2 DEF Ids
  <2> QED BY <1>g, <2>1, <2>2, <2>3, DoubtStep, JournalFrame
<1>4. CASE Journal' = Journal /\ SubmitEnqueue
  <2>1. /\ rpc.id \in Inputs /\ last[rpc.id] = 0 /\ last' = [last EXCEPT ![rpc.id] = 1]
        /\ last \in [Inputs -> {0} \cup Versions]
    BY <1>4, <1>t, SubmitEnqueues DEF TypeOK
  <2>2. taken' = taken /\ pc' = pc /\ mine' = mine
    BY <1>4 DEF SubmitEnqueue, workerVars
  <2>3. \A x : x \in Ids' <=> x \in Ids \/ x = rpc.id
    <3> DEFINE n == Len(entries) + 1
    <3>1. /\ DOMAIN entries = 1 .. Len(entries) /\ DOMAIN entries' = 1 .. Len(entries) + 1
          /\ Len(entries) \in Nat
          /\ \A i \in DOMAIN entries : entries'[i] = entries[i]
          /\ entries'[n].id = rpc.id
      BY <1>4, <1>t, SubmitEnqueues, EntriesTyped
    <3>2. \A i \in DOMAIN entries' : i \in DOMAIN entries \/ i = n
      BY <3>1
    <3>3. DOMAIN entries \subseteq DOMAIN entries' /\ n \in DOMAIN entries'
      BY <3>1
    <3> QED BY <3>1, <3>2, <3>3 DEF Ids
  <2>4. rpc.id \notin Ids
    BY <1>4, <1>t, SubmitEnqueues DEF Ids
  <2>5. ASSUME NEW x \in Inputs, (last[x] > 0 /\ Places(x) = {} /\ x \notin taken)'
        PROVE  OnDisk([id |-> x, version |-> last[x]])'
    <3>1. x # rpc.id /\ x \notin Ids
      BY <2>3, <2>5 DEF Places, Ids
    <3>2. OnDisk([id |-> x, version |-> last[x]]) /\ last'[x] = last[x]
      BY <2>1, <2>2, <2>5, <3>1, <1>t, PlacesOf DEF JournalInv
    <3> QED BY <1>g, <3>2 DEF Grows, OnDisk
  <2>6. ASSUME pc' = "journaled" PROVE OnDisk([id |-> mine, version |-> last[mine]])'
    <3>1. mine # rpc.id /\ mine \in Inputs
      BY <2>2, <2>4, <2>6, <1>t, Claimed
    <3>2. OnDisk([id |-> mine, version |-> last[mine]]) /\ last'[mine] = last[mine]
      BY <2>1, <2>2, <2>6, <3>1, <1>t DEF JournalInv
    <3> QED BY <1>g, <2>2, <3>2 DEF Grows, OnDisk
  <2>7. ASSUME NEW x \in Inputs \ doubted', NEW a \in Copies(x)'
        PROVE  /\ \A b \in Copies(x)' : a = b
               /\ last'[x] > 0 /\ x \notin taken'
               /\ Places(x)' = {} \/ (pc' = "journaled" /\ mine' = x)
    <3>1. x \in Inputs \ doubted /\ Copies(x)' = Copies(x)
      BY <1>4, <1>g, <1>t, CopiesOf DEF Grows
    <3>2. /\ \A b \in Copies(x) : a = b
          /\ last[x] > 0 /\ x \notin taken
          /\ x \notin Ids \/ (pc = "journaled" /\ mine = x)
      BY <2>7, <3>1, <1>t, PlacesOf DEF JournalInv
    <3>3. x # rpc.id /\ last'[x] = last[x]
      BY <2>1, <3>1, <3>2
    <3> QED BY <2>2, <2>3, <3>1, <3>2, <3>3 DEF Places, Ids
  <2> QED BY <2>5, <2>6, <2>7 DEF JournalInv
\* What the user takes back or edits has no copy, unless one is in doubt.
<1>5. ASSUME NEW id \in Inputs, TakeBack(id) \/ Edit(id), Journal' = Journal PROVE JournalInv'
  <2>1. /\ id \in Ids /\ entries[Place(id)].phase = "queued"
        /\ pc' = pc /\ mine' = mine
    BY <1>5, Found DEF TakeBack, Edit, Queued, workerVars
  <2>2. pc = "journaled" => mine # id
    BY <2>1, <1>t, Claimed, Found
  <2>3. id \notin doubted => Copies(id) = {}
    BY <2>1, <2>2, NoCopy
  <2>4. \A x \in Inputs \ {id} : /\ last'[x] = last[x] /\ (x \in taken' <=> x \in taken)
                                 /\ x \in Ids' <=> x \in Ids
    <3>1. CASE TakeBack(id)
      BY <2>1, <3>1, IdsLeft DEF TakeBack, Leave
    <3>2. CASE Edit(id)
      <4>1. /\ DOMAIN entries' = DOMAIN entries
            /\ \A i \in DOMAIN entries : entries'[i].id = entries[i].id
        BY <3>2, <1>t, Editing, EntriesTyped
      <4> QED BY <3>2, <4>1, Editing DEF Edit, Ids
    <3> QED BY <1>5, <3>1, <3>2
  <2>5. id \in taken' \/ id \in Ids'
    <3>1. CASE Edit(id)
      <4>1. /\ DOMAIN entries' = DOMAIN entries
            /\ \A i \in DOMAIN entries : entries'[i].id = entries[i].id
        BY <3>1, <1>t, Editing, EntriesTyped
      <4> QED BY <2>1, <4>1 DEF Ids
    <3> QED BY <1>5, <3>1 DEF TakeBack
  <2>6. ASSUME NEW x \in Inputs, (last[x] > 0 /\ Places(x) = {} /\ x \notin taken)'
        PROVE  OnDisk([id |-> x, version |-> last[x]])'
    <3>1. x # id /\ x \notin Ids
      BY <2>4, <2>5, <2>6 DEF Places, Ids
    <3>2. OnDisk([id |-> x, version |-> last[x]]) /\ last'[x] = last[x]
      BY <2>4, <2>6, <3>1, <1>t, PlacesOf DEF JournalInv
    <3> QED BY <1>g, <3>2 DEF Grows, OnDisk
  <2>7. ASSUME pc' = "journaled" PROVE OnDisk([id |-> mine, version |-> last[mine]])'
    <3>1. mine # id /\ mine \in Inputs
      BY <2>1, <2>2, <2>7, <1>t, Claimed
    <3>2. OnDisk([id |-> mine, version |-> last[mine]]) /\ last'[mine] = last[mine]
      BY <2>1, <2>4, <2>7, <3>1, <1>t DEF JournalInv
    <3> QED BY <1>g, <2>1, <3>2 DEF Grows, OnDisk
  <2>8. ASSUME NEW x \in Inputs \ doubted', NEW a \in Copies(x)'
        PROVE  /\ \A b \in Copies(x)' : a = b
               /\ last'[x] > 0 /\ x \notin taken'
               /\ Places(x)' = {} \/ (pc' = "journaled" /\ mine' = x)
    <3>1. x \in Inputs \ doubted /\ Copies(x)' = Copies(x)
      BY <1>5, <1>g, <1>t, CopiesOf DEF Grows
    <3>2. /\ \A b \in Copies(x) : a = b
          /\ last[x] > 0 /\ x \notin taken
          /\ x \notin Ids \/ (pc = "journaled" /\ mine = x)
      BY <2>8, <3>1, <1>t, PlacesOf DEF JournalInv
    <3>3. x # id
      BY <2>3, <2>8, <3>1
    <3> QED BY <2>1, <2>4, <3>1, <3>2, <3>3 DEF Places, Ids
  <2> QED BY <2>6, <2>7, <2>8 DEF JournalInv
\* What the worker took out of the queue is what it wrote.
<1>6. CASE Journal' = Journal /\ Received
  <2>1. /\ pc = "journaled" /\ pc' = "model" /\ mine \in Ids /\ mine \in Inputs
        /\ entries' = Without(mine) /\ UNCHANGED <<last, taken>>
    BY <1>6, <1>t, Claimed DEF Received, Leave, HostIdle
  <2>2. \A x : x \in Ids' <=> x \in Ids /\ x # mine
    BY <2>1, IdsLeft
  <2>3. ASSUME NEW x \in Inputs, (last[x] > 0 /\ Places(x) = {} /\ x \notin taken)'
        PROVE  OnDisk([id |-> x, version |-> last[x]])'
    <3>1. OnDisk([id |-> x, version |-> last[x]])
      BY <2>1, <2>2, <2>3, <1>t, PlacesOf DEF JournalInv, Places, Ids
    <3> QED BY <1>g, <2>1, <3>1 DEF Grows, OnDisk
  <2>4. ASSUME NEW x \in Inputs \ doubted', NEW a \in Copies(x)'
        PROVE  /\ \A b \in Copies(x)' : a = b
               /\ last'[x] > 0 /\ x \notin taken' /\ Places(x)' = {}
    <3>1. x \in Inputs \ doubted /\ Copies(x)' = Copies(x)
      BY <1>6, <1>g, <1>t, CopiesOf DEF Grows
    <3>2. /\ \A b \in Copies(x) : a = b
          /\ last[x] > 0 /\ x \notin taken /\ (x \notin Ids \/ mine = x)
      BY <2>4, <3>1, <1>t, PlacesOf DEF JournalInv
    <3> QED BY <2>1, <2>2, <3>1, <3>2 DEF Places, Ids
  <2> QED BY <2>1, <2>3, <2>4 DEF JournalInv
<1>7. CASE /\ Journal' = Journal /\ ~Journaled /\ ~Received
           /\ InterruptMark \/ StopPause \/ ClaimNext \/ SettleInputs
              \/ UNCHANGED <<entries, handoff, initial, last, taken>>
  <2>1. (\A id : id \in Ids' <=> id \in Ids) /\ UNCHANGED <<last, taken>>
    BY <1>7, IdsKept
  <2>2. /\ pc' = "journaled" <=> pc = "journaled"
        /\ pc = "journaled" => mine' = mine
    BY <1>7, WorkerMoves
  <2> QED BY <1>7, <1>g, <2>1, <2>2, JournalFrame
<1> QED BY <1>g, <1>1, <1>2, <1>3, <1>4, <1>5, <1>6, <1>7, QueueMoves

-----------------------------------------------------------------------------
(* The strengthened invariant is inductive. *)
LEMMA Invariance == Spec => []IInv
<1>1. Init => IInv
  BY InitInvariant
<1>2. IInv /\ [Next]_vars => IInv'
  BY TypeStep, QueueStep, ClaimStep, HostStep, JournalStep DEF IInv
<1> QED BY <1>1, <1>2, PTL DEF Spec

(* Every variable of the host, the queue, the worker and the journal stays in *)
(* its domain: the queue never exceeds its limit, and no version outruns the *)
(* edits that were made.                                                     *)
THEOREM TypeCorrect == Spec => []TypeOK
<1>1. IInv => TypeOK
  BY DEF IInv
<1> QED BY <1>1, Invariance, PTL

(* A claimed entry has a worker that has yet to settle it, an interrupting   *)
(* one is the hand-off, and both marks name an entry that still waits, for   *)
(* every interleaving of submissions, interruptions, stops and runs.         *)
THEOREM ClaimsHaveOwners == Spec => []ClaimsAreLive
<1>1. IInv => ClaimsAreLive
  <2> SUFFICES ASSUME IInv PROVE ClaimsAreLive
    OBVIOUS
  <2>1. ASSUME NEW id \in Ids
        PROVE  /\ Entry(id).phase = "claiming" =>
                    pc \notin {"idle", "first", "publish"} /\ (mine = id \/ jerr)
               /\ Entry(id).phase = "interrupting" <=> handoff = id
    BY Found DEF IInv, QueueInv, ClaimInv
  <2>2. ASSUME NEW mark \in {handoff, initial} \ {Nil}
        PROVE  mark \in Ids /\ ~InFlight(mark)
    <3>1. PICK i \in DOMAIN entries : entries[i].id = mark /\ entries[i].phase # "claiming"
      BY DEF IInv, QueueInv
    <3>2. \A j \in DOMAIN entries : entries[j].id = mark => j = i
      BY <3>1 DEF IInv, QueueInv
    <3> QED BY <3>1, <3>2 DEF Ids, InFlight, Places
  <2> QED BY <2>1, <2>2 DEF ClaimsAreLive
<1> QED BY <1>1, Invariance, PTL

\* A set with at most one member.
LEMMA AtMostOne ==
    ASSUME NEW S, \A a, b \in S : a = b
    PROVE  Cardinality(S) <= 1 /\ (S = {} => Cardinality(S) = 0)
<1>1. CASE S = {}
  BY <1>1, FS_EmptySet
<1>2. CASE S # {}
  <2>1. PICK a \in S : TRUE
    BY <1>2
  <2>2. S = {a}
    BY <2>1
  <2> QED BY <1>2, <2>2, FS_Singleton
<1> QED BY <1>1, <1>2

(* No input is lost, doubled or resurrected, whatever fails and whenever the *)
(* user edits, takes back, interrupts or stops: it is in the queue once, or  *)
(* taken back, or its last edit is on disk; and unless a failed write left a *)
(* copy in doubt, the journal has it once, when it left or is about to leave. *)
THEOREM NothingLost == Spec => []Accounted
<1>1. IInv => Accounted
  <2> SUFFICES ASSUME IInv, NEW id \in Inputs
               PROVE  /\ Cardinality(Places(id)) <= (IF last[id] = 0 \/ id \in taken THEN 0 ELSE 1)
                      /\ last[id] > 0 /\ Places(id) = {} /\ id \notin taken
                           => OnDisk([id |-> id, version |-> last[id]])
                      /\ id \notin doubted =>
                           /\ Cardinality(Copies(id)) <= 1
                           /\ Copies(id) # {} => last[id] > 0 /\ id \notin taken
                                                  /\ (Places(id) = {} \/ InFlight(id))
    BY DEF Accounted
  <2>1. \A a, b \in Places(id) : a = b
    BY DEF IInv, QueueInv, Places
  <2>2. last[id] = 0 \/ id \in taken => Places(id) = {}
    <3> SUFFICES ASSUME NEW i \in Places(id) PROVE last[id] # 0 /\ id \notin taken
      OBVIOUS
    <3>1. i \in DOMAIN entries /\ entries[i].id = id /\ entries[i] \in EntrySet
      BY EntriesTyped DEF Places, IInv
    <3> QED BY <3>1 DEF IInv, QueueInv, EntrySet, Versions
  <2>3. ASSUME id \notin doubted, Copies(id) # {}
        PROVE  last[id] > 0 /\ id \notin taken /\ (Places(id) = {} \/ InFlight(id))
    <3>1. /\ last[id] > 0 /\ id \notin taken
          /\ Places(id) = {} \/ (pc = "journaled" /\ mine = id)
      BY <2>3 DEF IInv, JournalInv
    <3>2. pc = "journaled" /\ mine = id => InFlight(id)
      BY Claimed DEF IInv, InFlight, Places
    <3> QED BY <3>1, <3>2
  <2>4. id \notin doubted => \A a, b \in Copies(id) : a = b
    BY DEF IInv, JournalInv
  <2>5. last[id] > 0 /\ Places(id) = {} /\ id \notin taken
           => OnDisk([id |-> id, version |-> last[id]])
    BY DEF IInv, JournalInv
  <2>6. Cardinality(Places(id)) <= 1 /\ (Places(id) = {} => Cardinality(Places(id)) = 0)
    BY <2>1, AtMostOne
  <2>7. id \notin doubted => Cardinality(Copies(id)) <= 1
    BY <2>4, AtMostOne
  <2> QED BY <2>2, <2>3, <2>5, <2>6, <2>7
<1> QED BY <1>1, Invariance, PTL

(* A Stop and a failed start are boundaries: until the user submits or       *)
(* interrupts, no worker claims an entry, no start takes one, and nothing    *)
(* reaches the journal but the entry that was already claimed.               *)
THEOREM StopIsBoundary == Spec => StopHolds
<1>1. IInv /\ [Next]_vars =>
         [stopped /\ stopped' => \A id \in Inputs :
            /\ InFlight(id)' => InFlight(id)
            /\ Copies(id)' # {} => Copies(id) # {} \/ InFlight(id)]_vars
  <2> SUFFICES ASSUME IInv, [Next]_vars, stopped, stopped', NEW id \in Inputs
               PROVE  /\ InFlight(id)' => InFlight(id)
                      /\ Copies(id)' # {} => Copies(id) # {} \/ InFlight(id)
    OBVIOUS
  <2>1. ~Starting /\ Claimable(FALSE) = {}
    <3>1. paused
      BY DEF IInv, HostInv
    <3> QED BY <3>1 DEF Starting, Claimable
  <2>2. Copies(id)' # {} => Copies(id) # {} \/ InFlight(id)
    <3>1. CASE Journal' = Journal
      BY <3>1, CopiesOf DEF IInv
    <3>2. CASE (Journaled \/ NotJournaled) /\ Journal' # Journal
      <4>1. pc = "claimed" /\ (Committed(mine) \/ Kept(mine))
        BY <3>2, ClaimWrites DEF IInv, Journaled, NotJournaled
      <4>2. InFlight(mine) /\ mine \in Ids
        BY <4>1, Claimed DEF IInv, InFlight, Places
      <4>3. PICK m \in Messages : m = Msg(mine) /\ Journal' = Append(Journal, m)
        BY <4>1 DEF Committed, Kept
      <4>4. m.id = mine
        BY <4>2, <4>3, MsgTyped DEF IInv
      <4> QED BY <4>2, <4>3, <4>4, CopiesOf DEF IInv
    <3> QED BY <2>1, <3>1, <3>2, JournalMoves DEF IInv
  <2>3. ASSUME NEW j \in DOMAIN entries', entries'[j].id = id, entries'[j].phase = "claiming"
        PROVE  \E i \in DOMAIN entries : entries[i].id = id /\ entries[i].phase = "claiming"
    <3>t. TypeOK /\ QueueInv /\ ClaimInv /\ {"queued", "interrupting", "claiming"} \subseteq Phases
      BY DEF IInv, Phases
    <3>1. CASE entries' = entries
      BY <2>3, <3>1
    <3>2. CASE \E from : entries' = Phased(from, "queued")
      BY <2>3, <3>2, <3>t, Rephasing, EntriesTyped
    <3>3. CASE \E x \in Ids : entries' = Without(x)
      BY <2>3, <3>3, <3>t, Leaving
    <3>4. CASE \E x \in Inputs : Edit(x)
      BY <2>3, <3>4, <3>t, Editing, EntriesTyped
    <3>5. \/ entries' = entries \/ \E from : entries' = Phased(from, "queued")
          \/ \E x \in Ids : entries' = Without(x)
          \/ \E x \in Inputs : Edit(x)
      <4>1. ~SubmitEnqueue
        BY DEF SubmitEnqueue
      <4>2. InterruptMark => entries' = entries
        BY DEF InterruptMark
      <4>3. ClaimNext => entries' = entries
        BY <2>1 DEF ClaimNext
      <4>4. StopPause \/ SettleInputs => \E from : entries' = Phased(from, "queued")
        BY DEF StopPause, SettleInputs, Settled
      <4>5. ASSUME NEW x \in Inputs, TakeBack(x) PROVE x \in Ids /\ entries' = Without(x)
        BY <4>5 DEF TakeBack, Queued, Leave
      <4>6. Received => mine \in Ids /\ entries' = Without(mine)
        BY <3>t, Claimed DEF Received, Leave
      <4> QED BY <2>1, <4>1, <4>2, <4>3, <4>4, <4>5, <4>6, QueueMoves
    <3> QED BY <3>1, <3>2, <3>3, <3>4, <3>5
  <2>4. InFlight(id)' => InFlight(id)
    BY <2>3 DEF InFlight, Places
  <2> QED BY <2>2, <2>4
<1> QED BY <1>1, Invariance, PTL DEF Spec, StopHolds
===============================================================================
