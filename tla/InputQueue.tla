------------------------------ MODULE InputQueue ------------------------------
(***************************************************************************)
(* The pending inputs of a Host: what a user submits while a run is busy.  *)
(* Three parties share the queue (input/mod.rs).  The RPC handlers submit,  *)
(* edit, recall, interrupt and stop under the mutation lock (serve/inputs.  *)
(* rs).  The dispatcher turns the head into the first message of a run      *)
(* whenever the run slot is free.  The worker of a run claims one entry at  *)
(* each model boundary, writes it to the journal and removes it, and at its *)
(* end gives back what it claimed and decides whether the queue pauses.     *)
(* Runs of the scheduler and compactions take the slot in between.          *)
(*                                                                         *)
(* The journal is the one SessionJournal details: a buffer that a flush or  *)
(* the writer thread moves, whole and in order, to the log; a flush that    *)
(* fails reports an error and keeps the buffer.                             *)
(***************************************************************************)
EXTENDS Naturals, Sequences, FiniteSets, SequencesExt

CONSTANTS Inputs,      \* client message identities
          Nil,         \* no identity
          Limit,       \* entries the queue holds (64 in the code)
          MaxFaults,   \* bound: failures of a start, a run or a flush
          MaxOthers    \* bound: edits, prompts, automatic runs and compactions

ASSUME InputAssumption == Nil \notin Inputs /\ {Limit, MaxFaults, MaxOthers} \subseteq Nat

VARIABLES
  entries,    \* the queue: records [id, version, phase]
  paused, handoff, initial, terminal, resume,
  pc,         \* where the worker of the run is; "idle" when there is none
  mine,       \* the entry the worker holds
  outcome,    \* how the worker's run ends
  sealed,     \* its steering queue is sealed
  cancelled,  \* its cancellation token
  jerr,       \* its recorder has seen a journal error
  rpc,        \* the handler that holds the mutation lock
  slot,       \* who holds the run slot; "ended": an automatic run not yet reaped
  owed,       \* settlers that released the slot and have yet to dispatch
  compacting, refresh,
  buffer, durable,  \* user messages written, and those that are on disk
  last,       \* history: last accepted version of each input, 0 when never submitted
  taken,      \* history: inputs the user deleted or recalled
  doubted,    \* history: inputs whose write was reported as failed
  stopped,    \* history: a Stop or a failed start, and nothing asked since
  faults, others

queueVars == <<entries, paused, handoff, initial, terminal, resume>>
workerVars == <<pc, mine, outcome, sealed, cancelled, jerr>>
slotVars == <<slot, owed, compacting, refresh>>
journalVars == <<buffer, durable, doubted>>
vars == <<queueVars, workerVars, rpc, slotVars, journalVars, last, taken, stopped, faults, others>>

(* ----------------------------- the queue ------------------------------ *)
Ids == {entries[i].id : i \in DOMAIN entries}
Place(id) == CHOOSE i \in DOMAIN entries : entries[i].id = id
Entry(id) == entries[Place(id)]
Phased(from, to) ==
  [i \in DOMAIN entries |-> IF entries[i].phase \in from
                            THEN [entries[i] EXCEPT !.phase = to] ELSE entries[i]]
Marked(id, to) ==
  [i \in DOMAIN entries |-> IF entries[i].id = id
                            THEN [entries[i] EXCEPT !.phase = to] ELSE entries[i]]
Without(id) == RemoveAt(entries, Place(id))
UnlessKept(pointer, id) == pointer     \* mutant: a mark outlives its entry
Unless(pointer, id) == IF pointer = id THEN Nil ELSE pointer

Ready == /\ ~paused /\ initial = Nil /\ handoff = Nil
         /\ entries # <<>> /\ Head(entries).phase = "queued"

(* Mutant: a claim does not look at the pause. *)
ClaimablePaused(ordinary) ==
  LET preferred == IF handoff # Nil THEN handoff ELSE initial
  IN  {id \in Ids : /\ IF preferred # Nil THEN ordinary /\ id = preferred
                                          ELSE id = Head(entries).id
                    /\ Entry(id).phase \in {"queued", "interrupting"}}
\* The entry a claim would take: only a new run takes the preferred one.
Claimable(ordinary) ==
  LET preferred == IF handoff # Nil THEN handoff ELSE initial
  IN  {id \in Ids : /\ ~paused
                    /\ IF preferred # Nil THEN ordinary /\ id = preferred
                                          ELSE id = Head(entries).id
                    /\ Entry(id).phase \in {"queued", "interrupting"}}

Settled(result) ==
  LET dropped == result = "failed" /\ handoff # Nil
  IN  /\ handoff' = IF dropped THEN Nil ELSE handoff
      /\ entries' = Phased({"claiming"} \cup IF dropped THEN {"interrupting"} ELSE {}, "queued")
      /\ paused' = (paused \/ dropped \/ (result # "completed" /\ handoff' = Nil /\ ~resume))
      /\ UNCHANGED <<initial, terminal, resume>>

Pause == /\ paused' = TRUE /\ resume' = FALSE /\ handoff' = Nil /\ initial' = Nil

\* `committed`, and the removal a user asks for: the entry and its marks go.
Leave(id) == /\ entries' = Without(id)
             /\ handoff' = Unless(handoff, id)
             /\ initial' = Unless(initial, id)

(* ----------------------------- the journal ----------------------------- *)
Msg(id) == [id |-> id, version |-> Entry(id).version]
FlushInto(new) == durable' = durable \o buffer \o new /\ buffer' = <<>>
Keep(id) == /\ buffer' = Append(buffer, Msg(id))
            /\ doubted' = doubted \cup {id}
            /\ UNCHANGED durable
Fault == faults < MaxFaults /\ faults' = faults + 1
Other == others < MaxOthers /\ others' = others + 1

WriterCommits == /\ buffer # <<>> /\ FlushInto(<<>>)
                 /\ UNCHANGED <<queueVars, workerVars, rpc, slotVars, doubted, last, taken,
                                stopped, faults, others>>

(* ------------------------------ dispatch ------------------------------- *)
NewWorker == /\ pc' = "first" /\ mine' = Nil /\ outcome' = "completed"
             /\ sealed' = FALSE /\ cancelled' = FALSE /\ jerr' = FALSE
             /\ slot' = "run"

StartAdmitted(id) ==
  /\ Leave(id) /\ FlushInto(<<Msg(id)>>)
  /\ terminal' = FALSE /\ resume' = FALSE
  /\ NewWorker
  /\ UNCHANGED <<paused, doubted, stopped, faults>>

\* An error pauses the queue and gives the entry back; begin_run may have run.
StartFailed == /\ Pause /\ stopped' = TRUE /\ Fault
               /\ terminal' \in {terminal, FALSE}
               /\ UNCHANGED <<workerVars, slot>>
StartRefused(id) == /\ entries' = Phased({"interrupting"}, "queued")
                    /\ StartFailed /\ UNCHANGED journalVars
StartUnflushed(id) == /\ entries' = Phased({"interrupting"}, "queued")
                      /\ StartFailed /\ Keep(id)
(* Mutant: a start that fails late gives back what it committed. *)
StartLateRequeued(id) == /\ entries' = Phased({"interrupting"}, "queued")
                         /\ StartFailed /\ FlushInto(<<Msg(id)>>) /\ UNCHANGED doubted
\* Admission committed, and a later step of the start failed.
StartLate(id) ==
  /\ entries' = RemoveAt(Phased({"interrupting"}, "queued"), Place(id))
  /\ StartFailed /\ FlushInto(<<Msg(id)>>) /\ UNCHANGED doubted

Dispatch ==
  IF slot = "none" /\ ~compacting /\ Claimable(TRUE) # {}
  THEN \E id \in Claimable(TRUE) : \/ StartAdmitted(id) \/ StartRefused(id)
                                   \/ StartUnflushed(id) \/ StartLate(id)
  ELSE UNCHANGED <<queueVars, workerVars, slot, journalVars, stopped, faults>>

(* ---------------------------- RPC handlers ----------------------------- *)
FreeRpc == [at |-> "free", id |-> Nil, idle |-> FALSE]
Handler(at, id) == [at |-> at, id |-> id, idle |-> FALSE]
RpcFree == rpc.at = "free"
\* Application::active_run is absent or finished; the slot is released later.
RunFinished == pc = "idle" /\ slot # "auto"

SubmitCheck(id) ==
  /\ RpcFree /\ ~compacting /\ last[id] = 0 /\ slot # "auto"
  /\ rpc' = [at |-> "submit", id |-> id, idle |-> RunFinished /\ handoff = Nil]
  /\ UNCHANGED <<queueVars, workerVars, slotVars, journalVars, last, taken, stopped, faults, others>>

\* The queue is full, or the text, its references or its images are refused.
SubmitRefused ==
  /\ rpc.at = "submit"
  /\ rpc' = FreeRpc
  /\ UNCHANGED <<queueVars, workerVars, slotVars, journalVars, last, taken, stopped, faults, others>>

SubmitEnqueue ==
  LET id == rpc.id IN
  /\ rpc.at = "submit" /\ Len(entries) < Limit
  /\ entries' = Append(entries, [id |-> id, version |-> 1, phase |-> "queued"])
  /\ resume' = (resume \/ terminal \/ paused)
  /\ paused' = FALSE
  /\ initial' = IF rpc.idle /\ initial = Nil /\ handoff = Nil THEN id ELSE initial
  /\ last' = [last EXCEPT ![id] = 1]
  /\ stopped' = FALSE
  /\ rpc' = Handler("dispatch", Nil)
  /\ UNCHANGED <<handoff, terminal, workerVars, slotVars, journalVars, taken, faults, others>>

InterruptCheck(id) ==
  /\ RpcFree /\ pc # "idle" /\ ~sealed
  /\ rpc' = Handler("interrupt", id)
  /\ UNCHANGED <<queueVars, workerVars, slotVars, journalVars, last, taken, stopped, faults, others>>

Queued(id) == id \in Ids /\ Entry(id).phase = "queued"

InterruptMark ==
  /\ rpc.at = "interrupt"
  /\ IF handoff = Nil /\ Queued(rpc.id)
     THEN /\ entries' = Marked(rpc.id, "interrupting")
          /\ handoff' = rpc.id /\ paused' = FALSE /\ stopped' = FALSE
          /\ rpc' = Handler("cancel", Nil)
     ELSE rpc' = FreeRpc /\ UNCHANGED <<entries, handoff, paused, stopped>>
  /\ UNCHANGED <<initial, terminal, resume, workerVars, slotVars, journalVars, last, taken,
                 faults, others>>

StopPause ==
  /\ RpcFree /\ Pause /\ stopped' = TRUE
  /\ entries' = Phased({"interrupting"}, "queued")
  /\ rpc' = Handler("stop", Nil)
  /\ UNCHANGED <<terminal, workerVars, slotVars, journalVars, last, taken, faults, others>>

\* Only an interruption dispatches after it cancelled the run.
CancelRun ==
  /\ rpc.at \in {"cancel", "stop"}
  /\ cancelled' = (cancelled \/ pc # "idle")
  /\ rpc' = IF rpc.at = "cancel" THEN Handler("dispatch", Nil) ELSE FreeRpc
  /\ UNCHANGED <<queueVars, pc, mine, outcome, sealed, jerr, slotVars, journalVars, last, taken,
                 stopped, faults, others>>

\* input.delete and input.recall.
TakeBack(id) ==
  /\ RpcFree /\ Queued(id)
  /\ Leave(id) /\ taken' = taken \cup {id}
  /\ rpc' = Handler("dispatch", Nil)
  /\ UNCHANGED <<paused, terminal, resume, workerVars, slotVars, journalVars, last, stopped,
                 faults, others>>

Edit(id) ==
  /\ RpcFree /\ Queued(id) /\ Other
  /\ entries' = [i \in DOMAIN entries |-> IF entries[i].id = id
                   THEN [entries[i] EXCEPT !.version = @ + 1] ELSE entries[i]]
  /\ last' = [last EXCEPT ![id] = @ + 1]
  /\ rpc' = Handler("dispatch", Nil)
  /\ UNCHANGED <<paused, handoff, initial, terminal, resume, workerVars, slotVars, journalVars,
                 taken, stopped, faults>>

RpcDispatch == /\ rpc.at = "dispatch" /\ rpc' = FreeRpc
               /\ Dispatch
               /\ UNCHANGED <<owed, compacting, refresh, last, taken, others>>

\* input.pending and workbench.info: a snapshot dispatches first.
Reconcile == /\ RpcFree /\ refresh' = FALSE
             /\ Dispatch
             /\ UNCHANGED <<rpc, owed, compacting, last, taken, others>>

PromptSend ==
  /\ RpcFree /\ slot = "none" /\ ~compacting /\ Other
  /\ \/ FlushInto(<<>>) /\ terminal' = FALSE /\ resume' = FALSE /\ NewWorker /\ UNCHANGED faults
     \/ /\ Fault /\ UNCHANGED <<workerVars, slot, buffer, durable>>
        /\ \/ terminal' = FALSE /\ resume' = FALSE
           \/ UNCHANGED <<terminal, resume>>
  /\ UNCHANGED <<entries, paused, handoff, initial, rpc, owed, compacting, refresh, doubted,
                 last, taken, stopped>>

(* ------------------------- the worker of a run -------------------------- *)
HostIdle == UNCHANGED <<rpc, slotVars, last, taken, stopped, others>>
Go(to) == pc' = to /\ UNCHANGED <<mine, outcome, sealed, cancelled, jerr>>

\* fail, cancelled and a tool boundary seal: first the queue, then steering.
EndWith(result) ==
  /\ terminal' = TRUE /\ outcome' = result /\ pc' = "unsealed"
  /\ UNCHANGED <<entries, paused, handoff, initial, resume, mine, sealed, cancelled, jerr, journalVars>>

SeesCancel == /\ pc \in {"first", "step", "model"} /\ cancelled
              /\ EndWith("cancelled") /\ UNCHANGED faults /\ HostIdle

RunFails == /\ pc \in {"first", "claimed", "model"} /\ Fault
            /\ EndWith("failed") /\ HostIdle

Boundary == /\ pc = "model" /\ EndWith("completed") /\ UNCHANGED faults /\ HostIdle

\* The first request carries the run's own message: nothing is claimed.
FirstRequest == /\ pc = "first" /\ ~cancelled /\ Go("model")
                /\ UNCHANGED <<queueVars, journalVars, faults>> /\ HostIdle

ClaimNext ==
  /\ pc = "step" /\ ~cancelled
  /\ IF Claimable(FALSE) = {} THEN Go("model") /\ UNCHANGED entries
     ELSE \E id \in Claimable(FALSE) :
            /\ entries' = Marked(id, "claiming")
            /\ pc' = "claimed" /\ mine' = id
            /\ UNCHANGED <<outcome, sealed, cancelled, jerr>>
  /\ UNCHANGED <<paused, handoff, initial, terminal, resume, journalVars, faults>> /\ HostIdle

\* SteeringApplied: append and flush; after a journal error it is not written.
Journaled == /\ pc = "claimed" /\ ~jerr
             /\ FlushInto(<<Msg(mine)>>) /\ UNCHANGED doubted
             /\ Go("journaled") /\ UNCHANGED <<queueVars, faults>> /\ HostIdle

NotJournaled ==
  /\ pc = "claimed" /\ pc' = "model" /\ jerr' = TRUE
  /\ \/ jerr /\ UNCHANGED <<journalVars, faults>>
     \/ ~jerr /\ Fault /\ UNCHANGED journalVars
     \/ ~jerr /\ Fault /\ Keep(mine)
  /\ UNCHANGED <<queueVars, mine, outcome, sealed, cancelled>> /\ HostIdle

Received == /\ pc = "journaled" /\ Leave(mine) /\ pc' = "model" /\ mine' = Nil
            /\ UNCHANGED <<paused, terminal, resume, outcome, sealed, cancelled, jerr,
                           journalVars, faults>> /\ HostIdle

\* The model answered: its calls are run, and their results may miss the journal.
ToolCalls ==
  /\ pc = "model" /\ pc' = "step"
  /\ \/ UNCHANGED <<jerr, faults>>
     \/ Fault /\ jerr' = TRUE
  /\ UNCHANGED <<mine, outcome, sealed, cancelled, queueVars, journalVars>> /\ HostIdle

\* seal_if_empty: the queue is read, and closed by a second step.
Answer == /\ pc = "model" /\ Go(IF Ready THEN "step" ELSE "seal")
          /\ UNCHANGED <<queueVars, journalVars, faults>> /\ HostIdle

SealIfEmpty ==
  /\ pc = "seal" /\ terminal' = TRUE /\ sealed' = TRUE /\ pc' = "ending"
  /\ \/ outcome' = "completed" /\ UNCHANGED faults
     \/ outcome' = "failed" /\ Fault      \* an answer without text
  /\ UNCHANGED <<entries, paused, handoff, initial, resume, mine, cancelled, jerr, journalVars>>
  /\ HostIdle

SealLast == /\ pc = "unsealed" /\ sealed' = TRUE /\ pc' = "ending"
            /\ UNCHANGED <<mine, outcome, cancelled, jerr, queueVars, journalVars, faults>>
            /\ HostIdle

\* The round closes: a token cancelled late still counts, the recorder flushes
\* whatever happened before, the scope of the run is closed.
EndRun ==
  LET late == IF cancelled /\ outcome = "completed" THEN "cancelled" ELSE outcome
  IN  /\ pc = "ending" /\ pc' = "settle"
      /\ \/ FlushInto(<<>>) /\ outcome' = (IF jerr THEN "failed" ELSE late) /\ UNCHANGED faults
         \/ FlushInto(<<>>) /\ outcome' = "failed" /\ Fault
         \/ outcome' = "failed" /\ Fault /\ UNCHANGED <<buffer, durable>>
      /\ UNCHANGED <<mine, sealed, cancelled, jerr, queueVars, doubted>> /\ HostIdle

SettleInputs == /\ pc = "settle" /\ Settled(outcome)
                /\ pc' = "publish" /\ mine' = Nil
                /\ UNCHANGED <<outcome, sealed, cancelled, jerr, journalVars, faults>> /\ HostIdle

Publish == /\ pc = "publish" /\ Go("idle")
           /\ UNCHANGED <<queueVars, journalVars, faults>> /\ HostIdle

(* ------------------------ the slot and its users ------------------------ *)
SlotIdle == UNCHANGED <<queueVars, workerVars, rpc, journalVars, last, taken, stopped, faults>>

FinishRun == /\ slot = "run" /\ pc = "idle"
             /\ slot' = "none" /\ owed' = owed + 1
             /\ UNCHANGED <<compacting, refresh, others>> /\ SlotIdle

(* Mutants: the settler only releases the slot; one dispatches without a run. *)
SettledLeaves == /\ RpcFree /\ owed > 0 /\ owed' = owed - 1
                 /\ UNCHANGED <<rpc, slot, compacting, refresh, others>> /\ SlotIdle
SettledUnowed == /\ RpcFree /\ owed' = owed - 1
                 /\ Dispatch
                 /\ UNCHANGED <<rpc, compacting, refresh, last, taken, others>>
SettledDispatch == /\ RpcFree /\ owed > 0 /\ owed' = owed - 1
                   /\ Dispatch
                   /\ UNCHANGED <<rpc, compacting, refresh, last, taken, others>>

AutoStart == /\ RpcFree /\ slot = "none" /\ entries = <<>> /\ ~compacting /\ Other
             /\ slot' = "auto"
             /\ UNCHANGED <<owed, compacting, refresh>> /\ SlotIdle
AutoFinished == /\ slot = "auto" /\ slot' = "ended"
                /\ UNCHANGED <<owed, compacting, refresh, others>> /\ SlotIdle
\* Neither this nor the end of a compaction dispatches: a notice makes clients ask.
AutoReaped == /\ slot = "ended" /\ slot' = "none" /\ refresh' = TRUE
              /\ UNCHANGED <<owed, compacting, others>> /\ SlotIdle

CompactStart == /\ RpcFree /\ slot = "none" /\ ~compacting /\ Other
                /\ compacting' = TRUE
                /\ UNCHANGED <<slot, owed, refresh>> /\ SlotIdle
CompactEnd == /\ compacting /\ compacting' = FALSE /\ refresh' = TRUE
              /\ UNCHANGED <<slot, owed, others>> /\ SlotIdle

Init ==
  /\ entries = <<>> /\ paused = FALSE /\ handoff = Nil /\ initial = Nil
  /\ terminal = FALSE /\ resume = FALSE
  /\ pc = "idle" /\ mine = Nil /\ outcome = "completed" /\ sealed = FALSE
  /\ cancelled = FALSE /\ jerr = FALSE
  /\ rpc = FreeRpc /\ slot = "none" /\ owed = 0 /\ compacting = FALSE /\ refresh = FALSE
  /\ buffer = <<>> /\ durable = <<>> /\ doubted = {}
  /\ last = [id \in Inputs |-> 0] /\ taken = {} /\ stopped = FALSE
  /\ faults = 0 /\ others = 0

RpcStep == SubmitEnqueue \/ SubmitRefused \/ InterruptMark \/ CancelRun \/ RpcDispatch
UserStep == \/ \E id \in Inputs : SubmitCheck(id) \/ InterruptCheck(id) \/ TakeBack(id) \/ Edit(id)
            \/ StopPause \/ Reconcile \/ PromptSend
ModelStep == ToolCalls \/ Answer \/ Boundary
WorkerStep == \/ SeesCancel \/ RunFails \/ FirstRequest \/ ClaimNext \/ Journaled \/ NotJournaled
              \/ Received \/ ModelStep \/ SealIfEmpty \/ SealLast \/ EndRun \/ SettleInputs \/ Publish
SlotStep == FinishRun \/ SettledDispatch \/ AutoFinished \/ AutoReaped \/ CompactEnd

Next == \/ RpcStep \/ UserStep \/ WorkerStep \/ SlotStep
        \/ WriterCommits \/ AutoStart \/ CompactStart

Spec == Init /\ [][Next]_vars

\* Threads of the Host run on, and one that waits for the mutation lock gets it;
\* a client that reads a notice asks again (web/app.js:1350, 1395); a model that
\* is asked again and again answers some time without a tool call.
FairSpec == /\ Spec
            /\ WF_vars(RpcStep) /\ WF_vars(WorkerStep)
            /\ WF_vars(FinishRun) /\ SF_vars(SettledDispatch)
            /\ WF_vars(AutoFinished) /\ WF_vars(AutoReaped) /\ WF_vars(CompactEnd)
            /\ SF_vars(refresh /\ Reconcile)
            /\ SF_vars(Answer)

(* ------------------------------ properties ------------------------------ *)
Versions == 1..MaxOthers + 1
Messages == [id : Inputs, version : Versions]
Points == {"idle", "first", "step", "claimed", "journaled", "model", "seal", "unsealed",
           "ending", "settle", "publish"}

\* The types of the queue, the worker, the host and the journal.
TypeOK ==
  /\ entries \in Seq([id : Inputs, version : Versions,
                      phase : {"queued", "interrupting", "claiming"}])
  /\ Len(entries) <= Limit
  /\ {handoff, initial, mine} \subseteq Inputs \cup {Nil}
  /\ {paused, terminal, resume, sealed, cancelled, jerr, compacting, refresh, stopped}
       \subseteq BOOLEAN
  /\ pc \in Points /\ outcome \in {"completed", "cancelled", "failed"}
  /\ rpc \in [at : {"free", "submit", "interrupt", "cancel", "stop", "dispatch"},
              id : Inputs \cup {Nil}, idle : BOOLEAN]
  /\ slot \in {"none", "run", "auto", "ended"} /\ owed \in Nat
  /\ buffer \in Seq(Messages) /\ durable \in Seq(Messages)
  /\ last \in [Inputs -> {0} \cup Versions] /\ taken \subseteq Inputs /\ doubted \subseteq Inputs
  /\ faults \in 0..MaxFaults /\ others \in 0..MaxOthers

Copies(id) == {i \in DOMAIN (durable \o buffer) : (durable \o buffer)[i].id = id}
Places(id) == {i \in DOMAIN entries : entries[i].id = id}
OnDisk(m) == \E i \in DOMAIN durable : durable[i] = m
InFlight(id) == \E i \in Places(id) : entries[i].phase = "claiming"

\* No input is lost, doubled or resurrected: each accepted one is in the queue
\* once, or the user took it back, or its last edit is on disk; and unless a
\* failed write left a copy behind, only an entry being claimed may be in both
\* places and no text the user took back or still edits is in the journal.
Accounted ==
  \A id \in Inputs :
    /\ Cardinality(Places(id)) <= (IF last[id] = 0 \/ id \in taken THEN 0 ELSE 1)
    /\ last[id] > 0 /\ Places(id) = {} /\ id \notin taken
         => OnDisk([id |-> id, version |-> last[id]])
    /\ id \notin doubted =>
         /\ Cardinality(Copies(id)) <= 1
         /\ Copies(id) # {} => last[id] > 0 /\ id \notin taken
                                /\ (Places(id) = {} \/ InFlight(id))

\* A Stop and a failed start are boundaries (architecture.md:2213): until the
\* user submits or interrupts, no worker claims an entry, no start takes one,
\* and nothing reaches the journal but the entry that was already claimed.
StopHolds ==
  [][stopped /\ stopped' => \A id \in Inputs :
       /\ InFlight(id)' => InFlight(id)
       /\ Copies(id)' # {} => Copies(id) # {} \/ InFlight(id)]_vars

\* A claim, an interruption and a preference always name someone who will end
\* them: a claimed entry has a worker that has yet to settle, an interrupting
\* one is the hand-off, and both marks name an entry that still waits.
ClaimsAreLive ==
  /\ \A id \in Ids :
       /\ Entry(id).phase = "claiming" =>
            pc \notin {"idle", "first", "publish"} /\ (mine = id \/ jerr)
       /\ Entry(id).phase = "interrupting" <=> handoff = id
  /\ \A mark \in {handoff, initial} \ {Nil} : mark \in Ids /\ ~InFlight(mark)

\* An input that waits in a queue nobody paused leaves it, or the queue pauses:
\* no wake-up is lost between a run, a compaction and a submission.
InputsMove ==
  \A id \in Inputs : id \in Ids /\ ~paused ~> id \notin Ids \/ paused

\* "... its committed client-message identity, so a retry cannot insert the
\* message twice" (docs/architecture.md:2211-2213).
InsertedOnce == \A id \in Inputs : Cardinality({i \in DOMAIN durable : durable[i].id = id}) <= 1
===============================================================================
