---------------------------- MODULE TurnRecorder ----------------------------
(***************************************************************************)
(* One run and what it leaves in the journal: the loop of model requests   *)
(* and tool calls (src/run/mod.rs, request.rs, response.rs, tools.rs), the *)
(* recorder that turns its events into the turn, step and tool events of   *)
(* the log (src/session/recorder.rs, the record seats of                   *)
(* src/session/catalog/run_events.rs), the approver that writes behind the *)
(* recorder's back, the end of a round                                     *)
(* (src/application/run_execution/round.rs) and the events recovery        *)
(* appends to a log that ends in the middle of a turn                      *)
(* (src/session/recovery.rs).                                              *)
(*                                                                         *)
(* The journal is reduced to its contract: what is appended is committed   *)
(* in order, some of it at any time, all of it by a flush that returns Ok; *)
(* an unknown outcome leaves some of it in the log and refuses everything  *)
(* after it.  Only the events the recovery tracker looks at are kept; the  *)
(* turn of an event is the ordinal of its run.                             *)
(***************************************************************************)
EXTENDS Integers, Sequences, FiniteSets, SequencesExt

CONSTANTS
    Ids,            \* call ids the model may send
    Tools,          \* names of tools
    Responses,      \* per run and step, the calls a response may carry;
                    \* bound: the steps of a run
    MaxTurns,       \* bound: runs
    MaxFaults,      \* bound: flushes that fail
    MaxCrashes      \* bound: crashes

ToolCall == [id : Ids, tool : Tools]

ASSUME BoundsAssumption ==
    MaxTurns \in Nat /\ MaxFaults \in Nat /\ MaxCrashes \in Nat
ASSUME ResponsesAssumption ==
    \A t \in 1 .. MaxTurns :
        /\ t \in DOMAIN Responses
        /\ \A s \in DOMAIN Responses[t] : \A calls \in Responses[t][s] :
              /\ calls \in Seq(ToolCall)
              /\ \A i, j \in DOMAIN calls : calls[i].id = calls[j].id => i = j

VARIABLES
    \* the journal
    log,            \* committed events
    buffer,         \* appended, not committed
    fatal,          \* CoordinatorCore.fatal
    \* SessionRecorder with its SharedCore
    rec,
    \* the worker
    pc, todo, cancelled,
    \* what happened, for the bounds and the properties
    turns,          \* runs started
    faults, crashes,
    wanted,         \* events the recorder of the last run was to write
    offered,        \* calls the model made
    ran,            \* calls that were executed
    blind,          \* those whose tool/call the recorder could not write
    gaveUp,         \* runs that ended cancelled or failed
    spoiled,        \* runs during which a write failed
    receipts,       \* committed receipts of steering messages
    published       \* the terminal event the frontend got

journal == <<log, buffer, fatal, faults>>
history == <<turns, offered, ran, blind, gaveUp, spoiled, receipts, published>>
vars == <<journal, rec, pc, todo, cancelled, crashes, wanted, history>>

-----------------------------------------------------------------------------
(* Events *)

\* Mutant: the number of the next turn.
TurnStartAhead(t) == [type |-> "turn/start", turn |-> t + 1]
TurnStart(t) == [type |-> "turn/start", turn |-> t]
TurnEnd(t, why)    == [type |-> "turn/end", turn |-> t, reason |-> why]
StepStart(t, s)    == [type |-> "step/start", turn |-> t, step |-> s]
StepEnd(t, s)      == [type |-> "step/end", turn |-> t, step |-> s]
User(t, s)         == [type |-> "user/message", turn |-> t, step |-> s]
Message(t, s, ids) ==
    [type |-> "assistant/message", turn |-> t, step |-> s, calls |-> ids]
Called(t, s, id)   == [type |-> "tool/call", turn |-> t, step |-> s, id |-> id]
Result(t, s, id, answer) ==
    [type |-> "tool/result", turn |-> t, step |-> s, id |-> id,
     answer |-> answer]

IdsOf(calls) == [i \in DOMAIN calls |-> calls[i].id]

-----------------------------------------------------------------------------
(* RecoveryTracker: the turn and step that are open, and the calls of the  *)
(* open step without a result, in the order of the message.                *)

NoTurn == [turn |-> 0, step |-> 0, pending |-> <<>>]

(* The pending calls whose id is not among those, in their order. *)
Retained(pending, ids) ==
    LET kept[i \in 0 .. Len(pending)] ==
            IF i = 0 THEN <<>>
            ELSE IF pending[i].id \in ids THEN kept[i - 1]
                 ELSE Append(kept[i - 1], pending[i])
    IN  kept[Len(pending)]

Observe(t, e) ==
    CASE e.type = "turn/start" -> [NoTurn EXCEPT !.turn = e.turn]
      [] e.type = "turn/end"   -> NoTurn
      [] e.type = "step/start" -> [t EXCEPT !.step = e.step]
      [] e.type = "step/end"   -> [t EXCEPT !.step = 0, !.pending = <<>>]
      [] e.type = "assistant/message" ->
           [t EXCEPT !.pending =
               Retained(@, ToSet(e.calls))
               \o [i \in DOMAIN e.calls |->
                     [id |-> e.calls[i], step |-> e.step, called |-> FALSE]]]
      [] e.type = "tool/call" ->
           [t EXCEPT !.pending =
               [i \in DOMAIN @ |->
                   IF @[i].id = e.id THEN [@[i] EXCEPT !.called = TRUE]
                                     ELSE @[i]]]
      [] e.type = "tool/result" ->
           [t EXCEPT !.pending = Retained(@, {e.id})]
      [] OTHER -> t

(* What is open behind each event. *)
Tracker(events) ==
    LET open[i \in 0 .. Len(events)] ==
            IF i = 0 THEN NoTurn ELSE Observe(open[i - 1], events[i])
    IN  open

Track(events) == Tracker(events)[Len(events)]

(* Mutant: recovery closes the turn and leaves its calls without a result. *)
ClosersBare(t) ==
    IF t.turn = 0 THEN <<>>
    ELSE (IF t.step = 0 THEN <<>> ELSE <<StepEnd(t.turn, t.step)>>)
         \o <<TurnEnd(t.turn, "interrupted")>>

(* RecoveryTracker::closers *)
Closers(t) ==
    IF t.turn = 0 THEN <<>>
    ELSE [i \in DOMAIN t.pending |->
             Result(t.turn, t.pending[i].step, t.pending[i].id,
                    IF t.pending[i].called THEN "unknown" ELSE "not started")]
         \o (IF t.step = 0 THEN <<>> ELSE <<StepEnd(t.turn, t.step)>>)
         \o <<TurnEnd(t.turn, "interrupted")>>

-----------------------------------------------------------------------------
(* The journal.  Durably appends events and flushes; ok is the result.  A  *)
(* failure is rolled back and kept for the next attempt, or has an unknown *)
(* outcome.                                                                *)

Durably(events, ok) ==
    LET all == buffer \o events IN
    \/ /\ ok /\ ~fatal
       /\ log' = log \o all /\ buffer' = <<>>
       /\ UNCHANGED <<fatal, faults>>
    \/ /\ ~ok /\ ~fatal /\ faults < MaxFaults
       /\ faults' = faults + 1
       /\ \/ buffer' = all /\ UNCHANGED <<log, fatal>>
          \/ /\ \E k \in 0 .. Len(all) : log' = log \o SubSeq(all, 1, k)
             /\ buffer' = <<>> /\ fatal' = TRUE
    \/ ~ok /\ fatal /\ UNCHANGED journal

(* The writer commits the oldest batch on its own. *)
Drain ==
    /\ pc # "down" /\ ~fatal /\ buffer # <<>>
    /\ \E k \in 1 .. Len(buffer) :
          /\ log' = log \o SubSeq(buffer, 1, k)
          /\ buffer' = SubSeq(buffer, k + 1, Len(buffer))
    /\ UNCHANGED <<fatal, faults, rec, pc, todo, cancelled, crashes, wanted,
                   history>>

-----------------------------------------------------------------------------
(* The recorder *)

NewRecorder(t) ==
    [turn |-> t, step |-> 1, open |-> FALSE, emitted |-> FALSE,
     text |-> FALSE, completed |-> <<>>, stashed |-> <<>>, journaled |-> {},
     error |-> FALSE, terminal |-> "none"]

(* append_quietly: after the first error nothing more is written. *)
Record(r, events) ==
    /\ wanted' = wanted \cup ToSet(events)
    /\ IF r.error \/ fatal \/ events = <<>>
       THEN buffer' = buffer
       ELSE buffer' = buffer \o events
    /\ rec' = [r EXCEPT !.error = @ \/ (fatal /\ events # <<>>)]
    /\ UNCHANGED <<log, fatal, faults>>

(* append_quietly and flush_quietly *)
RecordFlush(r, events) ==
    /\ wanted' = wanted \cup ToSet(events)
    /\ IF r.error
       THEN rec' = r /\ UNCHANGED journal
       ELSE \E ok \in BOOLEAN :
               Durably(events, ok) /\ rec' = [r EXCEPT !.error = ~ok]

(* close_open_step: a step that was cut short keeps its partial message.   *)
StepClosers(r) ==
    IF ~r.open THEN <<>>
    ELSE (IF ~r.emitted /\ r.text
          THEN <<Message(r.turn, r.step, IdsOf(r.completed))>> ELSE <<>>)
         \o <<StepEnd(r.turn, r.step)>>

StepClosed(r) ==
    IF r.open THEN [r EXCEPT !.open = FALSE, !.step = @ + 1] ELSE r

StepOpened(r) ==
    [r EXCEPT !.open = TRUE, !.emitted = FALSE, !.text = FALSE,
              !.completed = <<>>]

(* SharedCore::stash: a call that is known keeps its place. *)
Stash(r, c) ==
    IF \E i \in DOMAIN r.stashed : r.stashed[i].id = c.id
    THEN [r EXCEPT !.stashed =
             [i \in DOMAIN @ |-> IF @[i].id = c.id THEN c ELSE @[i]]]
    ELSE [r EXCEPT !.stashed = Append(@, c)]

StashAll(r, calls) ==
    LET after[i \in 0 .. Len(calls)] ==
            IF i = 0 THEN r ELSE Stash(after[i - 1], calls[i])
    IN  after[Len(calls)]

(* SharedCore::unjournaled_by_name *)
UnjournaledByName(r, tool) ==
    SelectLastInSeq(r.stashed,
        LAMBDA c : c.tool = tool /\ c.id \notin r.journaled)

-----------------------------------------------------------------------------
Init ==
    /\ log = <<>> /\ buffer = <<>> /\ fatal = FALSE /\ faults = 0
    /\ rec = NewRecorder(0)
    /\ pc = "idle" /\ todo = <<>> /\ cancelled = FALSE
    /\ turns = 0 /\ crashes = 0
    /\ wanted = {} /\ offered = {} /\ ran = {} /\ blind = {}
    /\ gaveUp = {} /\ spoiled = {} /\ receipts = {} /\ published = "none"

(* RunAdmission::commit and the recorder of the round.  A start whose      *)
(* flush fails is given back, but its turn/start stays in the queue.       *)
Admit ==
    /\ pc = "idle" /\ ~fatal /\ turns < MaxTurns
    /\ turns' = turns + 1
    /\ \E ok \in BOOLEAN :
          /\ Durably(<<TurnStart(turns + 1)>>, ok)
          /\ \/ /\ ok
                /\ pc' = "request" /\ rec' = NewRecorder(turns + 1)
                /\ cancelled' = FALSE /\ wanted' = {} /\ published' = "none"
                /\ UNCHANGED spoiled
             \/ /\ ~ok
                /\ spoiled' = spoiled \cup {turns + 1}
                /\ UNCHANGED <<pc, rec, cancelled, wanted, published>>
    /\ UNCHANGED <<todo, crashes, offered, ran, blind, gaveUp, receipts>>

(* The user cancels the run. *)
Cancel ==
    /\ pc \notin {"idle", "down"} /\ ~cancelled
    /\ cancelled' = TRUE
    /\ UNCHANGED <<journal, rec, pc, todo, crashes, wanted, history>>

(* StepState::{fail, cancel, complete}: the terminal event is withheld.    *)
Ends(terminal) ==
    /\ pc' = "finish" /\ todo' = <<>>
    /\ gaveUp' = gaveUp \cup IF terminal = "completed" THEN {} ELSE {rec.turn}
    /\ UNCHANGED <<cancelled, crashes, turns, offered, ran, blind, spoiled,
                   receipts, published>>

(* The run ends and writes nothing more before the turn is closed; a panic *)
(* of the worker leaves no terminal event.                                 *)
Stops(r, terminal) ==
    /\ rec' = [r EXCEPT !.terminal = terminal]
    /\ UNCHANGED <<journal, wanted>>
    /\ Ends(terminal)

(* The loop of Run::drive begins another turn of the model: it is          *)
(* cancelled, its request cannot be prepared or is beyond the budget, or a *)
(* binding of the round failed and nothing was emitted.                    *)
StopBeforeRequest ==
    \/ pc = "request" /\ cancelled /\ Stops(rec, "cancelled")
    \/ pc \in {"request", "retry"} /\ Stops(rec, "failed")
    \/ pc = "request" /\ rec.step = 1 /\ ~rec.open /\ Stops(rec, "none")

(* The seat of SteeringApplied: the receipt only after the flush. *)
ApplySteering ==
    LET message == User(rec.turn, StepClosed(rec).step) IN
    /\ pc = "request" /\ ~cancelled /\ message \notin wanted
    /\ RecordFlush(StepClosed(rec), StepClosers(rec) \o <<message>>)
    /\ receipts' = IF rec'.error THEN receipts ELSE receipts \cup {message}
    /\ UNCHANGED <<pc, todo, cancelled, crashes, turns, offered, ran, blind,
                   gaveUp, spoiled, published>>

(* prepare_context_boundary, before a compaction; finish_capacity_failure, *)
(* after a request that was too large and before it is tried again.  A     *)
(* boundary that is not durable fails the run.                             *)
ContextBoundary ==
    /\ \/ pc = "request" /\ ~cancelled /\ rec.open
       \/ pc = "stream"
    /\ RecordFlush(StepClosed(rec), StepClosers(rec))
    /\ pc' = IF pc = "stream" \/ rec'.error THEN "retry" ELSE "request"
    /\ UNCHANGED <<todo, cancelled, crashes, history>>

(* The seat of ModelRequested. *)
ModelRequested ==
    LET closed == StepClosed(rec) IN
    /\ \/ pc = "request" /\ ~cancelled
       \/ pc = "retry" /\ ~rec.error
    /\ closed.step \in DOMAIN Responses[rec.turn]
    /\ pc' = "stream"
    /\ Record(StepOpened(closed),
              StepClosers(rec) \o <<StepStart(rec.turn, closed.step)>>)
    /\ UNCHANGED <<todo, cancelled, crashes, history>>

Offer(calls) ==
    offered' = offered \cup
        {[turn |-> rec.turn, step |-> rec.step, id |-> c.id, tool |-> c.tool]
            : c \in ToSet(calls)}

(* What the stream stashed; some providers announce no calls before the    *)
(* response is complete.                                                   *)
Streamed(calls) == {rec, StashAll(rec, calls)}

(* The seat of ModelResponded, and finish_response: a response without     *)
(* calls ends the run unless a steering message waits.                     *)
ModelResponded ==
    /\ pc = "stream"
    /\ \E calls \in Responses[rec.turn][rec.step] : \E r \in Streamed(calls) :
       \E terminal \in {"none", "completed", "cancelled", "failed"} :
          /\ calls # <<>> => terminal = "none"
          /\ Record([r EXCEPT !.emitted = TRUE, !.completed = calls,
                              !.terminal = terminal],
                    <<Message(rec.turn, rec.step, IdsOf(calls))>>)
          /\ Offer(calls)
          /\ todo' = calls
          /\ pc' = CASE terminal # "none" -> "finish"
                     [] calls = <<>>      -> "request"
                     [] OTHER             -> "tools"
          /\ gaveUp' = gaveUp \cup
                IF terminal \in {"cancelled", "failed"} THEN {rec.turn} ELSE {}
    /\ UNCHANGED <<cancelled, crashes, turns, ran, blind, spoiled, receipts,
                   published>>

(* The stream fails after some calls were complete: they are in the        *)
(* message if there is one, and are not executed.                          *)
StreamCut ==
    /\ pc = "stream"
    /\ \E calls \in Responses[rec.turn][rec.step] : \E r \in Streamed(calls) :
       \E text \in BOOLEAN :
          /\ rec' = [r EXCEPT !.text = text, !.completed = calls,
                              !.terminal = "failed"]
          /\ Offer(calls)
    /\ pc' = "finish" /\ gaveUp' = gaveUp \cup {rec.turn}
    /\ UNCHANGED <<journal, todo, cancelled, crashes, wanted, turns, ran, blind,
                   spoiled, receipts, published>>

-----------------------------------------------------------------------------
(* Tools, one after the other *)

ToolVars == <<todo, cancelled, crashes, wanted, history>>

NextStep ==
    /\ pc = "tools" /\ todo = <<>>
    /\ pc' = "request"
    /\ UNCHANGED <<journal, rec, ToolVars>>

StopBeforeTool ==
    pc = "tools" /\ todo # <<>> /\ cancelled /\ Stops(rec, "cancelled")

(* The seat of ToolRequested, and authorized_tool: the tool is unknown,    *)
(* refused by the access policy, allowed, or somebody has to be asked.     *)
ToolRequested ==
    /\ pc = "tools" /\ todo # <<>> /\ ~cancelled
    /\ LET r == Stash(rec, Head(todo)) IN
       \/ Stops(r, "failed")
       \/ /\ pc' \in {"denied", "start"}
          /\ rec' = r
          /\ UNCHANGED <<journal, ToolVars>>
       \/ /\ \E ok \in BOOLEAN :     \* approval/asked, flushed
                /\ Durably(<<>>, ok)
                /\ pc' = IF ok THEN "ask" ELSE "denied"
          /\ rec' = r
          /\ UNCHANGED ToolVars

(* JournalingApprover::decide once the human, or nobody, has answered: the *)
(* decision is durable before it counts.                                   *)
Decide ==
    LET id == Head(todo).id IN
    /\ pc = "ask"
    /\ \E allow, ok \in BOOLEAN :
          /\ Durably(IF allow THEN <<Called(rec.turn, rec.step, id)>>
                     ELSE <<Result(rec.turn, rec.step, id, "denied")>>, ok)
          /\ rec' = IF ok THEN [rec EXCEPT !.journaled = @ \cup {id}] ELSE rec
          /\ pc' = IF allow /\ ok THEN "start" ELSE "denied"
    /\ UNCHANGED ToolVars

(* The seat of PermissionDenied: it knows the name of the tool only. *)
PermissionDenied ==
    LET at == UnjournaledByName(rec, Head(todo).tool) IN
    /\ pc = "denied"
    /\ \/ /\ at # 0
          /\ RecordFlush([rec EXCEPT !.stashed = RemoveAt(@, at)],
                <<Result(rec.turn, rec.step, rec.stashed[at].id, "denied")>>)
       \/ at = 0 /\ UNCHANGED <<journal, rec, wanted>>
    /\ pc' = "tools" /\ todo' = Tail(todo)
    /\ UNCHANGED <<cancelled, crashes, history>>

(* Mutant: tool/call is appended and not flushed. *)
ToolStartedUnflushed ==
    LET id == Head(todo).id IN
    /\ pc = "start"
    /\ IF id \in rec.journaled THEN UNCHANGED <<journal, rec, wanted>>
       ELSE Record(rec, <<Called(rec.turn, rec.step, id)>>)
    /\ pc' = "invoke"
    /\ UNCHANGED <<todo, cancelled, crashes, history>>

(* The seat of ToolStarted: the barrier before the execution, unless the   *)
(* approver has written it.                                                *)
ToolStarted ==
    LET id == Head(todo).id IN
    /\ pc = "start"
    /\ IF id \in rec.journaled
       THEN UNCHANGED <<journal, rec, wanted, blind>>
       ELSE /\ RecordFlush(rec, <<Called(rec.turn, rec.step, id)>>)
            /\ blind' = IF rec'.error
                        THEN blind \cup {[turn |-> rec.turn, id |-> id]}
                        ELSE blind
    /\ pc' = "invoke"
    /\ UNCHANGED <<todo, cancelled, crashes, turns, offered, ran, gaveUp,
                   spoiled, receipts, published>>

(* The tool acts. *)
Invoke ==
    /\ pc = "invoke"
    /\ ran' = ran \cup {[turn |-> rec.turn, id |-> Head(todo).id]}
    /\ pc' = "running"
    /\ UNCHANGED <<journal, rec, todo, cancelled, crashes, wanted, turns,
                   offered, blind, gaveUp, spoiled, receipts, published>>

Output(id) == Result(rec.turn, rec.step, id, "output")

(* The tool returns: its result is recorded, unless its error is fatal or  *)
(* the run was cancelled.  The worker catches a panic, which leaves no     *)
(* terminal event.                                                         *)
ToolFinished ==
    /\ pc = "running"
    /\ \/ /\ ~cancelled
          /\ Record(rec, <<Output(Head(todo).id)>>)
          /\ pc' = "tools" /\ todo' = Tail(todo)
          /\ UNCHANGED <<cancelled, crashes, history>>
       \/ cancelled /\ Stops(rec, "cancelled")
       \/ Stops(rec, "failed")
       \/ Stops(rec, "none")

(* finish_tool_boundary: a workflow transition ends the run; the calls     *)
(* behind it are answered without having been executed.                    *)
ToolBoundary ==
    /\ pc = "running" /\ ~cancelled
    /\ Record([rec EXCEPT !.terminal = "completed"],
              <<Output(Head(todo).id)>>
              \o [i \in 1 .. Len(todo) - 1 |->
                    Result(rec.turn, rec.step, todo[i + 1].id, "skipped")])
    /\ Ends("completed")

-----------------------------------------------------------------------------
(* The end of a round, and of a process *)

(* ExecutionOutcome::reason; broken: the processes of the run could not be *)
(* bound or cleaned up.                                                    *)
Reason(broken) ==
    CASE broken \/ rec.terminal \in {"failed", "none"} -> "error"
      [] OTHER -> IF cancelled \/ rec.terminal = "cancelled"
                  THEN "aborted" ELSE "completed"

(* Terminal events that say nothing is missing. *)
Successes == {"completed", "cancelled"}

(* Mutant: the terminal event is published whatever the journal said.      *)
PublishAnyway(r) == r.terminal

(* SessionRecorder::finish: turn/end is durable before a success is        *)
(* published, and nothing of the turn may be missing.                      *)
Publish(r) == IF r.error THEN "failed" ELSE r.terminal

Finish ==
    /\ pc = "finish"
    /\ \E broken, ok \in BOOLEAN :
          LET events == StepClosers(rec) \o <<TurnEnd(rec.turn, Reason(broken))>>
              r == [StepClosed(rec) EXCEPT
                       !.terminal = IF broken THEN "failed" ELSE @,
                       !.error = @ \/ ~ok]
          IN  /\ Durably(IF rec.error THEN <<>> ELSE events, ok)
              /\ published' = Publish(r)
              /\ wanted' = IF published' \in Successes
                           THEN wanted \cup ToSet(events) ELSE {}
              /\ spoiled' = IF r.error THEN spoiled \cup {rec.turn} ELSE spoiled
    /\ pc' = "idle" /\ rec' = NewRecorder(0) /\ cancelled' = FALSE
    /\ UNCHANGED <<todo, crashes, turns, offered, ran, blind, gaveUp, receipts>>

(* The runs whose record may have holes: a write of theirs failed. *)
Spoiled == spoiled \cup IF rec.error THEN {rec.turn} ELSE {}

GoesDown ==
    /\ wanted' = IF pc = "idle" THEN wanted ELSE {}
    /\ pc' = "down" /\ buffer' = <<>> /\ fatal' = FALSE
    /\ rec' = NewRecorder(0) /\ todo' = <<>> /\ cancelled' = FALSE
    /\ spoiled' = Spoiled
    /\ UNCHANGED <<log, faults, turns, offered, ran, blind, gaveUp, receipts,
                   published>>

(* The process stops: what is not committed is gone. *)
Crash ==
    /\ pc # "down" /\ crashes < MaxCrashes
    /\ crashes' = crashes + 1
    /\ GoesDown

(* A coordinator whose outcome is unknown is retired. *)
Retire ==
    pc = "idle" /\ fatal /\ GoesDown /\ UNCHANGED crashes

(* The log is opened again: an interrupted turn is closed, and a crash may *)
(* leave the first of its closers.                                         *)
Repair ==
    LET closers == Closers(Track(log)) IN
    /\ pc = "down"
    /\ \E k \in 0 .. Len(closers) :
          /\ log' = log \o SubSeq(closers, 1, k)
          /\ \/ k = Len(closers) /\ pc' = "idle" /\ UNCHANGED crashes
             \/ /\ k < Len(closers) /\ crashes < MaxCrashes
                /\ crashes' = crashes + 1 /\ UNCHANGED pc
    /\ UNCHANGED <<buffer, fatal, faults, rec, todo, cancelled, wanted, history>>

Next ==
    \/ Drain \/ Admit \/ Cancel
    \/ StopBeforeRequest \/ ApplySteering \/ ContextBoundary \/ ModelRequested
    \/ ModelResponded \/ StreamCut
    \/ NextStep \/ StopBeforeTool \/ ToolRequested \/ Decide
    \/ PermissionDenied \/ ToolStarted \/ Invoke \/ ToolFinished \/ ToolBoundary
    \/ Finish \/ Crash \/ Retire \/ Repair

Spec == Init /\ [][Next]_vars

-----------------------------------------------------------------------------
(* Properties *)

(* The log is one journal: its events have one of the shapes above, and    *)
(* everything the histories name belongs to a run that was started.        *)
TypeOK ==
    /\ \A e \in ToSet(log \o buffer) :
          /\ e.turn \in 1 .. turns
          /\ e.type \in {"turn/start", "turn/end", "step/start", "step/end",
                         "user/message", "assistant/message", "tool/call",
                         "tool/result"}
    /\ fatal \in BOOLEAN /\ cancelled \in BOOLEAN
    /\ pc \in {"idle", "request", "retry", "stream", "tools", "ask", "denied",
               "start", "invoke", "running", "finish", "down"}
    /\ rec.turn \in 0 .. turns /\ rec.step \in Nat
    /\ ToSet(rec.stashed) \cup ToSet(todo) \subseteq ToolCall
    /\ rec.journaled \subseteq Ids
    /\ gaveUp \cup spoiled \subseteq 1 .. turns
    /\ published \in {"none", "completed", "cancelled", "failed"}

Rivals(call, same(_)) ==
    {c \in offered : c.turn = call.turn /\ c # call /\ same(c)}

(* Nothing else the model asked for in the run has the id of the call. *)
Lone(call) == Rivals(call, LAMBDA c : c.id = call.id) = {}

(* Nothing else the model asked for in the run uses the same tool. *)
OnlyUse(call) == Rivals(call, LAMBDA c : c.tool = call.tool) = {}

AnswerOf(e, call) ==
    e.type = "tool/result" /\ e.turn = call.turn /\ e.id = call.id

Executed(call) == [turn |-> call.turn, id |-> call.id] \in ran

(* What the log says of a call, the model of a later run acts on: a call   *)
(* that is answered as denied, skipped or never started was not executed,  *)
(* whatever crashed in between.  Excepted are ids the model uses twice in  *)
(* a run, denials of a tool it uses twice (PermissionDenied carries the    *)
(* name only) and calls that ran although the barrier before them failed.  *)
AnswersAreTrue ==
    \A e \in ToSet(log) : \A call \in offered :
        /\ AnswerOf(e, call) /\ Lone(call)
        /\ \/ e.answer \in {"skipped", "not started"}
           \/ e.answer = "denied" /\ OnlyUse(call)
        => ~Executed(call) \/ [turn |-> call.turn, id |-> call.id] \in blind

(* What the seat of PermissionDenied says of itself: only a denial lands,  *)
(* so a call the log has as denied was not executed.                       *)
DeniedNeverRan ==
    \A e \in ToSet(log) : \A call \in offered :
        AnswerOf(e, call) /\ e.answer = "denied" => ~Executed(call)

(* An event lies in the turn and the step that are open where it stands:   *)
(* recovery finds what is open by the last start without an end.           *)
Fits(e, open) ==
    CASE e.type = "turn/start" -> open.turn = 0 \/ open.turn \in Spoiled
      [] e.turn \in Spoiled    -> TRUE
      [] e.type \in {"turn/end", "user/message", "step/start"} ->
           open.turn = e.turn /\ open.step = 0
      [] OTHER -> open.turn = e.turn /\ open.step = e.step
Nested ==
    LET open == Tracker(log) IN \A i \in DOMAIN log : Fits(log[i], open[i - 1])

(* A run that completed, or was interrupted and closed by recovery, leaves *)
(* no call of a message without an answer behind it.  Excepted are ids the *)
(* model uses twice in a run, and tools it uses twice: a denial that lands *)
(* on the other call of its tool leaves its own without an answer.         *)
Answered ==
    \A i, j \in DOMAIN log :
        /\ log[i].type = "assistant/message" /\ log[j].type = "turn/end"
        /\ log[i].turn = log[j].turn /\ log[i].turn \notin gaveUp
        /\ log[j].reason \in {"completed", "interrupted"}
        => \A call \in offered :
              /\ call.turn = log[i].turn /\ call.id \in ToSet(log[i].calls)
              /\ Lone(call) /\ OnlyUse(call)
              => \E k \in i .. j : AnswerOf(log[k], call)

(* A later run, and a provider, is given a transcript it accepts. *)
TurnsComplete == Nested /\ Answered

(* A success the frontend got, and the receipt of a steering message, are  *)
(* about events that a crash cannot take back; a completed run has no      *)
(* event missing, from its first step to its turn/end.                     *)
ReportedIsDurable ==
    /\ published \in Successes => wanted \subseteq ToSet(log)
    /\ receipts \subseteq ToSet(log)

=============================================================================
