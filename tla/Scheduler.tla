------------------------------ MODULE Scheduler ------------------------------
(***************************************************************************)
(* Unattended work: the one control document of rules and deliveries with  *)
(* its transactions (src/scheduler/store.rs, dispatch.rs, manual.rs), the  *)
(* host pump that reserves an occurrence, starts its run and settles it    *)
(* (src/serve/automatic.rs, src/application/automatic.rs), and the         *)
(* recovery at the head of every tick                                      *)
(* (src/application/automatic_recovery.rs).                                *)
(*                                                                         *)
(* A transaction is one action: it holds the service's lane from reading   *)
(* the document to saving it.  A tick of the pump holds the application    *)
(* lock and is several actions, because the process may stop between two   *)
(* saves; commands of the user wait for that lock.  A digest is the value  *)
(* it is taken of.  The session journal appears as what the scheduler      *)
(* asks of it: was this message committed, and how did its turn end.       *)
(***************************************************************************)
EXTENDS Integers, Sequences, FiniteSets

CONSTANTS
    Rules,          \* identities a rule can be created with
    Drafts,         \* what the user writes: <<rule, specification>>
    Requests,       \* occurrences of run-once requests, all negative
    Spends,         \* tokens a run can consume
    Flaky,          \* rules whose session or model may be unavailable
    Retention,      \* deliveries kept in the document (1024 in the code)
    MaxTime,        \* bound: the clock
    MaxRollbacks,   \* bound: backward jumps of the clock
    MaxRevision,    \* bound: revisions of each rule
    MaxReviews,     \* bound: reviews asked for
    MaxFaults,      \* bound: saves that fail
    MaxCrashes,     \* bound: ends of the host process
    Mixed           \* bound: whether the clock also goes back in a history
                    \* with failed saves and crashes

Specs == {draft[2] : draft \in Drafts}

(* WorkBudget::validate, Rule::validate.  An execution consumes at most    *)
(* what it reserved: its spend ledger is created with run_tokens.          *)
ASSUME SpecAssumption ==
    /\ Drafts \subseteq Rules \X Specs
    /\ \A s \in Specs :
          /\ s.kind \in {"at", "every", "job"}
          /\ s.at \in Nat /\ s.every \in Nat \ {0}
          /\ s.runs \in Nat \ {0} /\ (s.kind = "job" => s.runs = 1)
          /\ s.tokens \in Nat /\ s.runTokens \in 1 .. s.tokens
          /\ Spends \subseteq 0 .. s.runTokens
ASSUME RequestAssumption == Requests \subseteq {n \in Int : n < 0}
ASSUME BoundAssumption ==
    /\ Flaky \subseteq Rules
    /\ Retention \in Nat \ {0}
    /\ MaxRevision \in [Rules -> Nat]
    /\ {MaxTime, MaxRollbacks, MaxReviews, MaxFaults, MaxCrashes} \subseteq Nat
    /\ Mixed \in BOOLEAN

VARIABLES
    rules,          \* Document.rules: the rules that exist, by identity
    deliveries,     \* Document.deliveries
    fault,          \* Cache.fault: every call is refused until a reload
    pump,           \* where the host pump is, with its locals
    worker,         \* the thread of the automatic run, and its result
    journal,        \* committed automatic messages, with how the turn ended
    now, jobDone,   \* the wall clock; the observed background job has ended
    \* bookkeeping
    born,           \* identities already used
    issued,         \* reviews shown to the user
    grants,         \* what the user confirmed: <<rule, specification shown>>
    ran,            \* the executions begun, in order
    spent,          \* tokens consumed under each rule
    faults, crashes, rollbacks

docVars    == <<rules, deliveries, fault, faults>>
worldVars  == <<now, jobDone, rollbacks>>
runVars    == <<worker, journal, ran, spent>>
userVars   == <<born, issued, grants>>
vars == <<docVars, pump, worldVars, runVars, userVars, crashes>>

Consumption == [runs : Nat, tokens : Nat]
Nothing == [runs |-> 0, tokens |-> 0]
Ids == [rule : Rules, spec : Specs, occ : Nat \cup Requests]

(* How a turn ends: a run that was cancelled counts as failed, since all    *)
(* that is done with the difference is to record it.                       *)
Active  == {"Reserved", "Admitted"}
Results == {"Completed", "Failed"}
Settled == Results \cup {"Cancelled", "Interrupted"}

-----------------------------------------------------------------------------
(* Time rules.  The next and the latest occurrence are sets of at most one *)
(* element.  Daily and weekly rules are the periodic case.                 *)
After(s, t) ==
    IF s.kind = "at" THEN {o \in {s.at} : o > t}
    ELSE {s.at + s.every * (IF t < s.at THEN 0 ELSE (t - s.at) \div s.every + 1)}
Latest(s, t) ==
    IF s.kind = "at" THEN {o \in {s.at} : o <= t}
    ELSE IF t < s.at THEN {}
    ELSE {s.at + s.every * ((t - s.at) \div s.every)}
First(s, t) ==
    IF s.kind = "at" \/ s.at >= t THEN {s.at} ELSE After(s, t - 1)

-----------------------------------------------------------------------------
(* Rules and deliveries.                                                   *)
Enabled(r) == r \in DOMAIN rules /\ rules[r].phase = "Enabled"
AuthorizationValid(q) == q.auth = {q.spec}

(* Mutant: a run is allowed to begin while any token is left. *)
CanReserveAnyLeft(q) ==
    q.used.runs < q.spec.runs /\ q.used.tokens < q.spec.tokens

CanReserve(q) ==
    /\ q.used.runs < q.spec.runs
    /\ q.used.tokens + q.spec.runTokens <= q.spec.tokens
Put(r, q) == [x \in DOMAIN rules \cup {r} |-> IF x = r THEN q ELSE rules[x]]

Reservation(s) == [runs |-> 1, tokens |-> s.runTokens]
Plus(c, d) == [runs |-> c.runs + d.runs, tokens |-> c.tokens + d.tokens]
Monus(m, n) == IF m < n THEN 0 ELSE m - n       \* saturating_sub

(* Mutant: the reservation is given back twice. *)
ReconcileTwice(used, reserved, actual) ==
    Plus([runs   |-> used.runs - 2 * reserved.runs,
          tokens |-> used.tokens - 2 * reserved.tokens], actual)

Reconcile(used, reserved, actual) ==
    Plus([runs   |-> Monus(used.runs, reserved.runs),
          tokens |-> Monus(used.tokens, reserved.tokens)], actual)

Id(r, s, occ) == [rule |-> r, spec |-> s, occ |-> occ]
Delivered(r) == \E d \in deliveries : d.id.rule = r
Unsettled(r) == \E d \in deliveries : d.id.rule = r /\ d.phase \in Active
Known(i) == \E d \in deliveries : d.id = i

(* Room for one more delivery: as it is, or without an oldest settled one. *)
Trimmed ==
    LET settled == {d \in deliveries : d.phase \notin Active}
    IN  IF Cardinality(deliveries) < Retention THEN {deliveries}
        ELSE {deliveries \ {d} : d \in {e \in settled :
                 \A f \in settled : e.finished <= f.finished}}

(* Mutant: the journal is not consulted. *)
ReceiptIgnored(i) == FALSE

(* automatic_receipt, and the same lookup before an automatic admission.   *)
Receipt(i) == i \in DOMAIN journal

Terminal(i) ==
    IF Receipt(i) /\ journal[i] # "open" THEN journal[i] ELSE "Interrupted"

-----------------------------------------------------------------------------
Idle == [pc |-> "idle"]
NoRun == [pc |-> "none"]
At(pc) == pump.pc = pc
(* Outside a tick's hold of the application lock.                          *)
Unlocked == pump.pc \in {"idle", "running", "ended"}

Init ==
    /\ rules = <<>> /\ deliveries = {} /\ fault = FALSE
    /\ pump = Idle /\ worker = NoRun /\ journal = <<>>
    /\ now = 0 /\ jobDone = FALSE
    /\ born = {} /\ issued = {} /\ grants = {}
    /\ ran = <<>> /\ spent = [r \in Rules |-> 0]
    /\ faults = 0 /\ crashes = 0 /\ rollbacks = 0

(* SchedulerService::transaction: the document is replaced, or its         *)
(* publication fails, in which case the new text may be there or not and   *)
(* the service refuses everything until it is reloaded.                    *)
Write(rs, ds, ok, failed) ==
    /\ ~fault
    /\ \/ rules' = rs /\ deliveries' = ds /\ ok /\ UNCHANGED <<fault, faults>>
       \/ /\ faults < MaxFaults /\ (Mixed \/ rollbacks = 0)
          /\ \E landed \in BOOLEAN :
                /\ rules' = IF landed THEN rs ELSE rules
                /\ deliveries' = IF landed THEN ds ELSE deliveries
          /\ fault' = TRUE /\ faults' = faults + 1
          /\ failed

-----------------------------------------------------------------------------
(* Commands of the user and, for create and edit, of the model's tools.    *)
Command(r, q) ==
    /\ Unlocked
    /\ Write(Put(r, q), deliveries, TRUE, TRUE)
    /\ UNCHANGED <<pump, worldVars, runVars, crashes>>
Revise(r) == r \in DOMAIN rules /\ rules[r].rev < MaxRevision[r]

Create(r, s) ==
    /\ r \notin born /\ <<r, s>> \in Drafts
    /\ Command(r, [phase |-> "Draft", spec |-> s, rev |-> 1, auth |-> {},
                   used |-> Nothing, next |-> {}, review |-> {}, last |-> {}])
    /\ born' = born \cup {r}
    /\ UNCHANGED <<issued, grants>>

(* Mutant: a rule is edited while its delivery is unsettled. *)
EditBusy(r, s) ==
    /\ Revise(r)
    /\ <<r, s>> \in Drafts
    /\ Command(r, [rules[r] EXCEPT !.spec = s, !.rev = @ + 1, !.auth = {},
                   !.review = {}, !.phase = "Draft", !.next = {}])
    /\ UNCHANGED userVars

Edit(r, s) ==
    /\ Revise(r)
    /\ ~Unsettled(r) /\ <<r, s>> \in Drafts
    /\ Command(r, [rules[r] EXCEPT !.spec = s, !.rev = @ + 1, !.auth = {},
                   !.review = {}, !.phase = "Draft", !.next = {}])
    /\ UNCHANGED userVars

(* A review freezes nonce, revision and specification; the caller holds    *)
(* the same three.  The nonce is fresh for the rule.  A review that could   *)
(* not be confirmed within MaxRevision is not asked for.                   *)
Review(r) ==
    LET w == [rule |-> r, nonce |-> Cardinality({v \in issued : v.rule = r}),
              rev |-> rules[r].rev, spec |-> rules[r].spec]
    IN  /\ Revise(r) /\ Cardinality(issued) < MaxReviews
        /\ ~Enabled(r)
        /\ Command(r, [rules[r] EXCEPT !.review = {w}])
        /\ issued' = IF fault' THEN issued ELSE issued \cup {w}
        /\ UNCHANGED <<born, grants>>

(* Mutant: what the caller holds is not compared with the review. *)
ReviewedUncompared(q, v) ==
    \E w \in q.review : w.rev = q.rev /\ w.spec = q.spec

Reviewed(q, v) ==
    \E w \in q.review : w = v /\ w.rev = q.rev /\ w.spec = q.spec

Confirm(v) ==
    LET r == v.rule
        q == rules[r]
    IN  /\ Revise(r)
        /\ Reviewed(q, v)
        /\ CanReserve(q)
        /\ Command(r, [q EXCEPT !.rev = @ + 1, !.auth = {q.spec},
                       !.review = {}, !.phase = "Enabled", !.last = {},
                       !.next = IF q.spec.kind = "job" THEN @
                                ELSE First(q.spec, now)])
        /\ grants' = grants \cup {<<r, v.spec>>}
        /\ UNCHANGED <<born, issued>>

Pause(r) ==
    /\ Revise(r)
    /\ Command(r, [rules[r] EXCEPT !.rev = @ + 1, !.phase = "Paused",
                   !.review = {}])
    /\ UNCHANGED userVars

Resume(r) ==
    LET q == rules[r]
    IN  /\ Revise(r)
        /\ AuthorizationValid(q) /\ CanReserve(q)
        /\ ~(Delivered(r) /\ (q.spec.kind = "job" \/ q.next = {}))
        /\ Command(r, [q EXCEPT !.rev = @ + 1, !.phase = "Enabled"])
        /\ UNCHANGED userVars

Delete(r) ==
    /\ Unlocked /\ r \in DOMAIN rules
    /\ Write([x \in DOMAIN rules \ {r} |-> rules[x]], deliveries, TRUE, TRUE)
    /\ UNCHANGED <<pump, worldVars, runVars, userVars, crashes>>

Reload ==
    /\ Unlocked /\ fault
    /\ fault' = FALSE
    /\ UNCHANGED <<rules, deliveries, faults, pump, worldVars, runVars,
                   userVars, crashes>>

-----------------------------------------------------------------------------
(* Reservation, shared by the pump and by run-once requests: q is the rule *)
(* with its next time already moved.                                       *)
Deliverable(r, occ) ==
    ~Known(Id(r, rules[r].spec, occ)) /\ ~Unsettled(r) /\ Trimmed # {}
ReserveDelivery(r, q, occ, ok, failed) ==
    /\ Deliverable(r, occ)
    /\ \E kept \in Trimmed :
          Write(Put(r, [q EXCEPT !.used = Plus(@, Reservation(q.spec))]),
                kept \cup {[id |-> Id(r, q.spec, occ), phase |-> "Reserved",
                            finished |-> 0]},
                ok, failed)

(* A repeated request finds its delivery and changes nothing.              *)
RunNow(r, request) ==
    /\ Unlocked /\ worker.pc # "running"
    /\ Enabled(r) /\ AuthorizationValid(rules[r]) /\ CanReserve(rules[r])
    /\ rules[r].spec.kind # "job"
    /\ ReserveDelivery(r, rules[r], request, TRUE, TRUE)
    /\ UNCHANGED <<pump, worldVars, runVars, userVars, crashes>>

-----------------------------------------------------------------------------
(* The pump.  A tick begins with recovery.                                 *)
PumpOnly == UNCHANGED <<worldVars, userVars, crashes>>
Goto(next) == pump' = next

Tick ==
    /\ At("idle") /\ ~fault
    /\ Goto([pc |-> "tick"])
    /\ UNCHANGED <<docVars, runVars>> /\ PumpOnly

Rephase(d, phase) == (deliveries \ {d}) \cup {[d EXCEPT !.phase = phase]}
(* SchedulerService::settle, with the actual consumption if it is known.   *)
Settle(d, phase, actual, ok, failed) ==
    LET r == d.id.rule
        used(q) == IF actual = {} THEN q.used
                   ELSE Reconcile(q.used, Reservation(d.id.spec),
                                  CHOOSE a \in actual : TRUE)
        settled(q) == [q EXCEPT !.used = used(q)]
        closed(q) == IF CanReserve(q) THEN q
                     ELSE [q EXCEPT !.phase = "Exhausted"]
    IN  Write(IF r \in DOMAIN rules THEN Put(r, closed(settled(rules[r])))
              ELSE rules,
              (deliveries \ {d})
                  \cup {[d EXCEPT !.phase = phase, !.finished = now]},
              ok, failed)

(* Mutant: a reservation of a rule that is no longer enabled is kept. *)
RecoverableAdmitted(d) ==
    d.phase \in Active /\ (d.phase = "Admitted" \/ Receipt(d.id))

Recoverable(d) ==
    d.phase \in Active /\ (d.phase = "Admitted" \/ Receipt(d.id)
                           \/ ~Enabled(d.id.rule))
Recovered == \A d \in deliveries : ~Recoverable(d)

RecoverAdmitted(d) ==
    /\ d.phase = "Reserved" /\ Receipt(d.id)
    /\ Write(rules, Rephase(d, "Admitted"), UNCHANGED pump, Goto(Idle))

(* Mutant: an interrupted run gets its reservation back. *)
RecoverTerminalRefunding(d) ==
    /\ d.phase = "Admitted"
    /\ Settle(d, Terminal(d.id), {Nothing}, UNCHANGED pump, Goto(Idle))

RecoverTerminal(d) ==
    /\ d.phase = "Admitted"
    /\ Settle(d, Terminal(d.id), {}, UNCHANGED pump, Goto(Idle))
RecoverCancelled(d) ==
    /\ d.phase = "Reserved" /\ ~Receipt(d.id) /\ ~Enabled(d.id.rule)
    /\ Settle(d, "Cancelled", {Nothing}, UNCHANGED pump, Goto(Idle))
Recover ==
    /\ At("tick")
    /\ \E d \in {e \in deliveries : Recoverable(e)} :
          RecoverAdmitted(d) \/ RecoverTerminal(d) \/ RecoverCancelled(d)
    /\ UNCHANGED runVars /\ PumpOnly

(* pending_claim: a reservation that was never admitted is taken up again. *)
Pending(d) ==
    LET r == d.id.rule
    IN  /\ d.phase = "Reserved" /\ Enabled(r)
        /\ AuthorizationValid(rules[r]) /\ rules[r].spec = d.id.spec
ClaimPending ==
    /\ At("tick") /\ Recovered
    /\ \E d \in deliveries : Pending(d) /\ Goto([pc |-> "start", id |-> d.id])
    /\ UNCHANGED <<docVars, runVars>> /\ PumpOnly

(* What is due: ended jobs first, then the earliest occurrence; a rule     *)
(* that is not ready is skipped.                                           *)
JobsDue == {r \in DOMAIN rules : /\ Enabled(r) /\ CanReserve(rules[r])
                                 /\ rules[r].spec.kind = "job" /\ jobDone}
TimesDue == {r \in DOMAIN rules : /\ Enabled(r) /\ CanReserve(rules[r])
                                  /\ rules[r].spec.kind # "job"
                                  /\ \E n \in rules[r].next : n <= now
                                  /\ Latest(rules[r].spec, now) # {}}
Occurrence(r) ==
    LET s == rules[r].spec
    IN  IF s.kind = "job" THEN s.at ELSE CHOOSE o \in Latest(s, now) : TRUE
Chosen(skipped) ==
    LET jobs == JobsDue \ skipped
        times == TimesDue \ skipped
    IN  IF jobs # {} THEN jobs
        ELSE {r \in times : \A x \in times : Occurrence(r) <= Occurrence(x)}
Candidates == UNION {Chosen(skipped) : skipped \in SUBSET Flaky}
Seeking == At("tick") /\ Recovered /\ \A d \in deliveries : ~Pending(d)

(* Mutant: the next time stays where it was. *)
AdvancedNever(q, occ) ==
    IF q.spec.kind = "job" THEN q ELSE [q EXCEPT !.last = {occ}]

(* The rule's next time moves past the clock in the same transaction.      *)
Advanced(q, occ) ==
    IF q.spec.kind = "job" THEN q
    ELSE [q EXCEPT !.next = After(q.spec, now), !.last = {occ}]
NotDue(r, occ) ==
    rules[r].spec.kind # "job" /\ \E n \in rules[r].next : occ < n

ReserveDue ==
    /\ Seeking
    /\ \E r \in Candidates :
          LET occ == Occurrence(r)
          IN  /\ AuthorizationValid(rules[r]) /\ ~NotDue(r, occ)
              /\ ReserveDelivery(r, Advanced(rules[r], occ), occ,
                     Goto([pc |-> "start", id |-> Id(r, rules[r].spec, occ)]),
                     Goto(Idle))
    /\ UNCHANGED runVars /\ PumpOnly

(* An error of reserve ends the tick: no other rule is looked at.          *)
ReserveRefused ==
    /\ Seeking
    /\ \E r \in Candidates : ~Deliverable(r, Occurrence(r))
    /\ Goto(Idle)
    /\ UNCHANGED <<docVars, runVars>> /\ PumpOnly

(* Nothing to do, or input of the user goes first.                         *)
Yield ==
    /\ At("tick") /\ Recovered
    /\ Goto(Idle)
    /\ UNCHANGED <<docVars, runVars>> /\ PumpOnly

(* Another run holds the slot: the reservation stays.                      *)
SlotTaken ==
    /\ At("start")
    /\ Goto(Idle)
    /\ UNCHANGED <<docVars, runVars>> /\ PumpOnly

-----------------------------------------------------------------------------
(* start_automatic.  A run's report carries its outcome, whether it has a  *)
(* receipt, and its consumption if the meter was written.                  *)
Report(pc, i, phase, receipt, actual) ==
    [pc |-> pc, id |-> i, phase |-> phase, receipt |-> receipt,
     actual |-> actual]
Commit(i) == [x \in DOMAIN journal \cup {i} |->
                 IF x = i THEN "open" ELSE journal[x]]

(* The message is committed and the execution begins.                      *)
Admit ==
    /\ At("start") /\ ~Receipt(pump.id)
    /\ journal' = Commit(pump.id)
    /\ ran' = Append(ran, pump.id)
    /\ worker' = [pc |-> "running", id |-> pump.id]
    /\ Goto([pc |-> "publish", id |-> pump.id])
    /\ UNCHANGED <<docVars, spent>> /\ PumpOnly

StartRefused ==
    /\ At("start") /\ Receipt(pump.id)
    /\ Goto(Report("refused", pump.id, "Failed", TRUE, {}))
    /\ UNCHANGED <<docVars, runVars>> /\ PumpOnly

(* Any other error, before the commit, after it, or with the commit        *)
(* unknown; nothing is executed.                                           *)
StartFails ==
    /\ At("start") /\ ~Receipt(pump.id)
    /\ \E landed \in BOOLEAN : \E known \in {landed, FALSE} :
          /\ journal' = IF landed THEN Commit(pump.id) ELSE journal
          /\ Goto(Report("refused", pump.id, "Failed", known, {}))
    /\ UNCHANGED <<docVars, worker, ran, spent>> /\ PumpOnly

(* The receipt is published; if that fails the run is asked to stop, and   *)
(* still has to be joined.                                                 *)
Publish ==
    /\ At("publish")
    /\ \E d \in deliveries :
          /\ d.id = pump.id
          /\ Write(rules, Rephase(d, "Admitted"),
                   Goto([pc |-> "running"]), Goto([pc |-> "running"]))
    /\ UNCHANGED runVars /\ PumpOnly

(* The worker's terminal event is committed and reported, or it is not and *)
(* the run counts as failed, perhaps with no result at all.                *)
RunEnds ==
    /\ worker.pc = "running"
    /\ \E phase \in Results, tokens \in Spends, metered \in BOOLEAN :
       \E report \in {<<phase, TRUE>>, <<"Failed", TRUE>>, <<"Failed", FALSE>>} :
          LET i == worker.id
              actual == [runs |-> 1, tokens |-> tokens]
          IN  /\ spent' = [spent EXCEPT ![i.rule] = @ + tokens]
              /\ \/ journal' = [journal EXCEPT ![i] = phase]
                 \/ report[1] = "Failed" /\ journal' = journal
              /\ worker' = Report("ended", i, report[1], report[2],
                                  IF metered THEN {actual} ELSE {})
    /\ UNCHANGED <<docVars, pump, ran>> /\ PumpOnly

(* A later tick receives the result.                                       *)
Collect ==
    /\ At("running") /\ worker.pc = "ended"
    /\ Goto(worker)
    /\ worker' = NoRun
    /\ UNCHANGED <<docVars, journal, ran, spent>> /\ PumpOnly

(* settle_automatic, after a run or after a start that failed.             *)
FinishAdmitted ==
    /\ pump.pc \in {"ended", "refused"} /\ pump.receipt
    /\ \E d \in deliveries :
          /\ d.id = pump.id
          /\ Write(rules, Rephase(d, "Admitted"),
                   Goto([pump EXCEPT !.pc = "settle", !.receipt = FALSE]),
                   Goto(Idle))
    /\ UNCHANGED runVars /\ PumpOnly
FinishSettle ==
    /\ pump.pc \in {"ended", "refused", "settle"} /\ ~pump.receipt
    /\ \E d \in deliveries :
          /\ d.id = pump.id
          /\ Settle(d, pump.phase, pump.actual, Goto(Idle), Goto(Idle))
    /\ UNCHANGED runVars /\ PumpOnly
(* A faulted service settles nothing; the delivery waits for recovery.     *)
FinishFaulted ==
    /\ At("ended") /\ fault
    /\ Goto(Idle)
    /\ UNCHANGED <<docVars, runVars>> /\ PumpOnly

-----------------------------------------------------------------------------
(* The world: the process ends, the clock moves, the job ends.             *)
Crash ==
    /\ crashes < MaxCrashes /\ (Mixed \/ rollbacks = 0)
    /\ crashes' = crashes + 1
    /\ pump' = Idle /\ worker' = NoRun /\ fault' = FALSE
    /\ IF worker.pc = "running"
       THEN \E t \in Spends : spent' = [spent EXCEPT ![worker.id.rule] = @ + t]
       ELSE UNCHANGED spent
    /\ UNCHANGED <<rules, deliveries, faults, journal, ran, worldVars,
                   userVars>>

Advance ==
    /\ now < MaxTime
    /\ now' = now + 1
    /\ UNCHANGED <<docVars, pump, jobDone, rollbacks, runVars, userVars,
                   crashes>>
Rollback ==
    /\ rollbacks < MaxRollbacks /\ (Mixed \/ faults + crashes = 0)
    /\ now' \in 0 .. now - 1
    /\ rollbacks' = rollbacks + 1
    /\ UNCHANGED <<docVars, pump, jobDone, runVars, userVars, crashes>>
(* An end before anybody observes the job looks like one right after.      *)
JobEnds ==
    /\ ~jobDone /\ \E r \in DOMAIN rules : rules[r].spec.kind = "job"
    /\ jobDone' = TRUE
    /\ UNCHANGED <<docVars, pump, now, rollbacks, runVars, userVars, crashes>>

User ==
    \/ \E r \in Rules, s \in Specs : Create(r, s) \/ Edit(r, s)
    \/ \E r \in Rules : Review(r) \/ Pause(r) \/ Resume(r) \/ Delete(r)
    \/ \E v \in issued : Confirm(v)
    \/ \E r \in Rules, q \in Requests : RunNow(r, q)
    \/ Reload
Start == Admit \/ StartRefused \/ StartFails
Finish == FinishAdmitted \/ FinishSettle \/ FinishFaulted
Pump ==
    \/ Tick \/ Recover \/ ClaimPending \/ ReserveDue \/ ReserveRefused
    \/ Yield \/ SlotTaken \/ Start \/ Publish \/ RunEnds \/ Collect
    \/ Finish
World == Crash \/ Advance \/ Rollback \/ JobEnds
Next == User \/ Pump \/ World

Spec == Init /\ [][Next]_vars
(* The pump polls every half second and a run has a deadline.  Input of    *)
(* the user and other runs may delay a claim or a start again and again,   *)
(* but not for ever.                                                       *)
Fairness ==
    /\ WF_vars(Tick) /\ WF_vars(Recover)
    /\ SF_vars(ClaimPending) /\ SF_vars(ReserveDue) /\ SF_vars(Start)
    /\ WF_vars(Publish) /\ WF_vars(RunEnds) /\ WF_vars(Collect)
    /\ WF_vars(Finish)
    /\ WF_vars(Yield \/ ReserveRefused)
FairSpec == Spec /\ Fairness

-----------------------------------------------------------------------------
TypeReview == [rule : Rules, nonce : Nat, rev : Nat, spec : Specs]
TypeRule == [phase : {"Draft", "Enabled", "Paused", "Exhausted"},
             spec : Specs, rev : Nat \ {0}, auth : SUBSET Specs,
             used : Consumption, next : SUBSET Nat,
             review : SUBSET TypeReview, last : SUBSET Nat]
TypeDelivery == [id : Ids, phase : Active \cup Settled, finished : Nat]
TypeReport(pcs) == [pc : pcs, id : Ids, phase : Results, receipt : BOOLEAN,
                    actual : SUBSET Consumption]
TypePump ==
    [pc : {"idle", "tick", "running"}] \cup [pc : {"start", "publish"}, id : Ids]
    \cup TypeReport({"ended", "refused", "settle"})
TypeWorker ==
    {NoRun} \cup [pc : {"running"}, id : Ids] \cup TypeReport({"ended"})

(* The types of the document, the pump and the journal.                    *)
TypeOK ==
    /\ DOMAIN rules \subseteq born /\ born \subseteq Rules
    /\ \A r \in DOMAIN rules : rules[r] \in TypeRule
    /\ \A d \in deliveries : d \in TypeDelivery
    /\ fault \in BOOLEAN /\ jobDone \in BOOLEAN /\ now \in 0 .. MaxTime
    /\ pump \in TypePump /\ worker \in TypeWorker
    /\ DOMAIN journal \subseteq Ids
    /\ \A i \in DOMAIN journal : journal[i] \in Results \cup {"open"}
    /\ issued \subseteq TypeReview /\ grants \subseteq Rules \X Specs
    /\ ran \in Seq(Ids) /\ spent \in [Rules -> Nat]

RunsOf(r) == {n \in DOMAIN ran : ran[n].rule = r}
Begins == ran' # ran
Begun == ran'[Len(ran')]

(* An occurrence is executed at most once: over crashes between the commit *)
(* of its message and any save, retries after a failed save, repeated      *)
(* requests and after its record was trimmed (docs/schedules.md: a         *)
(* committed occurrence is never automatically rerun).                     *)
RunsOnce ==
    \A m, n \in DOMAIN ran : ran[m] = ran[n] => m = n

(* No execution begins that the budget of its specification does not cover *)
(* entirely, counting everything this rule ever executed.                  *)
RunsWithinBudget ==
    [][Begins => LET r == Begun.rule
                     s == Begun.spec
                 IN  /\ Cardinality(RunsOf(r)) < s.runs
                     /\ spent[r] + s.runTokens <= s.tokens]_vars

(* An execution begins only for a rule that is enabled at that moment, for *)
(* the specification it has then, and only if the user confirmed a review  *)
(* that showed that specification.                                         *)
RunsAsConfirmed ==
    [][Begins => /\ Enabled(Begun.rule)
                 /\ rules[Begun.rule].spec = Begun.spec
                 /\ <<Begun.rule, Begun.spec>> \in grants]_vars

(* While a delivery is unsettled its rule keeps the specification that was *)
(* reserved, and there is no second one: its budget is settled against     *)
(* what was taken, and pausing or resuming does not multiply it.           *)
ReservationFrozen ==
    \A d \in deliveries : d.phase \in Active =>
        /\ d.id.rule \in DOMAIN rules => rules[d.id.rule].spec = d.id.spec
        /\ \A e \in deliveries :
              e.phase \in Active /\ e.id.rule = d.id.rule => e = d

(* What the document says was used never falls below what was executed and *)
(* consumed, whatever was given back and whatever was never reported; a    *)
(* delivery is recorded as completed only if the journal holds that end of *)
(* its turn, and as interrupted only if it holds none.                     *)
RecordIsTrue ==
    /\ \A r \in DOMAIN rules :
          /\ Cardinality(RunsOf(r)) <= rules[r].used.runs
          /\ spent[r] <= rules[r].used.tokens
    /\ \A d \in deliveries :
          /\ d.phase = "Completed" =>
                d.id \in DOMAIN journal /\ journal[d.id] = "Completed"
          /\ d.phase = "Interrupted" =>
                d.id \in DOMAIN journal /\ journal[d.id] = "open"

(* Under one authorization the occurrences of a time rule that are         *)
(* reserved only go forward, even if the clock goes back.                  *)
OccurrencesAdvance ==
    [][\A r \in DOMAIN rules \cap DOMAIN rules' :
         \A d \in deliveries' \ deliveries :
            /\ d.id.rule = r /\ d.id.occ >= 0 /\ ~Known(d.id)
            /\ d.id.spec.kind # "job"
            => \A o \in rules[r].last : o < d.id.occ]_vars

(* A reservation is settled: by its run, by recovery after a crash or a    *)
(* failed save, or because its rule was paused or deleted; unless the      *)
(* service stays faulted because nobody reloads it.                        *)
UnsettledSettles ==
    \A r \in Rules :
        Unsettled(r) ~> (~Unsettled(r) \/ fault)

(* A rule that is due, with budget left and an occurrence not delivered    *)
(* yet, is looked after whatever other rules there are: the occurrence is  *)
(* reserved, or the rule is no longer due, or the service faulted          *)
(* (docs/schedules.md: a periodic rule catches its most recent occurrence).*)
Due(r) ==
    /\ r \in TimesDue /\ ~Unsettled(r) /\ ~fault
    /\ ~Known(Id(r, rules[r].spec, Occurrence(r)))
DueIsServed ==
    \A r \in Rules \ Flaky : Due(r) ~> ~Due(r)
=============================================================================
