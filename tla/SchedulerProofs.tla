-------------------------- MODULE SchedulerProofs --------------------------
(***************************************************************************)
(* Proofs about Scheduler, for any rules, specifications and requests, any *)
(* retention and any bounds.                                               *)
(***************************************************************************)
EXTENDS Scheduler, FiniteSetTheorems, TLAPS

-----------------------------------------------------------------------------
(* At most once *)

(* An execution is only ever begun by the step that commits its message,   *)
(* and a committed message stays in the journal.                           *)
OnceInv == ran \in Seq(DOMAIN journal) /\ RunsOnce

(* Every step but Admit leaves the executions alone and forgets no message.*)
LEMMA JournalGrows ==
    ASSUME [Next]_vars
    PROVE  Admit \/ (ran' = ran /\ DOMAIN journal \subseteq DOMAIN journal')
<1>1. CASE User
  BY <1>1 DEF User, Create, Edit, Review, Confirm, Pause, Resume, Delete, RunNow,
     Reload, Command, runVars
<1>2. CASE World
  BY <1>2 DEF World, Crash, Advance, Rollback, JobEnds, runVars
<1>3. CASE Start
  BY <1>3 DEF Start, StartRefused, StartFails, Commit, runVars
<1>4. CASE RunEnds
  BY <1>4 DEF RunEnds
<1>5. CASE Tick \/ Recover \/ ClaimPending \/ ReserveDue \/ ReserveRefused
           \/ Yield \/ SlotTaken \/ Publish \/ Collect \/ Finish
  BY <1>5 DEF Tick, Recover, ClaimPending, ReserveDue, ReserveRefused, Yield,
     SlotTaken, Publish, Collect, Finish, FinishAdmitted, FinishSettle,
     FinishFaulted, runVars
<1>6. CASE UNCHANGED vars
  BY <1>6 DEF vars, runVars
<1> QED BY <1>1, <1>2, <1>3, <1>4, <1>5, <1>6 DEF Next, Pump

(* Nothing has run and nothing is journalled to begin with. *)
LEMMA OnceInit == Init => OnceInv
BY DEF Init, OnceInv, RunsOnce

(* Every step of the user, the pump and the world keeps OnceInv. *)
LEMMA OnceStep == OnceInv /\ [Next]_vars => OnceInv'
<1> SUFFICES ASSUME OnceInv, [Next]_vars PROVE OnceInv'
  OBVIOUS
<1>1. CASE Admit
  <2>1. /\ pump.id \notin DOMAIN journal
        /\ DOMAIN journal' = DOMAIN journal \cup {pump.id}
        /\ ran' = Append(ran, pump.id)
    BY <1>1 DEF Admit, Receipt, Commit
  <2>2. ran \in Seq(DOMAIN journal')
    BY <2>1 DEF OnceInv
  <2>3. ran' \in Seq(DOMAIN journal')
    BY <2>1, <2>2
  <2>4. \A m, n \in DOMAIN ran' : ran'[m] = ran'[n] => m = n
    BY <2>1 DEF OnceInv, RunsOnce
  <2> QED BY <2>3, <2>4 DEF OnceInv, RunsOnce
<1>2. CASE ran' = ran /\ DOMAIN journal \subseteq DOMAIN journal'
  BY <1>2 DEF OnceInv, RunsOnce
<1> QED BY <1>1, <1>2, JournalGrows

(* An occurrence is executed at most once, over any number of crashes,     *)
(* failed saves, repeated requests, renewed confirmations and trimmed      *)
(* records.                                                                *)
THEOREM AtMostOnce == Spec => []RunsOnce
<1>1. OnceInv => RunsOnce
  BY DEF OnceInv
<1> QED BY <1>1, OnceInit, OnceStep, PTL DEF Spec

-----------------------------------------------------------------------------
(* Types *)

DocType(rs, ds) ==
    /\ DOMAIN rs \subseteq born
    /\ \A r \in DOMAIN rs : rs[r] \in TypeRule
    /\ \A d \in ds : d \in TypeDelivery
WorldType == now \in 0 .. MaxTime /\ jobDone \in BOOLEAN
RunType ==
    /\ worker \in TypeWorker
    /\ DOMAIN journal \subseteq Ids
    /\ \A i \in DOMAIN journal : journal[i] \in Results \cup {"open"}
    /\ ran \in Seq(Ids) /\ spent \in [Rules -> Nat]
UserType ==
    /\ born \subseteq Rules
    /\ issued \subseteq TypeReview /\ IsFiniteSet(issued)
    /\ grants \subseteq Rules \X Specs
TypeInv ==
    /\ DocType(rules, deliveries) /\ fault \in BOOLEAN
    /\ WorldType /\ RunType /\ UserType /\ pump \in TypePump

(* The constants, without the records of SpecAssumption.                   *)
LEMMA SpecFacts ==
    ASSUME NEW s \in Specs
    PROVE  /\ s.at \in Nat /\ s.every \in Nat \ {0}
           /\ s.runs \in Nat /\ s.tokens \in Nat /\ s.runTokens \in Nat
           /\ Spends \subseteq Nat
<1>1. s.tokens \in Nat /\ s.runTokens \in 1 .. s.tokens
      /\ Spends \subseteq 0 .. s.runTokens
  BY SpecAssumption
<1> QED BY <1>1, SpecAssumption

(* The times computed from a trigger are sets of times. *)
LEMMA Occurrences ==
    ASSUME NEW s \in Specs, NEW t \in Nat
    PROVE  /\ After(s, t) \subseteq Nat /\ Latest(s, t) \subseteq Nat
           /\ First(s, t) \subseteq Nat
<1>1. s.at \in Nat /\ s.every \in Nat \ {0}
  BY SpecFacts
<1>2. ASSUME NEW u \in Nat, u >= s.at PROVE (u - s.at) \div s.every \in Nat
  BY <1>1, <1>2
<1>3. ASSUME NEW a \in Nat, NEW n \in Nat PROVE s.at + s.every * n \in Nat
  BY <1>1, <1>3
<1>4. ASSUME NEW u \in Nat PROVE After(s, u) \subseteq Nat
  <2>1. CASE s.kind = "at"
    BY <1>1, <2>1 DEF After
  <2>2. CASE s.kind # "at"
    <3> DEFINE steps == IF u < s.at THEN 0 ELSE (u - s.at) \div s.every + 1
    <3>1. After(s, u) = {s.at + s.every * steps}
      BY <2>2, Zenon DEF After
    <3>2. steps \in Nat
      BY <1>1, <1>2
    <3> QED BY <3>1, <3>2, <1>3
  <2> QED BY <2>1, <2>2
<1>5. Latest(s, t) \subseteq Nat
  <2>1. CASE s.kind = "at"
    BY <1>1, <2>1 DEF Latest
  <2>2. CASE s.kind # "at" /\ t < s.at
    BY <2>2 DEF Latest
  <2>3. CASE s.kind # "at" /\ t >= s.at
    <3>1. Latest(s, t) = {s.at + s.every * ((t - s.at) \div s.every)}
      BY <2>3, <1>1 DEF Latest
    <3> QED BY <3>1, <1>2, <1>3, <2>3
  <2> QED BY <1>1, <2>1, <2>2, <2>3
<1>6. First(s, t) \subseteq Nat
  <2>1. CASE s.kind = "at" \/ s.at >= t
    BY <1>1, <2>1 DEF First
  <2>2. CASE ~(s.kind = "at" \/ s.at >= t)
    <3>1. t - 1 \in Nat /\ First(s, t) = After(s, t - 1)
      BY <1>1, <2>2 DEF First
    <3> QED BY <3>1, <1>4
  <2> QED BY <2>1, <2>2
<1> QED BY <1>4, <1>5, <1>6

(* Reservations, sums and reconciled amounts are consumptions again. *)
LEMMA Budgets ==
    ASSUME NEW c \in Consumption, NEW d \in Consumption, NEW e \in Consumption,
           NEW s \in Specs
    PROVE  /\ Reservation(s) \in Consumption /\ Nothing \in Consumption
           /\ Plus(c, d) \in Consumption /\ Reconcile(c, d, e) \in Consumption
<1>1. Reservation(s) \in Consumption /\ Nothing \in Consumption
  BY SpecFacts DEF Reservation, Nothing, Consumption
<1>2. ASSUME NEW x \in Consumption, NEW y \in Consumption
      PROVE  Plus(x, y) \in Consumption
  BY DEF Plus, Consumption
<1>3. \A m, n \in Nat : Monus(m, n) \in Nat
  BY DEF Monus
<1>4. [runs |-> Monus(c.runs, d.runs), tokens |-> Monus(c.tokens, d.tokens)]
          \in Consumption
  BY <1>3 DEF Consumption
<1> QED BY <1>1, <1>2, <1>4 DEF Reconcile

(* What a transaction writes is well typed if its two documents are.       *)
LEMMA Written ==
    ASSUME TypeInv, born \subseteq born',
           rules' = rules \/ (DOMAIN rules' \subseteq born'
                              /\ \A r \in DOMAIN rules' : rules'[r] \in TypeRule),
           \A d \in deliveries' : d \in deliveries \/ d \in TypeDelivery
    PROVE  DocType(rules, deliveries)'
BY DEF TypeInv, DocType, TypeRule, TypeReview, TypeDelivery

(* Storing a typed rule leaves a typed set of rules. *)
LEMMA PutType ==
    ASSUME TypeInv, NEW r, NEW q \in TypeRule, NEW ids, born \cup {r} \subseteq ids
    PROVE  /\ DOMAIN Put(r, q) \subseteq ids
           /\ \A x \in DOMAIN Put(r, q) : Put(r, q)[x] \in TypeRule
BY DEF TypeInv, DocType, Put

(* A typed rule has typed fields and no others. *)
LEMMA RuleFields ==
    ASSUME NEW q \in TypeRule
    PROVE  /\ q.spec \in Specs /\ q.rev \in Nat \ {0} /\ q.used \in Consumption
           /\ q.next \in SUBSET Nat /\ q.review \in SUBSET TypeReview
           /\ q = [phase |-> q.phase, spec |-> q.spec, rev |-> q.rev,
                   auth |-> q.auth, used |-> q.used, next |-> q.next,
                   review |-> q.review, last |-> q.last]
BY DEF TypeRule

(* What reservations and settlements write. *)
LEMMA RuleUsed ==
    ASSUME NEW q \in TypeRule, NEW c \in Consumption
    PROVE  [q EXCEPT !.used = c] \in TypeRule
BY DEF TypeRule

(* Closing an exhausted rule keeps its type. *)
LEMMA RuleExhausted ==
    ASSUME NEW q \in TypeRule
    PROVE  [q EXCEPT !.phase = "Exhausted"] \in TypeRule
BY DEF TypeRule

(* Advancing a rule past an occurrence keeps its type and terms. *)
LEMMA RuleAdvanced ==
    ASSUME NEW q \in TypeRule, NEW n \in SUBSET Nat, NEW o \in SUBSET Nat
    PROVE  /\ [q EXCEPT !.next = n, !.last = o] \in TypeRule
           /\ [q EXCEPT !.next = n, !.last = o].spec = q.spec
BY DEF TypeRule

(* What commands write. *)
LEMMA RuleUpdates ==
    ASSUME NEW q \in TypeRule, NEW s \in Specs, NEW n \in SUBSET Nat,
           NEW w \in SUBSET TypeReview
    PROVE  /\ [q EXCEPT !.spec = s, !.rev = @ + 1, !.auth = {}, !.review = {},
                        !.phase = "Draft", !.next = {}] \in TypeRule
           /\ [q EXCEPT !.review = w] \in TypeRule
           /\ [q EXCEPT !.rev = @ + 1, !.auth = {q.spec}, !.review = {},
                        !.phase = "Enabled", !.last = {}, !.next = n] \in TypeRule
           /\ [q EXCEPT !.rev = @ + 1, !.phase = "Paused", !.review = {}]
                  \in TypeRule
           /\ [q EXCEPT !.rev = @ + 1, !.phase = "Enabled"] \in TypeRule
<1>1. q.rev + 1 \in Nat \ {0}
  BY DEF TypeRule
<1>2. [q EXCEPT !.spec = s, !.rev = @ + 1, !.auth = {}, !.review = {},
                        !.phase = "Draft", !.next = {}] \in TypeRule
  BY <1>1 DEF TypeRule
<1>3. [q EXCEPT !.review = w] \in TypeRule
  BY DEF TypeRule
<1>4. [q EXCEPT !.rev = @ + 1, !.auth = {q.spec}, !.review = {},
                !.phase = "Enabled", !.last = {}, !.next = n] \in TypeRule
  BY <1>1 DEF TypeRule
<1>5. [q EXCEPT !.rev = @ + 1, !.phase = "Paused", !.review = {}] \in TypeRule
  BY <1>1 DEF TypeRule
<1>6. [q EXCEPT !.rev = @ + 1, !.phase = "Enabled"] \in TypeRule
  BY <1>1 DEF TypeRule
<1> QED BY <1>2, <1>3, <1>4, <1>5, <1>6

(* The groups of variables an action leaves alone stay well typed.         *)
LEMMA Kept ==
    ASSUME TypeInv
    PROVE  /\ UNCHANGED worldVars => WorldType'
           /\ UNCHANGED runVars => RunType'
           /\ UNCHANGED userVars => UserType' /\ born \subseteq born'
           /\ UNCHANGED pump => (pump \in TypePump)'
           /\ UNCHANGED <<docVars, born>> => DocType(rules, deliveries)' /\ (fault \in BOOLEAN)'
<1>1. UNCHANGED worldVars => WorldType'
  BY DEF TypeInv, WorldType, worldVars
<1>2. UNCHANGED runVars => RunType'
  BY DEF TypeInv, RunType, runVars, TypeWorker, TypeReport
<1>3. UNCHANGED userVars => UserType' /\ born \subseteq born'
  BY DEF TypeInv, UserType, userVars, TypeReview
<1>4. UNCHANGED pump => (pump \in TypePump)'
  BY DEF TypeInv, TypePump, TypeReport
<1>5. UNCHANGED <<docVars, born>> => DocType(rules, deliveries)' /\ (fault \in BOOLEAN)'
  BY DEF TypeInv, DocType, docVars, TypeRule, TypeReview, TypeDelivery
<1> QED BY <1>1, <1>2, <1>3, <1>4, <1>5

(* A command that writes one typed rule keeps the types. *)
LEMMA WrittenCommand ==
    ASSUME TypeInv, NEW r, NEW q \in TypeRule, Command(r, q),
           born \cup {r} \subseteq born', UserType'
    PROVE  TypeInv'
<1>1. DocType(rules, deliveries)'
  <2>1. /\ rules' = rules \/ rules' = Put(r, q)
        /\ deliveries' = deliveries
    BY Zenon DEF Command, Write
  <2> QED BY <2>1, PutType, Written
<1>2. fault' \in BOOLEAN
  BY DEF Command, Write, TypeInv
<1>3. UNCHANGED <<pump, worldVars, runVars>>
  BY DEF Command
<1> QED BY <1>1, <1>2, <1>3, Kept DEF TypeInv

(* What the type invariant says of a stored rule. *)
LEMMA RuleOf ==
    ASSUME TypeInv, NEW r \in DOMAIN rules
    PROVE  /\ r \in Rules /\ r \in born /\ rules[r] \in TypeRule
           /\ rules[r].spec \in Specs /\ rules[r].rev \in Nat
           /\ rules[r].next \in SUBSET Nat /\ rules[r].used \in Consumption
           /\ now \in Nat
BY BoundAssumption, RuleFields DEF TypeInv, DocType, UserType, WorldType

(* A reservation writes a typed document and names a typed delivery. *)
LEMMA Reserving ==
    ASSUME TypeInv, NEW r \in DOMAIN rules, NEW q \in TypeRule,
           NEW occ \in Nat \cup Requests, NEW ACTION ok, NEW ACTION failed,
           ReserveDelivery(r, q, occ, ok, failed), UNCHANGED userVars
    PROVE  /\ DocType(rules, deliveries)' /\ (fault \in BOOLEAN)'
           /\ Id(r, q.spec, occ) \in Ids
<1> DEFINE p == [q EXCEPT !.used = Plus(q.used, Reservation(q.spec))]
           d == [id |-> Id(r, q.spec, occ), phase |-> "Reserved", finished |-> 0]
<1>1. PICK kept \in Trimmed :
         /\ rules' = rules \/ rules' = Put(r, p)
         /\ deliveries' = deliveries \/ deliveries' = kept \cup {d}
         /\ fault' \in BOOLEAN
  BY Zenon DEF ReserveDelivery, Write, TypeInv
<1>2. p \in TypeRule
  <2>1. Plus(q.used, Reservation(q.spec)) \in Consumption
    BY RuleFields, Budgets
  <2> QED BY <2>1, RuleUsed
<1>3. Id(r, q.spec, occ) \in Ids /\ d \in TypeDelivery
  BY RuleFields, RuleOf DEF Id, Ids, TypeDelivery, Active
<1>4. kept \subseteq deliveries
  BY DEF Trimmed
<1>5. DocType(rules, deliveries)'
  BY <1>1, <1>2, <1>3, <1>4, RuleOf, PutType, Written DEF userVars
<1> QED BY <1>1, <1>3, <1>5

(* Every command of the user keeps the types. *)
LEMMA UserTypes == TypeInv /\ User => TypeInv'
<1> SUFFICES ASSUME TypeInv, User PROVE TypeInv'
  OBVIOUS
<1>1. ASSUME NEW r \in Rules, NEW s \in Specs, Create(r, s) PROVE TypeInv'
  <2> DEFINE q == [phase |-> "Draft", spec |-> s, rev |-> 1, auth |-> {},
                   used |-> Nothing, next |-> {}, review |-> {}, last |-> {}]
  <2>1. q \in TypeRule
    BY DEF TypeRule, Nothing, Consumption
  <2>2. Command(r, q) /\ born' = born \cup {r} /\ UNCHANGED <<issued, grants>>
    BY <1>1 DEF Create
  <2>3. UserType'
    BY <2>2 DEF TypeInv, UserType, TypeReview
  <2> QED BY <2>1, <2>2, <2>3, WrittenCommand
<1>2. ASSUME NEW r \in Rules, NEW s \in Specs, Edit(r, s) PROVE TypeInv'
  <2> DEFINE q == [rules[r] EXCEPT !.spec = s, !.rev = @ + 1, !.auth = {},
                   !.review = {}, !.phase = "Draft", !.next = {}]
  <2>1. r \in DOMAIN rules /\ Command(r, q) /\ UNCHANGED userVars
    BY <1>2 DEF Edit, Revise
  <2>2. q \in TypeRule
    BY <2>1, RuleOf, RuleUpdates
  <2> QED BY <2>1, <2>2, RuleOf, Kept, WrittenCommand DEF userVars
<1>3. ASSUME NEW r \in Rules, Review(r) PROVE TypeInv'
  <2> DEFINE w == [rule |-> r, nonce |-> Cardinality({v \in issued : v.rule = r}),
                   rev |-> rules[r].rev, spec |-> rules[r].spec]
  <2>1. /\ r \in DOMAIN rules
        /\ Command(r, [rules[r] EXCEPT !.review = {w}])
        /\ issued' = IF fault' THEN issued ELSE issued \cup {w}
        /\ UNCHANGED <<born, grants>>
    BY <1>3 DEF Review, Revise
  <2>2. w \in TypeReview
    <3>1. IsFiniteSet({v \in issued : v.rule = r})
      BY FS_Subset DEF TypeInv, UserType
    <3> QED BY <3>1, <2>1, FS_CardinalityType, RuleOf DEF TypeReview
  <2>3. [rules[r] EXCEPT !.review = {w}] \in TypeRule
    BY <2>1, <2>2, RuleOf, RuleUpdates
  <2>4. IsFiniteSet(issued')
    BY <2>1, FS_AddElement DEF TypeInv, UserType
  <2>5. UserType'
    BY <2>1, <2>2, <2>4 DEF TypeInv, UserType, TypeReview
  <2> QED BY <2>1, <2>3, <2>5, RuleOf, WrittenCommand
<1>4. ASSUME NEW r \in Rules, Pause(r) PROVE TypeInv'
  <2>1. /\ r \in DOMAIN rules /\ UNCHANGED userVars
        /\ Command(r, [rules[r] EXCEPT !.rev = @ + 1, !.phase = "Paused",
                                       !.review = {}])
    BY <1>4 DEF Pause, Revise
  <2>2. [rules[r] EXCEPT !.rev = @ + 1, !.phase = "Paused", !.review = {}]
            \in TypeRule
    BY <2>1, RuleOf, RuleUpdates
  <2> QED BY <2>1, <2>2, RuleOf, Kept, WrittenCommand DEF userVars
<1>5. ASSUME NEW r \in Rules, Resume(r) PROVE TypeInv'
  <2>1. /\ r \in DOMAIN rules /\ UNCHANGED userVars
        /\ Command(r, [rules[r] EXCEPT !.rev = @ + 1, !.phase = "Enabled"])
    BY <1>5 DEF Resume, Revise
  <2>2. [rules[r] EXCEPT !.rev = @ + 1, !.phase = "Enabled"] \in TypeRule
    BY <2>1, RuleOf, RuleUpdates
  <2> QED BY <2>1, <2>2, RuleOf, Kept, WrittenCommand DEF userVars
<1>6. ASSUME NEW r \in Rules, Delete(r) PROVE TypeInv'
  <2>1. /\ rules' = rules \/ rules' = [x \in DOMAIN rules \ {r} |-> rules[x]]
        /\ deliveries' = deliveries /\ fault' \in BOOLEAN
        /\ UNCHANGED <<pump, worldVars, runVars, userVars>>
    BY <1>6 DEF Delete, Write, TypeInv
  <2>2. born' = born
    BY <2>1 DEF userVars
  <2>3. rules' = rules \/ (DOMAIN rules' \subseteq born'
                           /\ \A x \in DOMAIN rules' : rules'[x] \in TypeRule)
    BY <2>1, <2>2 DEF TypeInv, DocType
  <2>4. DocType(rules, deliveries)'
    BY <2>1, <2>2, <2>3, Written
  <2> QED BY <2>1, <2>4, Kept DEF TypeInv
<1>7. ASSUME NEW v \in issued, Confirm(v) PROVE TypeInv'
  <2> DEFINE r == v.rule
             n == IF rules[r].spec.kind = "job" THEN rules[r].next
                  ELSE First(rules[r].spec, now)
             q == [rules[r] EXCEPT !.rev = @ + 1, !.auth = {rules[r].spec},
                       !.review = {}, !.phase = "Enabled", !.last = {},
                       !.next = n]
  <2>1. /\ r \in DOMAIN rules /\ Command(r, q)
        /\ grants' = grants \cup {<<r, v.spec>>} /\ UNCHANGED <<born, issued>>
    BY <1>7, Zenon DEF Confirm, Revise
  <2>2. v.rule \in Rules /\ v.spec \in Specs
    BY DEF TypeInv, UserType, TypeReview
  <2>3. n \in SUBSET Nat
    BY <2>1, RuleOf, Occurrences
  <2>4. q \in TypeRule
    BY <2>1, <2>3, RuleOf, RuleUpdates
  <2>5. UserType'
    BY <2>1, <2>2 DEF TypeInv, UserType, TypeReview
  <2> QED BY <2>1, <2>4, <2>5, RuleOf, WrittenCommand
<1>8. ASSUME NEW r \in Rules, NEW o \in Requests, RunNow(r, o) PROVE TypeInv'
  <2>1. /\ r \in DOMAIN rules /\ ReserveDelivery(r, rules[r], o, TRUE, TRUE)
        /\ UNCHANGED <<pump, worldVars, runVars, userVars>>
    BY <1>8 DEF RunNow, Enabled
  <2>2. DocType(rules, deliveries)' /\ (fault \in BOOLEAN)'
    BY <2>1, RuleOf, Reserving
  <2> QED BY <2>1, <2>2, Kept DEF TypeInv
<1>9. CASE Reload
  BY <1>9, Kept DEF Reload, TypeInv, DocType, userVars
<1> QED BY <1>1, <1>2, <1>3, <1>4, <1>5, <1>6, <1>7, <1>8, <1>9 DEF User

(* What the pump and its worker hold. *)
LEMMA PumpFacts ==
    ASSUME TypeInv
    PROVE  /\ pump.pc \in {"start", "publish"} => pump.id \in Ids
           /\ pump.pc \in {"ended", "refused", "settle"} =>
                 /\ pump \in TypeReport({"ended", "refused", "settle"})
                 /\ pump.id \in Ids /\ pump.phase \in Results
                 /\ pump.actual \in SUBSET Consumption
           /\ worker.pc = "running" => worker.id \in Ids
           /\ worker.pc = "ended" => worker \in TypeReport({"ended"})
           /\ Idle \in TypePump /\ [pc |-> "running"] \in TypePump
           /\ \A i \in Ids : /\ [pc |-> "start", id |-> i] \in TypePump
                             /\ [pc |-> "publish", id |-> i] \in TypePump
BY DEF TypeInv, RunType, TypePump, TypeWorker, TypeReport, NoRun, Idle

(* Admitting a delivery leaves a typed document. *)
LEMMA Rephasing ==
    ASSUME TypeInv, NEW d \in deliveries, NEW ACTION ok, NEW ACTION failed,
           Write(rules, Rephase(d, "Admitted"), ok, failed), UNCHANGED userVars
    PROVE  DocType(rules, deliveries)' /\ (fault \in BOOLEAN)'
<1>1. /\ rules' = rules
      /\ deliveries' = deliveries \/ deliveries' = Rephase(d, "Admitted")
      /\ fault' \in BOOLEAN
  BY Zenon DEF Write, TypeInv
<1>2. [d EXCEPT !.phase = "Admitted"] \in TypeDelivery
  BY DEF TypeInv, DocType, TypeDelivery, Active
<1> QED BY <1>1, <1>2, Written DEF Rephase, userVars

(* Settling a delivery leaves a typed document. *)
LEMMA Settling ==
    ASSUME TypeInv, NEW d \in deliveries, NEW phase \in Settled,
           NEW actual \in SUBSET Consumption, NEW ACTION ok, NEW ACTION failed,
           Settle(d, phase, actual, ok, failed), UNCHANGED userVars
    PROVE  DocType(rules, deliveries)' /\ (fault \in BOOLEAN)'
<1> DEFINE r == d.id.rule
           c == IF actual = {} THEN rules[r].used
                ELSE Reconcile(rules[r].used, Reservation(d.id.spec),
                               CHOOSE a \in actual : TRUE)
           p == [rules[r] EXCEPT !.used = c]
           q == IF CanReserve(p) THEN p ELSE [p EXCEPT !.phase = "Exhausted"]
           e == [d EXCEPT !.phase = phase, !.finished = now]
<1>1. /\ rules' = rules \/ (r \in DOMAIN rules /\ rules' = Put(r, q))
      /\ deliveries' = deliveries \/ deliveries' = (deliveries \ {d}) \cup {e}
      /\ fault' \in BOOLEAN
  BY Zenon DEF Settle, Write, TypeInv
<1>2. e \in TypeDelivery
  <2>1. now \in Nat
    BY BoundAssumption DEF TypeInv, WorldType
  <2>2. d \in TypeDelivery
    BY DEF TypeInv, DocType
  <2> QED BY <2>1, <2>2 DEF TypeDelivery
<1>3. ASSUME r \in DOMAIN rules PROVE q \in TypeRule
  <2>1. d.id.spec \in Specs
    <3>1. d \in TypeDelivery
      BY DEF TypeInv, DocType
    <3> QED BY <3>1 DEF TypeDelivery, Ids
  <2>2. rules[r] \in TypeRule /\ rules[r].used \in Consumption
    BY <1>3, RuleOf
  <2>3. actual # {} => (CHOOSE a \in actual : TRUE) \in Consumption
    OBVIOUS
  <2>4. c \in Consumption
    <3>1. CASE actual = {}
      BY <2>2, <3>1
    <3>2. CASE actual # {}
      <4>1. PICK a \in Consumption : c = Reconcile(rules[r].used, Reservation(d.id.spec), a)
        BY <2>3, <3>2
      <4>2. Reservation(d.id.spec) \in Consumption
        BY <2>1, Budgets
      <4>3. Reconcile(rules[r].used, Reservation(d.id.spec), a) \in Consumption
        BY <2>1, <2>2, <4>1, <4>2, Budgets
      <4> QED BY <4>1, <4>3
    <3> QED BY <3>1, <3>2
  <2>5. p \in TypeRule
    BY <2>2, <2>4, RuleUsed
  <2> HIDE DEF p
  <2>6. [p EXCEPT !.phase = "Exhausted"] \in TypeRule
    BY <2>5, RuleExhausted
  <2> QED BY <2>5, <2>6
<1>4. DOMAIN rules' \subseteq born
      /\ \A x \in DOMAIN rules' : rules'[x] \in TypeRule
  <2> HIDE DEF q
  <2>1. CASE rules' = rules
    BY <2>1 DEF TypeInv, DocType
  <2>2. CASE r \in DOMAIN rules /\ rules' = Put(r, q)
    BY <2>2, <1>3, RuleOf, PutType
  <2> QED BY <2>1, <2>2, <1>1
<1>5. \A x \in deliveries' : x \in TypeDelivery
  <2> HIDE DEF e
  <2> QED BY <1>1, <1>2 DEF TypeInv, DocType
<1>6. DocType(rules, deliveries)'
  BY <1>4, <1>5, Written DEF userVars
<1> QED BY <1>1, <1>6

(* A rule the pump may serve is stored, enabled and within budget. *)
LEMMA CandidateFacts ==
    ASSUME TypeInv, NEW r \in Candidates
    PROVE  /\ r \in DOMAIN rules /\ Enabled(r) /\ CanReserve(rules[r])
           /\ Occurrence(r) \in Nat
           /\ Advanced(rules[r], Occurrence(r)) \in TypeRule
           /\ Advanced(rules[r], Occurrence(r)).spec = rules[r].spec
<1> DEFINE s == rules[r].spec
<1>1. r \in JobsDue \cup TimesDue
  BY DEF Candidates, Chosen
<1>2. r \in DOMAIN rules /\ Enabled(r) /\ CanReserve(rules[r])
  BY <1>1 DEF JobsDue, TimesDue
<1>3. s.kind # "job" => Latest(s, now) # {}
  BY <1>1 DEF JobsDue, TimesDue
<1>4. s \in Specs /\ now \in Nat /\ rules[r] \in TypeRule
  BY <1>2, RuleOf
<1>5. Occurrence(r) \in Nat
  BY <1>3, <1>4, SpecFacts, Occurrences DEF Occurrence
<1>6. After(s, now) \in SUBSET Nat
  BY <1>4, Occurrences
<1>7. /\ Advanced(rules[r], Occurrence(r)) \in TypeRule
      /\ Advanced(rules[r], Occurrence(r)).spec = s
  <2>1. {Occurrence(r)} \in SUBSET Nat
    BY <1>5
  <2>2. CASE s.kind = "job"
    BY <1>4, <2>2 DEF Advanced
  <2>3. CASE s.kind # "job"
    BY <1>4, <1>6, <2>1, <2>3, RuleAdvanced DEF Advanced
  <2> QED BY <2>2, <2>3
<1> QED BY <1>2, <1>5, <1>7

(* Every step of the pump keeps the types. *)
LEMMA PumpTypes == TypeInv /\ Pump => TypeInv'
<1> SUFFICES ASSUME TypeInv, Pump PROVE TypeInv'
  OBVIOUS
<1>0. WorldType' /\ UserType' /\ UNCHANGED userVars /\ born' = born
  <2>1. PumpOnly
    BY DEF Pump, Tick, Recover, ClaimPending, ReserveDue, ReserveRefused, Yield,
       SlotTaken, Start, Admit, StartRefused, StartFails, Publish, RunEnds,
       Collect, Finish, FinishAdmitted, FinishSettle, FinishFaulted
  <2> QED BY <2>1, Kept DEF PumpOnly, userVars
<1>1. CASE Tick \/ ReserveRefused \/ Yield \/ SlotTaken \/ FinishFaulted
  <2>1. pump' \in TypePump /\ UNCHANGED <<docVars, runVars>>
    BY <1>1, PumpFacts DEF Tick, ReserveRefused, Yield, SlotTaken, FinishFaulted,
       Goto, TypePump
  <2> QED BY <1>0, <2>1, Kept DEF TypeInv
<1>2. CASE Recover
  <2>1. PICK d \in deliveries :
           RecoverAdmitted(d) \/ RecoverTerminal(d) \/ RecoverCancelled(d)
    BY <1>2 DEF Recover
  <2>2. UNCHANGED runVars
    BY <1>2 DEF Recover
  <2>3. pump' \in TypePump
    BY <2>1, PumpFacts DEF TypeInv, RecoverAdmitted, RecoverTerminal,
       RecoverCancelled, Settle, Write, Goto
  <2>4. Terminal(d.id) \in Settled /\ "Cancelled" \in Settled
    BY DEF TypeInv, RunType, Terminal, Receipt, Settled, Results
  <2>5. {Nothing} \in SUBSET Consumption /\ {} \in SUBSET Consumption
    BY DEF Nothing, Consumption
  <2>6. DocType(rules, deliveries)' /\ (fault \in BOOLEAN)'
    <3>1. CASE RecoverAdmitted(d)
      BY <1>0, <3>1, Rephasing DEF RecoverAdmitted
    <3>2. CASE RecoverTerminal(d)
      BY <1>0, <2>4, <2>5, <3>2, Settling DEF RecoverTerminal
    <3>3. CASE RecoverCancelled(d)
      BY <1>0, <2>4, <2>5, <3>3, Settling DEF RecoverCancelled
    <3> QED BY <2>1, <3>1, <3>2, <3>3
  <2> QED BY <1>0, <2>2, <2>3, <2>6, Kept DEF TypeInv
<1>3. CASE ClaimPending
  <2>1. PICK d \in deliveries : Goto([pc |-> "start", id |-> d.id])
    BY <1>3 DEF ClaimPending
  <2>2. d.id \in Ids
    BY DEF TypeInv, DocType, TypeDelivery
  <2>3. pump' \in TypePump
    BY <2>1, <2>2, PumpFacts DEF Goto
  <2> QED BY <1>0, <1>3, <2>3, Kept DEF TypeInv, ClaimPending
<1>4. CASE ReserveDue
  <2>1. PICK r \in Candidates :
           ReserveDelivery(r, Advanced(rules[r], Occurrence(r)), Occurrence(r),
               Goto([pc |-> "start",
                     id |-> Id(r, rules[r].spec, Occurrence(r))]),
               Goto(Idle))
    BY <1>4, Zenon DEF ReserveDue
  <2>2. /\ DocType(rules, deliveries)' /\ (fault \in BOOLEAN)'
        /\ Id(r, Advanced(rules[r], Occurrence(r)).spec, Occurrence(r)) \in Ids
    BY <1>0, <2>1, CandidateFacts, Reserving
  <2>3. Id(r, rules[r].spec, Occurrence(r)) \in Ids
    BY <2>2, CandidateFacts
  <2>4. \/ pump' = [pc |-> "start", id |-> Id(r, rules[r].spec, Occurrence(r))]
        \/ pump' = Idle
    BY <2>1, Zenon DEF ReserveDelivery, Write, Goto
  <2>5. pump' \in TypePump
    BY <2>3, <2>4, PumpFacts
  <2> QED BY <1>0, <1>4, <2>2, <2>5, Kept DEF TypeInv, ReserveDue
<1>5. CASE Admit
  <2>1. pump.id \in Ids
    BY <1>5, PumpFacts DEF Admit, At
  <2>2. pump' \in TypePump
    BY <1>5, <2>1, PumpFacts DEF Admit, Goto
  <2>3. RunType'
    <3>1. journal' = Commit(pump.id) /\ ran' = Append(ran, pump.id)
          /\ worker' = [pc |-> "running", id |-> pump.id] /\ spent' = spent
      BY <1>5 DEF Admit
    <3>2. /\ DOMAIN journal' \subseteq Ids
          /\ \A i \in DOMAIN journal' : journal'[i] \in Results \cup {"open"}
      BY <2>1, <3>1 DEF Commit, TypeInv, RunType
    <3>3. worker' \in TypeWorker
      BY <2>1, <3>1 DEF TypeWorker
    <3>4. ran' \in Seq(Ids) /\ spent' \in [Rules -> Nat]
      BY <2>1, <3>1 DEF TypeInv, RunType
    <3> QED BY <3>2, <3>3, <3>4 DEF RunType, TypeWorker, TypeReport
  <2> QED BY <1>0, <1>5, <2>2, <2>3, Kept DEF TypeInv, Admit
<1>6. CASE StartRefused \/ StartFails
  <2>1. pump.id \in Ids
    BY <1>6, PumpFacts DEF StartRefused, StartFails, At
  <2>2. /\ \E known \in BOOLEAN :
              pump' = Report("refused", pump.id, "Failed", known, {})
        /\ journal' = journal \/ journal' = Commit(pump.id)
        /\ UNCHANGED <<docVars, worker, ran, spent>>
    BY <1>6 DEF StartRefused, StartFails, Goto, runVars
  <2>3. pump' \in TypePump
    BY <2>1, <2>2 DEF Report, TypePump, TypeReport, Results
  <2>4. /\ DOMAIN journal' \subseteq Ids
        /\ \A i \in DOMAIN journal' : journal'[i] \in Results \cup {"open"}
    BY <2>1, <2>2 DEF Commit, TypeInv, RunType
  <2>5. RunType'
    BY <2>2, <2>4 DEF TypeInv, RunType, TypeWorker, TypeReport
  <2> QED BY <1>0, <2>2, <2>3, <2>5, Kept DEF TypeInv
<1>7. CASE Publish
  <2>1. PICK d \in deliveries :
           Write(rules, Rephase(d, "Admitted"),
                 Goto([pc |-> "running"]), Goto([pc |-> "running"]))
    BY <1>7 DEF Publish
  <2>2. DocType(rules, deliveries)' /\ (fault \in BOOLEAN)'
    BY <1>0, <2>1, Rephasing
  <2>3. pump' \in TypePump
    BY <2>1, PumpFacts DEF Write, Goto
  <2> QED BY <1>0, <1>7, <2>2, <2>3, Kept DEF TypeInv, Publish
<1>8. CASE RunEnds
  <2> DEFINE i == worker.id
  <2>1. i \in Ids /\ i.rule \in Rules /\ i.spec \in Specs
    BY <1>8, PumpFacts DEF RunEnds, Ids
  <2>2. PICK phase \in Results, tokens \in Spends, metered \in BOOLEAN :
        \E report \in {<<phase, TRUE>>, <<"Failed", TRUE>>, <<"Failed", FALSE>>} :
           /\ spent' = [spent EXCEPT ![i.rule] = @ + tokens]
           /\ journal' = [journal EXCEPT ![i] = phase] \/ journal' = journal
           /\ worker' = Report("ended", i, report[1], report[2],
                               IF metered THEN {[runs |-> 1, tokens |-> tokens]}
                               ELSE {})
    BY <1>8, Zenon DEF RunEnds
  <2>3. tokens \in Nat
    BY <2>1, SpecFacts
  <2>4. spent' \in [Rules -> Nat]
    BY <2>1, <2>2, <2>3 DEF TypeInv, RunType
  <2>5. /\ DOMAIN journal' \subseteq Ids
        /\ \A x \in DOMAIN journal' : journal'[x] \in Results \cup {"open"}
    BY <2>2 DEF TypeInv, RunType
  <2>6. worker' \in TypeWorker
    <3>1. (IF metered THEN {[runs |-> 1, tokens |-> tokens]} ELSE {})
              \in SUBSET Consumption
      BY <2>3 DEF Consumption
    <3> DEFINE m == IF metered THEN {[runs |-> 1, tokens |-> tokens]} ELSE {}
               reports == {<<phase, TRUE>>, <<"Failed", TRUE>>, <<"Failed", FALSE>>}
    <3>2. PICK report \in reports :
             worker' = Report("ended", i, report[1], report[2], m)
      BY <2>2
    <3>3. report[1] \in Results /\ report[2] \in BOOLEAN
      <4>1. CASE report = <<phase, TRUE>>
        BY <4>1
      <4>2. CASE report = <<"Failed", TRUE>>
        BY <4>2 DEF Results
      <4>3. CASE report = <<"Failed", FALSE>>
        BY <4>3 DEF Results
      <4> QED BY <4>1, <4>2, <4>3
    <3>4. Report("ended", i, report[1], report[2], m) \in TypeReport({"ended"})
      BY <2>1, <3>1, <3>3 DEF Report, TypeReport
    <3> QED BY <3>2, <3>4 DEF TypeWorker
  <2>7. UNCHANGED <<docVars, pump, ran>>
    BY <1>8 DEF RunEnds
  <2>8. RunType'
    BY <2>4, <2>5, <2>6, <2>7 DEF TypeInv, RunType, TypeWorker, TypeReport
  <2> QED BY <1>0, <2>7, <2>8, Kept DEF TypeInv
<1>9. CASE Collect
  <2>1. pump' = worker /\ worker' = NoRun
        /\ UNCHANGED <<docVars, journal, ran, spent>>
    BY <1>9 DEF Collect, Goto
  <2>2. pump' \in TypePump
    BY <1>9, <2>1, PumpFacts DEF Collect, TypePump, TypeReport
  <2>3. RunType'
    BY <2>1 DEF TypeInv, RunType, TypeWorker
  <2> QED BY <1>0, <2>1, <2>2, <2>3, Kept DEF TypeInv
<1>10. CASE FinishAdmitted
  <2>1. PICK d \in deliveries :
           Write(rules, Rephase(d, "Admitted"),
                 Goto([pump EXCEPT !.pc = "settle", !.receipt = FALSE]),
                 Goto(Idle))
    BY <1>10 DEF FinishAdmitted
  <2>2. DocType(rules, deliveries)' /\ (fault \in BOOLEAN)'
    BY <1>0, <2>1, Rephasing
  <2>3. [pump EXCEPT !.pc = "settle", !.receipt = FALSE] \in TypePump
    BY <1>10, PumpFacts DEF FinishAdmitted, TypePump, TypeReport
  <2>4. pump' \in TypePump
    BY <2>1, <2>3, PumpFacts DEF Write, Goto
  <2> QED BY <1>0, <1>10, <2>2, <2>4, Kept DEF TypeInv, FinishAdmitted
<1>11. CASE FinishSettle
  <2>1. PICK d \in deliveries :
           Settle(d, pump.phase, pump.actual, Goto(Idle), Goto(Idle))
    BY <1>11 DEF FinishSettle
  <2>2. pump.phase \in Settled /\ pump.actual \in SUBSET Consumption
    BY <1>11, PumpFacts DEF FinishSettle, Settled
  <2>3. DocType(rules, deliveries)' /\ (fault \in BOOLEAN)'
    BY <1>0, <2>1, <2>2, Settling
  <2>4. pump' \in TypePump
    BY <2>1, PumpFacts DEF Settle, Write, Goto
  <2> QED BY <1>0, <1>11, <2>3, <2>4, Kept DEF TypeInv, FinishSettle
<1> QED BY <1>1, <1>2, <1>3, <1>4, <1>5, <1>6, <1>7, <1>8, <1>9, <1>10, <1>11
       DEF Pump, Start, Finish

(* The clock, jobs, crashes and restarts keep the types. *)
LEMMA WorldTypes == TypeInv /\ World => TypeInv'
<1> SUFFICES ASSUME TypeInv, World PROVE TypeInv'
  OBVIOUS
<1>0. /\ UNCHANGED <<rules, deliveries, born>> /\ DocType(rules, deliveries)'
      /\ UserType'
  <2>1. UNCHANGED <<rules, deliveries>> /\ UNCHANGED userVars
    BY DEF World, Crash, Advance, Rollback, JobEnds, docVars
  <2> QED BY <2>1, Kept DEF TypeInv, DocType, userVars
<1>1. CASE Crash
  <2>1. spent' \in [Rules -> Nat]
    <3>1. CASE worker.pc = "running"
      <4>1. PICK t \in Spends : spent' = [spent EXCEPT ![worker.id.rule] = @ + t]
        BY <1>1, <3>1 DEF Crash
      <4>2. worker.id.rule \in Rules /\ worker.id.spec \in Specs
        BY <3>1, PumpFacts DEF Ids
      <4>3. t \in Nat
        BY <4>2, SpecFacts
      <4> QED BY <4>1, <4>2, <4>3 DEF TypeInv, RunType
    <3>2. CASE worker.pc # "running"
      BY <1>1, <3>2 DEF Crash, TypeInv, RunType
    <3> QED BY <3>1, <3>2
  <2>2. RunType'
    BY <1>1, <2>1 DEF Crash, TypeInv, RunType, TypeWorker
  <2>3. WorldType' /\ pump' \in TypePump /\ fault' \in BOOLEAN
    BY <1>1, Kept, PumpFacts DEF Crash
  <2> QED BY <1>0, <2>2, <2>3 DEF TypeInv
<1>2. CASE Advance \/ Rollback \/ JobEnds
  <2>1. UNCHANGED <<docVars, pump, runVars>>
    BY <1>2 DEF Advance, Rollback, JobEnds
  <2>2. MaxTime \in Nat
    BY BoundAssumption
  <2>3. WorldType'
    <3>1. now' \in 0 .. MaxTime
      BY <1>2, <2>2 DEF Advance, Rollback, JobEnds, TypeInv, WorldType
    <3>2. jobDone' \in BOOLEAN
      BY <1>2 DEF Advance, Rollback, JobEnds, TypeInv, WorldType
    <3> QED BY <3>1, <3>2 DEF WorldType
  <2> QED BY <1>0, <2>1, <2>3, Kept DEF TypeInv
<1> QED BY <1>1, <1>2 DEF World

(* The initial state is typed. *)
LEMMA TypeInit == Init => TypeInv
<1> SUFFICES ASSUME Init PROVE TypeInv
  OBVIOUS
<1>1. WorldType
  <2>1. MaxTime \in Nat
    BY BoundAssumption
  <2>2. now \in 0 .. MaxTime
    BY <2>1 DEF Init
  <2> QED BY <2>2 DEF Init, WorldType
<1>2. UserType
  BY FS_EmptySet DEF Init, UserType
<1>3. RunType
  BY DEF Init, RunType, TypeWorker
<1>4. fault \in BOOLEAN /\ pump \in TypePump
  BY DEF Init, TypePump, Idle
<1>5. DocType(rules, deliveries)
  BY DEF Init, DocType
<1> QED BY <1>1, <1>2, <1>3, <1>4, <1>5 DEF TypeInv

(* Every step keeps the types. *)
LEMMA TypeStep == TypeInv /\ [Next]_vars => TypeInv'
<1>1. TypeInv /\ UNCHANGED vars => TypeInv'
  BY Kept DEF vars, TypeInv, docVars, userVars
<1> QED BY <1>1, UserTypes, PumpTypes, WorldTypes DEF Next

(* The document, the pump, the worker and the journal stay well typed; in  *)
(* particular giving reservations back never takes a budget below zero.    *)
THEOREM TypeCorrect == Spec => []TypeOK
<1>1. TypeInv => TypeOK
  BY DEF TypeInv, TypeOK, DocType, WorldType, RunType, UserType
<1> QED BY <1>1, TypeInit, TypeStep, PTL DEF Spec

-----------------------------------------------------------------------------
(* Consent *)

(* Every rule still has its specification, its authorization, and, where   *)
(* phases is TRUE, its phase.                                              *)
TermsKept(phases) ==
    /\ DOMAIN rules' = DOMAIN rules
    /\ \A r \in DOMAIN rules :
          /\ rules'[r].spec = rules[r].spec /\ rules'[r].auth = rules[r].auth
          /\ phases => rules'[r].phase = rules[r].phase

(* A reservation changes no terms of any rule. *)
LEMMA ReservingKeepsTerms ==
    ASSUME TypeInv, NEW r \in DOMAIN rules, NEW q \in TypeRule, NEW occ,
           q.spec = rules[r].spec, q.auth = rules[r].auth,
           q.phase = rules[r].phase, NEW ACTION ok, NEW ACTION failed,
           ReserveDelivery(r, q, occ, ok, failed)
    PROVE  TermsKept(TRUE)
<1> DEFINE p == [q EXCEPT !.used = Plus(q.used, Reservation(q.spec))]
<1>1. rules' = rules \/ rules' = Put(r, p)
  BY Zenon DEF ReserveDelivery, Write
<1>2. p.spec = q.spec /\ p.auth = q.auth /\ p.phase = q.phase
  BY DEF TypeRule
<1> HIDE DEF p
<1> QED BY <1>1, <1>2 DEF TermsKept, Put

(* A settlement changes no terms but may close its rule. *)
LEMMA SettlingKeepsTerms ==
    ASSUME TypeInv, NEW d \in deliveries, NEW phase, NEW actual,
           NEW ACTION ok, NEW ACTION failed,
           Settle(d, phase, actual, ok, failed)
    PROVE  TermsKept(FALSE)
<1> DEFINE r == d.id.rule
           c == IF actual = {} THEN rules[r].used
                ELSE Reconcile(rules[r].used, Reservation(d.id.spec),
                               CHOOSE a \in actual : TRUE)
           p == [rules[r] EXCEPT !.used = c]
           q == IF CanReserve(p) THEN p ELSE [p EXCEPT !.phase = "Exhausted"]
<1>1. rules' = rules \/ (r \in DOMAIN rules /\ rules' = Put(r, q))
  BY Zenon DEF Settle, Write
<1>2. ASSUME r \in DOMAIN rules
      PROVE  q.spec = rules[r].spec /\ q.auth = rules[r].auth
  <2>1. rules[r] \in TypeRule
    BY <1>2, RuleOf
  <2>2. /\ p.spec = rules[r].spec /\ p.auth = rules[r].auth
        /\ [p EXCEPT !.phase = "Exhausted"].spec = rules[r].spec
        /\ [p EXCEPT !.phase = "Exhausted"].auth = rules[r].auth
    BY <2>1 DEF TypeRule
  <2> HIDE DEF p
  <2> QED BY <2>2
<1> HIDE DEF q
<1> QED BY <1>1, <1>2 DEF TermsKept, Put

(* Advancing a served rule changes no terms of it. *)
LEMMA CandidateTerms ==
    ASSUME TypeInv, NEW r \in Candidates
    PROVE  LET q == Advanced(rules[r], Occurrence(r))
           IN  /\ q.spec = rules[r].spec /\ q.auth = rules[r].auth
               /\ q.phase = rules[r].phase
<1>1. rules[r] \in TypeRule
  BY CandidateFacts, RuleOf
<1> QED BY <1>1 DEF Advanced, TypeRule

(* The pump changes the terms of no rule; only settlements close one. *)
LEMMA PumpKeepsTerms ==
    ASSUME TypeInv, Pump
    PROVE  /\ TermsKept(FALSE)
           /\ ~Recover /\ ~FinishSettle => TermsKept(TRUE)
<1>1. CASE UNCHANGED rules
  BY <1>1 DEF TermsKept
<1>2. CASE Recover
  <2>1. PICK d \in deliveries :
           RecoverAdmitted(d) \/ RecoverTerminal(d) \/ RecoverCancelled(d)
    BY <1>2 DEF Recover
  <2>2. CASE RecoverAdmitted(d)
    BY <1>1, <2>2 DEF RecoverAdmitted, Write
  <2>3. CASE RecoverTerminal(d) \/ RecoverCancelled(d)
    BY <1>2, <2>3, SettlingKeepsTerms DEF RecoverTerminal, RecoverCancelled
  <2> QED BY <1>2, <2>1, <2>2, <2>3
<1>3. CASE FinishSettle
  <2>1. PICK d \in deliveries :
           Settle(d, pump.phase, pump.actual, Goto(Idle), Goto(Idle))
    BY <1>3 DEF FinishSettle
  <2> QED BY <1>3, <2>1, SettlingKeepsTerms
<1>4. CASE ReserveDue
  <2>1. PICK r \in Candidates :
           ReserveDelivery(r, Advanced(rules[r], Occurrence(r)), Occurrence(r),
               Goto([pc |-> "start",
                     id |-> Id(r, rules[r].spec, Occurrence(r))]),
               Goto(Idle))
    BY <1>4, Zenon DEF ReserveDue
  <2>2. TermsKept(TRUE)
    BY <2>1, CandidateFacts, CandidateTerms, ReservingKeepsTerms
  <2> QED BY <2>2 DEF TermsKept
<1>5. CASE Publish \/ FinishAdmitted
  BY <1>1, <1>5 DEF Publish, FinishAdmitted, Write
<1>6. CASE Tick \/ ClaimPending \/ ReserveRefused \/ Yield \/ SlotTaken \/ Start
           \/ RunEnds \/ Collect \/ FinishFaulted
  BY <1>1, <1>6 DEF Tick, ClaimPending, ReserveRefused, Yield, SlotTaken, Start,
     Admit, StartRefused, StartFails, RunEnds, Collect, FinishFaulted, docVars
<1> QED BY <1>1, <1>2, <1>3, <1>4, <1>5, <1>6 DEF Pump, Finish

(* What is authorized was granted, and what the pump is about to start is  *)
(* authorized: the application lock keeps the user out from the moment the *)
(* reservation is claimed.                                                 *)
Claimed(i) ==
    /\ Enabled(i.rule) /\ AuthorizationValid(rules[i.rule])
    /\ rules[i.rule].spec = i.spec
ConsentInv ==
    /\ TypeInv
    /\ \A r \in DOMAIN rules : \A s \in rules[r].auth : <<r, s>> \in grants
    /\ At("start") => Claimed(pump.id)

(* Every command of the user keeps ConsentInv. *)
LEMMA ConsentOfUser == ConsentInv /\ User => ConsentInv'
<1> SUFFICES ASSUME ConsentInv, User PROVE ConsentInv'
  OBVIOUS
<1>0. TypeInv /\ TypeInv'
  BY UserTypes DEF ConsentInv
<1>1. ~At("start")'
  BY DEF User, Create, Edit, Review, Pause, Resume, Delete, Confirm, RunNow,
     Reload, Command, Unlocked, At
<1>2. ASSUME NEW r, NEW q, Command(r, q), grants \subseteq grants',
             \A s \in q.auth : <<r, s>> \in grants'
      PROVE  ConsentInv'
  <2>1. rules' = rules \/ rules' = Put(r, q)
    BY <1>2, Zenon DEF Command, Write
  <2> QED BY <1>0, <1>1, <1>2, <2>1 DEF ConsentInv, Put
<1>3. ASSUME NEW r \in Rules, NEW s \in Specs, Create(r, s) PROVE ConsentInv'
  BY <1>2, <1>3 DEF Create
<1>4. ASSUME NEW r \in Rules, NEW s \in Specs, Edit(r, s) PROVE ConsentInv'
  <2> DEFINE q == [rules[r] EXCEPT !.spec = s, !.rev = @ + 1, !.auth = {},
                   !.review = {}, !.phase = "Draft", !.next = {}]
  <2>1. r \in DOMAIN rules /\ Command(r, q) /\ grants' = grants
    BY <1>4 DEF Edit, Revise, userVars
  <2>2. q.auth = {}
    BY <1>0, <2>1, RuleOf DEF TypeRule
  <2> HIDE DEF q
  <2> QED BY <1>2, <2>1, <2>2
<1>5. ASSUME NEW r \in Rules, Review(r) \/ Pause(r) \/ Resume(r)
      PROVE  ConsentInv'
  <2>1. PICK q : /\ r \in DOMAIN rules /\ Command(r, q) /\ grants' = grants
                 /\ q.auth = rules[r].auth
    <3>1. CASE Review(r)
      <4> DEFINE w == [rule |-> r,
                       nonce |-> Cardinality({v \in issued : v.rule = r}),
                       rev |-> rules[r].rev, spec |-> rules[r].spec]
      <4>1. /\ r \in DOMAIN rules /\ grants' = grants
            /\ Command(r, [rules[r] EXCEPT !.review = {w}])
        BY <3>1 DEF Review, Revise
      <4> HIDE DEF w
      <4>2. [rules[r] EXCEPT !.review = {w}].auth = rules[r].auth
        BY <1>0, <4>1, RuleOf DEF TypeRule
      <4> QED BY <4>1, <4>2
    <3>2. CASE Pause(r)
      <4> DEFINE q == [rules[r] EXCEPT !.rev = @ + 1, !.phase = "Paused",
                                       !.review = {}]
      <4>1. r \in DOMAIN rules /\ grants' = grants /\ Command(r, q)
        BY <3>2 DEF Pause, Revise, userVars
      <4>2. q.auth = rules[r].auth
        BY <1>0, <4>1, RuleOf DEF TypeRule
      <4> QED BY <4>1, <4>2
    <3>3. CASE Resume(r)
      <4> DEFINE q == [rules[r] EXCEPT !.rev = @ + 1, !.phase = "Enabled"]
      <4>1. r \in DOMAIN rules /\ grants' = grants /\ Command(r, q)
        BY <3>3 DEF Resume, Revise, userVars
      <4>2. q.auth = rules[r].auth
        BY <1>0, <4>1, RuleOf DEF TypeRule
      <4> QED BY <4>1, <4>2
    <3> QED BY <1>5, <3>1, <3>2, <3>3
  <2>2. \A s \in q.auth : <<r, s>> \in grants'
    BY <2>1 DEF ConsentInv
  <2> QED BY <1>2, <2>1, <2>2
<1>6. ASSUME NEW r \in Rules, Delete(r) PROVE ConsentInv'
  <2>1. /\ grants' = grants
        /\ rules' = rules \/ rules' = [x \in DOMAIN rules \ {r} |-> rules[x]]
    BY <1>6 DEF Delete, Write, userVars
  <2> QED BY <1>0, <1>1, <2>1 DEF ConsentInv
<1>7. ASSUME NEW v \in issued, Confirm(v) PROVE ConsentInv'
  <2> DEFINE r == v.rule
             n == IF rules[r].spec.kind = "job" THEN rules[r].next
                  ELSE First(rules[r].spec, now)
             q == [rules[r] EXCEPT !.rev = @ + 1, !.auth = {rules[r].spec},
                       !.review = {}, !.phase = "Enabled", !.last = {},
                       !.next = n]
  <2>1. /\ r \in DOMAIN rules /\ Command(r, q) /\ Reviewed(rules[r], v)
        /\ grants' = grants \cup {<<r, v.spec>>}
    BY <1>7, Zenon DEF Confirm, Revise
  <2>2. v.spec = rules[r].spec
    BY <2>1 DEF Reviewed
  <2>3. q.auth = {rules[r].spec}
    <3> HIDE DEF n
    <3> QED BY <1>0, <2>1, RuleOf DEF TypeRule
  <2> HIDE DEF q
  <2>4. \A s \in q.auth : <<r, s>> \in grants'
    BY <2>1, <2>2, <2>3
  <2> QED BY <1>2, <2>1, <2>4
<1>8. ASSUME NEW r \in Rules, NEW o \in Requests, RunNow(r, o)
      PROVE  ConsentInv'
  <2>1. r \in DOMAIN rules /\ ReserveDelivery(r, rules[r], o, TRUE, TRUE)
        /\ grants' = grants
    BY <1>8 DEF RunNow, Enabled, userVars
  <2>2. TermsKept(TRUE)
    BY <1>0, <2>1, RuleOf, ReservingKeepsTerms
  <2> QED BY <1>0, <1>1, <2>1, <2>2 DEF ConsentInv, TermsKept
<1>9. CASE Reload
  BY <1>0, <1>1, <1>9 DEF Reload, ConsentInv, userVars
<1> QED BY <1>3, <1>4, <1>5, <1>6, <1>7, <1>8, <1>9 DEF User

(* Every step of the pump keeps ConsentInv. *)
LEMMA ConsentOfPump == ConsentInv /\ Pump => ConsentInv'
<1> SUFFICES ASSUME ConsentInv, Pump PROVE ConsentInv'
  OBVIOUS
<1>1. TypeInv /\ TypeInv' /\ grants' = grants
  <2>1. PumpOnly
    BY DEF Pump, Tick, Recover, ClaimPending, ReserveDue, ReserveRefused, Yield,
       SlotTaken, Start, Admit, StartRefused, StartFails, Publish, RunEnds,
       Collect, Finish, FinishAdmitted, FinishSettle, FinishFaulted
  <2> QED BY <2>1, PumpTypes DEF PumpOnly, userVars, ConsentInv
<1>2. \A r \in DOMAIN rules' : \A s \in rules'[r].auth : <<r, s>> \in grants'
  BY <1>1, PumpKeepsTerms DEF TermsKept, ConsentInv
<1>3. CASE ClaimPending
  <2>1. PICK d \in deliveries : Pending(d) /\ pump' = [pc |-> "start", id |-> d.id]
    BY <1>3 DEF ClaimPending, Goto
  <2>2. Claimed(d.id) /\ rules' = rules
    BY <1>3, <2>1 DEF ClaimPending, Pending, Claimed, docVars
  <2> QED BY <1>1, <1>2, <2>1, <2>2
          DEF ConsentInv, Claimed, Enabled, AuthorizationValid
<1>4. CASE ReserveDue
  <2>1. PICK r \in Candidates :
           /\ AuthorizationValid(rules[r])
           /\ ReserveDelivery(r, Advanced(rules[r], Occurrence(r)), Occurrence(r),
               Goto([pc |-> "start",
                     id |-> Id(r, rules[r].spec, Occurrence(r))]),
               Goto(Idle))
    BY <1>4, Zenon DEF ReserveDue
  <2>2. \/ pump' = [pc |-> "start", id |-> Id(r, rules[r].spec, Occurrence(r))]
        \/ pump' = Idle
    BY <2>1, Zenon DEF ReserveDelivery, Write, Goto
  <2>3. TermsKept(TRUE)
    BY <1>1, <2>1, CandidateFacts, CandidateTerms, ReservingKeepsTerms
  <2>4. At("start")' => Claimed(pump.id)'
    BY <1>1, <2>1, <2>2, <2>3, CandidateFacts
       DEF TermsKept, Claimed, Enabled, AuthorizationValid, At, Idle, Id
  <2> QED BY <1>1, <1>2, <2>4 DEF ConsentInv
<1>5. CASE RunEnds
  <2>1. pump' = pump /\ rules' = rules
    BY <1>5 DEF RunEnds, docVars
  <2> QED BY <1>1, <1>2, <2>1
          DEF ConsentInv, Claimed, Enabled, AuthorizationValid, At
<1>6. CASE Recover
  <2>1. pump' \in {pump, Idle} /\ pump.pc = "tick"
    BY <1>6 DEF Recover, RecoverAdmitted, RecoverTerminal, RecoverCancelled,
       Settle, Write, Goto, At
  <2> QED BY <1>1, <1>2, <2>1 DEF ConsentInv, At, Idle
<1>7. CASE Tick \/ ReserveRefused \/ Yield \/ SlotTaken \/ Start \/ Publish
           \/ Collect \/ FinishSettle \/ FinishFaulted
  <2>1. ~At("start")'
    <3>1. CASE Tick \/ ReserveRefused \/ Yield \/ SlotTaken \/ FinishFaulted
      BY <3>1 DEF Tick, ReserveRefused, Yield, SlotTaken, FinishFaulted, Goto,
         At, Idle
    <3>2. CASE Start
      BY <3>2 DEF Start, Admit, StartRefused, StartFails, Goto, At, Report
    <3>3. CASE Publish
      BY <3>3 DEF Publish, Write, Goto, At
    <3>4. CASE Collect
      BY <3>4 DEF Collect, Goto, At
    <3>5. CASE FinishSettle
      <4>1. pump' = Idle
        BY <3>5, Zenon DEF FinishSettle, Settle, Write, Goto
      <4> QED BY <4>1 DEF At, Idle
    <3> QED BY <1>7, <3>1, <3>2, <3>3, <3>4, <3>5
  <2> QED BY <1>1, <1>2, <2>1 DEF ConsentInv
<1>8. CASE FinishAdmitted
  <2> DEFINE p == [pump EXCEPT !.pc = "settle", !.receipt = FALSE]
  <2>1. pump' = p \/ pump' = Idle
    BY <1>8 DEF FinishAdmitted, Write, Goto
  <2>2. pump \in TypeReport({"ended", "refused", "settle"})
    BY <1>1, <1>8, PumpFacts DEF FinishAdmitted
  <2>3. p.pc = "settle"
    BY <2>2 DEF TypeReport
  <2> HIDE DEF p
  <2>4. pump'.pc \in {"settle", "idle"}
    BY <2>1, <2>3 DEF Idle
  <2>5. ~At("start")'
    BY <2>4 DEF At
  <2> QED BY <1>1, <1>2, <2>5 DEF ConsentInv
<1> QED BY <1>3, <1>4, <1>5, <1>6, <1>7, <1>8 DEF Pump, Finish

(* Every step keeps ConsentInv. *)
LEMMA ConsentStep == ConsentInv /\ [Next]_vars => ConsentInv'
<1> SUFFICES ASSUME ConsentInv, [Next]_vars PROVE ConsentInv'
  OBVIOUS
<1>1. TypeInv'
  BY TypeStep DEF ConsentInv
<1>2. CASE World
  <2>1. rules' = rules /\ grants' = grants /\ pump' \in {pump, Idle}
    BY <1>2 DEF World, Crash, Advance, Rollback, JobEnds, docVars, userVars
  <2> QED BY <1>1, <2>1
          DEF ConsentInv, Claimed, Enabled, AuthorizationValid, At, Idle
<1>3. CASE UNCHANGED vars
  BY <1>1, <1>3 DEF vars, docVars, userVars, ConsentInv, Claimed, Enabled,
     AuthorizationValid, At
<1> QED BY <1>2, <1>3, ConsentOfUser, ConsentOfPump DEF Next

(* No authorization exists to begin with. *)
LEMMA ConsentInit == Init => ConsentInv
BY TypeInit DEF Init, ConsentInv, At, Idle

(* An execution begins only for an enabled rule, for the specification it  *)
(* has at that moment, and only if the user confirmed a review that showed *)
(* it, whatever was edited, paused, deleted or reserved in between.        *)
THEOREM OnlyConfirmedRuns == Spec => RunsAsConfirmed
<1>1. ConsentInv /\ [Next]_vars
      => [Begins => /\ Enabled(Begun.rule)
                    /\ rules[Begun.rule].spec = Begun.spec
                    /\ <<Begun.rule, Begun.spec>> \in grants]_vars
  <2> SUFFICES ASSUME ConsentInv, [Next]_vars, Begins
               PROVE  /\ Enabled(Begun.rule)
                      /\ rules[Begun.rule].spec = Begun.spec
                      /\ <<Begun.rule, Begun.spec>> \in grants
    OBVIOUS
  <2>1. Admit
    BY JournalGrows DEF Begins
  <2>2. Claimed(pump.id)
    BY <2>1 DEF Admit, ConsentInv
  <2>3. Begun = pump.id
    BY <2>1 DEF Admit, Begun, ConsentInv, TypeInv, RunType
  <2> QED BY <2>2, <2>3 DEF Claimed, Enabled, AuthorizationValid, ConsentInv
<1> QED BY <1>1, ConsentInit, ConsentStep, PTL DEF Spec, RunsAsConfirmed

-----------------------------------------------------------------------------
(* Reservations *)

(* Identities are never reused, a delivery has one record, and what the    *)
(* pump or its worker is busy with is an unsettled delivery.               *)
Held(i) == \E d \in deliveries : d.id = i /\ d.phase \in Active
PumpHolds ==
    /\ pump.pc \in {"start", "publish", "ended", "refused", "settle"}
          => Held(pump.id)
    /\ worker.pc # "none" => Held(worker.id) /\ pump.pc \in {"publish", "running"}
Records ==
    /\ \A d \in deliveries : d.id.rule \in born
    /\ \A d, e \in deliveries : d.id = e.id => d = e
FrozenInv == TypeInv /\ Records /\ ReservationFrozen /\ PumpHolds

(* The rules change, but not the specification of one that is reserved.    *)
LEMMA RulesChange ==
    ASSUME FrozenInv, deliveries' = deliveries, born \subseteq born',
           \A r \in DOMAIN rules' : Unsettled(r) =>
               r \in DOMAIN rules /\ rules'[r].spec = rules[r].spec
    PROVE  Records' /\ ReservationFrozen' /\ \A i : Held(i) => Held(i)'
BY DEF FrozenInv, Records, ReservationFrozen, Unsettled, Held

(* Admitting a delivery keeps the reservations frozen. *)
LEMMA RephasingFrozen ==
    ASSUME FrozenInv, NEW d \in deliveries, d.phase \in Active, born' = born,
           rules' = rules,
           deliveries' = deliveries \/ deliveries' = Rephase(d, "Admitted")
    PROVE  Records' /\ ReservationFrozen' /\ \A i : Held(i) => Held(i)'
<1> DEFINE e == [d EXCEPT !.phase = "Admitted"]
<1>1. /\ rules' = rules
      /\ deliveries' = deliveries \/ deliveries' = (deliveries \ {d}) \cup {e}
  BY DEF Rephase
<1>2. d \in TypeDelivery
  BY DEF FrozenInv, TypeInv, DocType
<1>3. e.id = d.id /\ e.phase \in Active
  BY <1>2 DEF TypeDelivery, Active
<1> HIDE DEF e
<1>4. CASE deliveries' = deliveries
  BY <1>1, <1>4, RulesChange DEF TermsKept
<1>5. CASE deliveries' = (deliveries \ {d}) \cup {e}
  <2>1. Records'
    BY <1>3, <1>5 DEF FrozenInv, Records
  <2>2. \A i : Held(i) => Held(i)'
    BY <1>3, <1>5 DEF Held
  <2>3. ReservationFrozen'
    BY <1>1, <1>3, <1>5 DEF FrozenInv, ReservationFrozen
  <2> QED BY <2>1, <2>2, <2>3
<1> QED BY <1>1, <1>4, <1>5

(* Settling a delivery keeps the others frozen. *)
LEMMA SettlingFrozen ==
    ASSUME FrozenInv, NEW d \in deliveries, born' = born,
           NEW phase \in Settled, NEW actual, NEW ACTION ok, NEW ACTION failed,
           Settle(d, phase, actual, ok, failed)
    PROVE  Records' /\ ReservationFrozen'
<1> DEFINE e == [d EXCEPT !.phase = phase, !.finished = now]
<1>1. deliveries' = deliveries \/ deliveries' = (deliveries \ {d}) \cup {e}
  BY Zenon DEF Settle, Write
<1>2. d \in TypeDelivery /\ TypeInv
  BY DEF FrozenInv, TypeInv, DocType
<1>3. e.id = d.id /\ e.phase \notin Active
  BY <1>2 DEF TypeDelivery, Active, Settled, Results
<1>4. TermsKept(FALSE)
  BY <1>2, SettlingKeepsTerms
<1> HIDE DEF e
<1>5. Records'
  BY <1>1, <1>3 DEF FrozenInv, Records
<1>6. ReservationFrozen'
  BY <1>1, <1>3, <1>4 DEF FrozenInv, ReservationFrozen, TermsKept
<1> QED BY <1>5, <1>6

(* A reservation is made only where no other is open. *)
LEMMA ReservingFrozen ==
    ASSUME FrozenInv, NEW r \in DOMAIN rules, NEW q \in TypeRule, NEW occ,
           q.spec = rules[r].spec, q.auth = rules[r].auth,
           q.phase = rules[r].phase, NEW ACTION ok, NEW ACTION failed,
           ReserveDelivery(r, q, occ, ok, failed), born' = born
    PROVE  /\ Records' /\ ReservationFrozen' /\ \A i : Held(i) => Held(i)'
           /\ failed \/ Held(Id(r, q.spec, occ))'
<1> DEFINE d == [id |-> Id(r, q.spec, occ), phase |-> "Reserved", finished |-> 0]
<1>1. PICK kept \in Trimmed :
         \/ deliveries' = kept \cup {d}
         \/ deliveries' = deliveries /\ failed
  BY Zenon DEF ReserveDelivery, Write
<1>2. /\ kept \subseteq deliveries
      /\ \A e \in deliveries : e.phase \in Active => e \in kept
  BY DEF Trimmed
<1>3. /\ d.id = Id(r, q.spec, occ) /\ d.id.rule = r /\ d.id.spec = rules[r].spec
      /\ d.phase \in Active
  BY DEF Id, Active
<1>4. ~Known(d.id) /\ ~Unsettled(r)
  BY DEF ReserveDelivery, Deliverable
<1>5. TermsKept(TRUE) /\ r \in born
  BY ReservingKeepsTerms, RuleOf DEF FrozenInv
<1> HIDE DEF d
<1>6. CASE deliveries' = deliveries /\ failed
  <2>1. Records' /\ ReservationFrozen' /\ \A i : Held(i) => Held(i)'
    BY <1>5, <1>6, RulesChange DEF TermsKept
  <2> QED BY <1>6, <2>1
<1>7. CASE deliveries' = kept \cup {d}
  <2>1. Records'
    BY <1>2, <1>3, <1>4, <1>5, <1>7 DEF FrozenInv, Records, Known
  <2>2. \A i : Held(i) => Held(i)'
    BY <1>2, <1>7 DEF Held
  <2>3. ReservationFrozen'
    BY <1>2, <1>3, <1>4, <1>5, <1>7
       DEF FrozenInv, ReservationFrozen, Unsettled, TermsKept
  <2>4. Held(Id(r, q.spec, occ))'
    BY <1>3, <1>7 DEF Held
  <2> QED BY <2>1, <2>2, <2>3, <2>4
<1> QED BY <1>1, <1>6, <1>7

(* No command of the user edits a rule with an open delivery. *)
LEMMA FrozenOfUser == FrozenInv /\ User => FrozenInv'
<1> SUFFICES ASSUME FrozenInv, User PROVE FrozenInv'
  OBVIOUS
<1>0. TypeInv /\ TypeInv'
  BY UserTypes DEF FrozenInv
<1>1. UNCHANGED <<pump, worker>>
  BY DEF User, Create, Edit, Review, Pause, Resume, Delete, Confirm, RunNow,
     Reload, Command, runVars
<1>2. ASSUME Records', ReservationFrozen', \A i : Held(i) => Held(i)'
      PROVE  FrozenInv'
  <2>1. PumpHolds'
    BY <1>1, <1>2, Zenon DEF FrozenInv, PumpHolds
  <2> QED BY <1>0, <1>2, <2>1 DEF FrozenInv
<1>3. ASSUME NEW r, NEW q, Command(r, q), born \subseteq born',
             Unsettled(r) => r \in DOMAIN rules /\ q.spec = rules[r].spec
      PROVE  FrozenInv'
  <2>1. (rules' = rules \/ rules' = Put(r, q)) /\ deliveries' = deliveries
    BY <1>3, Zenon DEF Command, Write
  <2>2. \A x \in DOMAIN rules' : Unsettled(x) =>
            x \in DOMAIN rules /\ rules'[x].spec = rules[x].spec
    BY <1>3, <2>1 DEF Put
  <2> QED BY <1>2, <1>3, <2>1, <2>2, RulesChange
<1>4. ASSUME NEW r \in Rules, NEW s \in Specs, Create(r, s) PROVE FrozenInv'
  <2>1. PICK q : Command(r, q) /\ born' = born \cup {r} /\ r \notin born
    BY <1>4 DEF Create
  <2>2. ~Unsettled(r)
    BY <2>1 DEF FrozenInv, Records, Unsettled
  <2> QED BY <1>3, <2>1, <2>2
<1>5. ASSUME NEW r \in Rules, NEW s \in Specs, Edit(r, s) PROVE FrozenInv'
  <2>1. PICK q : Command(r, q) /\ born' = born /\ ~Unsettled(r)
    BY <1>5 DEF Edit, userVars
  <2> QED BY <1>3, <2>1
<1>6. ASSUME NEW r \in Rules, Review(r) \/ Pause(r) \/ Resume(r)
      PROVE  FrozenInv'
  <2>1. PICK q : /\ r \in DOMAIN rules /\ Command(r, q) /\ born' = born
                 /\ q.spec = rules[r].spec
    <3>1. CASE Review(r)
      <4> DEFINE w == [rule |-> r,
                       nonce |-> Cardinality({v \in issued : v.rule = r}),
                       rev |-> rules[r].rev, spec |-> rules[r].spec]
      <4>1. /\ r \in DOMAIN rules /\ born' = born
            /\ Command(r, [rules[r] EXCEPT !.review = {w}])
        BY <3>1 DEF Review, Revise
      <4> HIDE DEF w
      <4>2. [rules[r] EXCEPT !.review = {w}].spec = rules[r].spec
        BY <1>0, <4>1, RuleOf DEF TypeRule
      <4> QED BY <4>1, <4>2
    <3>2. CASE Pause(r)
      <4> DEFINE q == [rules[r] EXCEPT !.rev = @ + 1, !.phase = "Paused",
                                       !.review = {}]
      <4>1. r \in DOMAIN rules /\ born' = born /\ Command(r, q)
        BY <3>2 DEF Pause, Revise, userVars
      <4>2. q.spec = rules[r].spec
        BY <1>0, <4>1, RuleOf DEF TypeRule
      <4> QED BY <4>1, <4>2
    <3>3. CASE Resume(r)
      <4> DEFINE q == [rules[r] EXCEPT !.rev = @ + 1, !.phase = "Enabled"]
      <4>1. r \in DOMAIN rules /\ born' = born /\ Command(r, q)
        BY <3>3 DEF Resume, Revise, userVars
      <4>2. q.spec = rules[r].spec
        BY <1>0, <4>1, RuleOf DEF TypeRule
      <4> QED BY <4>1, <4>2
    <3> QED BY <1>6, <3>1, <3>2, <3>3
  <2> QED BY <1>3, <2>1
<1>7. ASSUME NEW r \in Rules, Delete(r) PROVE FrozenInv'
  <2>1. /\ born' = born /\ deliveries' = deliveries
        /\ rules' = rules \/ rules' = [x \in DOMAIN rules \ {r} |-> rules[x]]
    BY <1>7 DEF Delete, Write, userVars
  <2>2. \A x \in DOMAIN rules' :
            x \in DOMAIN rules /\ rules'[x].spec = rules[x].spec
    BY <2>1
  <2> QED BY <1>2, <2>1, <2>2, RulesChange
<1>8. ASSUME NEW v \in issued, Confirm(v) PROVE FrozenInv'
  <2> DEFINE r == v.rule
             n == IF rules[r].spec.kind = "job" THEN rules[r].next
                  ELSE First(rules[r].spec, now)
             q == [rules[r] EXCEPT !.rev = @ + 1, !.auth = {rules[r].spec},
                       !.review = {}, !.phase = "Enabled", !.last = {},
                       !.next = n]
  <2>1. r \in DOMAIN rules /\ Command(r, q) /\ born' = born
    BY <1>8, Zenon DEF Confirm, Revise
  <2>2. q.spec = rules[r].spec
    <3> HIDE DEF n
    <3> QED BY <1>0, <2>1, RuleOf DEF TypeRule
  <2> HIDE DEF q
  <2> QED BY <1>3, <2>1, <2>2
<1>9. ASSUME NEW r \in Rules, NEW o \in Requests, RunNow(r, o)
      PROVE  FrozenInv'
  <2>1. r \in DOMAIN rules /\ ReserveDelivery(r, rules[r], o, TRUE, TRUE)
        /\ born' = born
    BY <1>9 DEF RunNow, Enabled, userVars
  <2> QED BY <1>0, <1>2, <2>1, RuleOf, ReservingFrozen
<1>10. CASE Reload
  <2>1. UNCHANGED <<rules, deliveries, born>>
    BY <1>10 DEF Reload, userVars
  <2> QED BY <1>2, <2>1, RulesChange
<1> QED BY <1>4, <1>5, <1>6, <1>7, <1>8, <1>9, <1>10 DEF User

(* Every step of the pump keeps FrozenInv. *)
LEMMA FrozenOfPump == FrozenInv /\ Pump => FrozenInv'
<1> SUFFICES ASSUME FrozenInv, Pump PROVE FrozenInv'
  OBVIOUS
<1>0. TypeInv /\ TypeInv' /\ born' = born
  <2>1. PumpOnly
    BY DEF Pump, Tick, Recover, ClaimPending, ReserveDue, ReserveRefused, Yield,
       SlotTaken, Start, Admit, StartRefused, StartFails, Publish, RunEnds,
       Collect, Finish, FinishAdmitted, FinishSettle, FinishFaulted
  <2> QED BY <2>1, PumpTypes DEF PumpOnly, userVars, FrozenInv
<1>a. worker.pc \in {"none", "running", "ended"}
  BY <1>0 DEF TypeInv, RunType, TypeWorker, TypeReport, NoRun
<1>b. ASSUME UNCHANGED docVars
      PROVE  Records' /\ ReservationFrozen' /\ \A i : Held(i) => Held(i)'
  BY <1>0, <1>b, RulesChange DEF docVars
<1>1. CASE Tick \/ ReserveRefused \/ Yield \/ SlotTaken \/ FinishFaulted
  <2>1. /\ UNCHANGED docVars /\ worker' = worker /\ pump'.pc \in {"tick", "idle"}
        /\ pump.pc \in {"idle", "tick", "start", "ended"}
    BY <1>1 DEF Tick, ReserveRefused, Yield, SlotTaken, FinishFaulted, Seeking,
       Goto, At, Idle, runVars
  <2>2. PumpHolds'
    BY <2>1 DEF FrozenInv, PumpHolds
  <2> QED BY <1>0, <1>b, <2>1, <2>2 DEF FrozenInv
<1>2. CASE Recover
  <2>1. PICK d \in deliveries :
           /\ d.phase \in Active
           /\ RecoverAdmitted(d) \/ RecoverTerminal(d) \/ RecoverCancelled(d)
    BY <1>2 DEF Recover, Recoverable
  <2>2. /\ pump.pc = "tick" /\ worker' = worker
        /\ pump' = pump \/ pump' = Idle
    BY <1>2 DEF Recover, RecoverAdmitted, RecoverTerminal, RecoverCancelled,
       Settle, Write, Goto, At, runVars
  <2>3. PumpHolds'
    BY <2>2 DEF FrozenInv, PumpHolds, Idle
  <2>4. Terminal(d.id) \in Settled /\ "Cancelled" \in Settled
    BY <1>0 DEF TypeInv, RunType, Terminal, Receipt, Settled, Results
  <2>5. Records' /\ ReservationFrozen'
    <3>1. CASE RecoverAdmitted(d)
      <4>1. /\ rules' = rules
            /\ deliveries' = deliveries \/ deliveries' = Rephase(d, "Admitted")
        BY <3>1, Zenon DEF RecoverAdmitted, Write
      <4> QED BY <1>0, <2>1, <4>1, RephasingFrozen
    <3>2. CASE RecoverTerminal(d)
      BY <1>0, <2>4, <3>2, SettlingFrozen DEF RecoverTerminal
    <3>3. CASE RecoverCancelled(d)
      BY <1>0, <2>4, <3>3, SettlingFrozen DEF RecoverCancelled
    <3> QED BY <2>1, <3>1, <3>2, <3>3
  <2> QED BY <1>0, <2>3, <2>5 DEF FrozenInv
<1>3. CASE ClaimPending
  <2>1. PICK d \in deliveries : Pending(d) /\ pump' = [pc |-> "start", id |-> d.id]
    BY <1>3 DEF ClaimPending, Goto
  <2>2. /\ UNCHANGED docVars /\ worker' = worker /\ pump.pc = "tick"
    BY <1>3 DEF ClaimPending, runVars, At
  <2>3. Held(d.id)
    BY <2>1 DEF Pending, Held, Active
  <2>4. PumpHolds'
    BY <1>b, <2>1, <2>2, <2>3 DEF FrozenInv, PumpHolds
  <2> QED BY <1>0, <1>b, <2>2, <2>4 DEF FrozenInv
<1>4. CASE ReserveDue
  <2>1. PICK r \in Candidates :
           ReserveDelivery(r, Advanced(rules[r], Occurrence(r)), Occurrence(r),
               Goto([pc |-> "start",
                     id |-> Id(r, rules[r].spec, Occurrence(r))]),
               Goto(Idle))
    BY <1>4, Zenon DEF ReserveDue
  <2>2. PICK q, occ, i :
           /\ q \in TypeRule
           /\ q = Advanced(rules[r], Occurrence(r)) /\ occ = Occurrence(r)
           /\ i = Id(r, rules[r].spec, occ) /\ i = Id(r, q.spec, occ)
           /\ r \in DOMAIN rules /\ q.spec = rules[r].spec
           /\ q.auth = rules[r].auth /\ q.phase = rules[r].phase
    BY <1>0, CandidateFacts, CandidateTerms
  <2>3. ReserveDelivery(r, q, occ, Goto([pc |-> "start", id |-> i]), Goto(Idle))
    BY <2>1, <2>2
  <2>4. Records' /\ ReservationFrozen' /\ (Goto(Idle) \/ Held(i)')
    BY <1>0, <2>2, <2>3, ReservingFrozen
  <2>5. pump' = [pc |-> "start", id |-> i] \/ pump' = Idle
    BY <2>3, Zenon DEF ReserveDelivery, Write, Goto
  <2>6. worker' = worker /\ worker.pc = "none"
    BY <1>4, <1>a DEF ReserveDue, Seeking, At, runVars, FrozenInv, PumpHolds
  <2>7. PumpHolds'
    <3>1. CASE pump' = Idle
      BY <2>6, <3>1 DEF PumpHolds, Idle
    <3>2. CASE pump' # Idle
      BY <2>4, <2>5, <2>6, <3>2 DEF PumpHolds, Goto
    <3> QED BY <3>1, <3>2
  <2> QED BY <1>0, <2>4, <2>7 DEF FrozenInv
<1>5. CASE Start
  <2>1. /\ UNCHANGED docVars /\ pump.pc = "start"
        /\ \/ /\ pump' = [pc |-> "publish", id |-> pump.id]
              /\ worker' = [pc |-> "running", id |-> pump.id]
           \/ /\ worker' = worker
              /\ pump'.pc = "refused" /\ pump'.id = pump.id
    BY <1>5 DEF Start, Admit, StartRefused, StartFails, Goto, At, Report, runVars
  <2>2. Held(pump.id) /\ worker.pc = "none"
    BY <2>1 DEF FrozenInv, PumpHolds
  <2>3. PumpHolds'
    BY <1>b, <2>1, <2>2 DEF PumpHolds
  <2> QED BY <1>0, <1>b, <2>1, <2>3 DEF FrozenInv
<1>6. CASE Publish
  <2>1. PICK d \in deliveries :
           /\ d.id = pump.id
           /\ Write(rules, Rephase(d, "Admitted"),
                    Goto([pc |-> "running"]), Goto([pc |-> "running"]))
    BY <1>6 DEF Publish
  <2>2. d.phase \in Active
    BY <1>6, <2>1 DEF Publish, At, FrozenInv, PumpHolds, Held, Records
  <2>a. /\ rules' = rules
        /\ deliveries' = deliveries \/ deliveries' = Rephase(d, "Admitted")
    BY <2>1, Zenon DEF Write
  <2>3. Records' /\ ReservationFrozen' /\ \A i : Held(i) => Held(i)'
    BY <1>0, <2>a, <2>2, RephasingFrozen
  <2>4. worker' = worker /\ pump' = [pc |-> "running"]
    BY <1>6, <2>1 DEF Publish, Write, Goto, runVars
  <2>5. PumpHolds'
    BY <2>3, <2>4 DEF FrozenInv, PumpHolds
  <2> QED BY <1>0, <2>3, <2>5 DEF FrozenInv
<1>7. CASE RunEnds
  <2>1. /\ UNCHANGED docVars /\ pump' = pump /\ worker.pc = "running"
        /\ worker'.pc = "ended" /\ worker'.id = worker.id
    BY <1>7 DEF RunEnds, Report
  <2>2. PumpHolds'
    BY <1>b, <2>1 DEF FrozenInv, PumpHolds
  <2> QED BY <1>0, <1>b, <2>1, <2>2 DEF FrozenInv
<1>8. CASE Collect
  <2>1. /\ UNCHANGED docVars /\ pump' = worker /\ worker' = NoRun
        /\ worker.pc = "ended"
    BY <1>8 DEF Collect, Goto
  <2>2. PumpHolds'
    BY <1>b, <2>1 DEF FrozenInv, PumpHolds, NoRun
  <2> QED BY <1>0, <1>b, <2>1, <2>2 DEF FrozenInv
<1>9. CASE FinishAdmitted
  <2> DEFINE p == [pump EXCEPT !.pc = "settle", !.receipt = FALSE]
  <2>1. PICK d \in deliveries :
           /\ d.id = pump.id
           /\ Write(rules, Rephase(d, "Admitted"), Goto(p), Goto(Idle))
    BY <1>9 DEF FinishAdmitted
  <2>2. /\ pump \in TypeReport({"ended", "refused", "settle"})
        /\ Held(pump.id) /\ worker.pc = "none" /\ worker' = worker
    BY <1>0, <1>9, PumpFacts
       DEF FinishAdmitted, FrozenInv, PumpHolds, runVars
  <2>3. d.phase \in Active
    BY <2>1, <2>2 DEF FrozenInv, Held, Records
  <2>a. /\ rules' = rules
        /\ deliveries' = deliveries \/ deliveries' = Rephase(d, "Admitted")
    BY <2>1, Zenon DEF Write
  <2>4. Records' /\ ReservationFrozen' /\ \A i : Held(i) => Held(i)'
    BY <1>0, <2>a, <2>3, RephasingFrozen
  <2>5. pump' = p \/ pump' = Idle
    BY <2>1, Zenon DEF Write, Goto
  <2>6. p.id = pump.id
    BY <2>2 DEF TypeReport
  <2> HIDE DEF p
  <2>7. PumpHolds'
    BY <2>2, <2>4, <2>5, <2>6 DEF PumpHolds, Idle
  <2> QED BY <1>0, <2>4, <2>7 DEF FrozenInv
<1>10. CASE FinishSettle
  <2>1. PICK d \in deliveries :
           Settle(d, pump.phase, pump.actual, Goto(Idle), Goto(Idle))
    BY <1>10 DEF FinishSettle
  <2>2. pump.phase \in Settled
    BY <1>0, <1>10, PumpFacts DEF FinishSettle, Settled
  <2>3. Records' /\ ReservationFrozen'
    BY <1>0, <2>1, <2>2, SettlingFrozen
  <2>4. pump' = Idle /\ worker' = worker /\ worker.pc = "none"
    <3>1. pump' = Idle
      BY <2>1, Zenon DEF Settle, Write, Goto
    <3> QED BY <1>10, <3>1 DEF FinishSettle, FrozenInv, PumpHolds, runVars
  <2>5. PumpHolds'
    BY <2>4 DEF PumpHolds, Idle
  <2> QED BY <1>0, <2>3, <2>5 DEF FrozenInv
<1> QED BY <1>1, <1>2, <1>3, <1>4, <1>5, <1>6, <1>7, <1>8, <1>9, <1>10
       DEF Pump, Finish

(* Every step keeps FrozenInv. *)
LEMMA FrozenStep == FrozenInv /\ [Next]_vars => FrozenInv'
<1> SUFFICES ASSUME FrozenInv, [Next]_vars PROVE FrozenInv'
  OBVIOUS
<1>1. TypeInv'
  BY TypeStep DEF FrozenInv
<1>2. CASE World \/ UNCHANGED vars
  <2>1. /\ UNCHANGED <<rules, deliveries, born>>
        /\ \/ UNCHANGED <<pump, worker>>
           \/ pump' = Idle /\ worker' = NoRun
    BY <1>2 DEF World, Crash, Advance, Rollback, JobEnds, docVars, userVars,
       runVars, vars
  <2>2. Records' /\ ReservationFrozen' /\ \A i : Held(i) => Held(i)'
    BY <2>1, RulesChange
  <2>3. PumpHolds'
    BY <2>1, <2>2 DEF FrozenInv, PumpHolds, Idle, NoRun
  <2> QED BY <1>1, <2>2, <2>3 DEF FrozenInv
<1> QED BY <1>2, FrozenOfUser, FrozenOfPump DEF Next

(* There is no delivery to begin with. *)
LEMMA FrozenInit == Init => FrozenInv
BY TypeInit
   DEF Init, FrozenInv, Records, ReservationFrozen, PumpHolds, Idle, NoRun

(* While a delivery is unsettled its rule keeps the specification that was *)
(* reserved and has no second one, in every state of every behaviour.      *)
THEOREM ReservationsAreFrozen == Spec => []ReservationFrozen
<1>1. FrozenInv => ReservationFrozen
  BY DEF FrozenInv
<1> QED BY <1>1, FrozenInit, FrozenStep, PTL DEF Spec

-----------------------------------------------------------------------------
(* The record and the journal *)

(* What a report and a delivery say of the journal is so.                  *)
Reporting == {"ended", "refused", "settle"}
ReportTrue(rep) ==
    rep.pc \in Reporting =>
       /\ rep.receipt => rep.id \in DOMAIN journal
       /\ rep.phase = "Completed" =>
             rep.id \in DOMAIN journal /\ journal[rep.id] = "Completed"
DeliveryTrue(d) ==
    /\ d.phase = "Admitted" => d.id \in DOMAIN journal
    /\ d.phase = "Completed" =>
          d.id \in DOMAIN journal /\ journal[d.id] = "Completed"
    /\ d.phase = "Interrupted" =>
          d.id \in DOMAIN journal /\ journal[d.id] = "open"
JournalInv ==
    /\ worker.pc = "running" => worker.id \in DOMAIN journal /\ journal[worker.id] = "open"
    /\ pump.pc = "publish" => pump.id \in DOMAIN journal
    /\ ReportTrue(worker) /\ ReportTrue(pump)
    /\ \A d \in deliveries : DeliveryTrue(d)

(* What the three ways to write a delivery put into the document.          *)
LEMMA ReservingMakes ==
    ASSUME NEW r, NEW q, NEW occ, NEW ACTION ok, NEW ACTION failed,
           ReserveDelivery(r, q, occ, ok, failed)
    PROVE  \A x \in deliveries' :
              x \in deliveries \/ (x.id = Id(r, q.spec, occ) /\ x.phase = "Reserved")
<1> DEFINE d == [id |-> Id(r, q.spec, occ), phase |-> "Reserved", finished |-> 0]
<1>1. PICK kept \in Trimmed : deliveries' = kept \cup {d} \/ deliveries' = deliveries
  BY Zenon DEF ReserveDelivery, Write
<1>2. kept \subseteq deliveries
  BY DEF Trimmed
<1>3. d.id = Id(r, q.spec, occ) /\ d.phase = "Reserved"
  OBVIOUS
<1> HIDE DEF d
<1> QED BY <1>1, <1>2, <1>3

(* Admitting a delivery writes that delivery and no other. *)
LEMMA RephasingMakes ==
    ASSUME TypeInv, NEW d \in deliveries, NEW ACTION ok, NEW ACTION failed,
           Write(rules, Rephase(d, "Admitted"), ok, failed)
    PROVE  \A x \in deliveries' :
              x \in deliveries \/ (x.id = d.id /\ x.phase = "Admitted")
<1> DEFINE e == [d EXCEPT !.phase = "Admitted"]
<1>1. deliveries' = deliveries \/ deliveries' = (deliveries \ {d}) \cup {e}
  BY Zenon DEF Write, Rephase
<1>2. e.id = d.id /\ e.phase = "Admitted"
  BY DEF TypeInv, DocType, TypeDelivery
<1> HIDE DEF e
<1> QED BY <1>1, <1>2

(* Settling a delivery writes that delivery and no other. *)
LEMMA SettlingMakes ==
    ASSUME TypeInv, NEW d \in deliveries, NEW phase, NEW actual,
           NEW ACTION ok, NEW ACTION failed,
           Settle(d, phase, actual, ok, failed)
    PROVE  \A x \in deliveries' :
              x \in deliveries \/ (x.id = d.id /\ x.phase = phase)
<1> DEFINE e == [d EXCEPT !.phase = phase, !.finished = now]
<1>1. deliveries' = deliveries \/ deliveries' = (deliveries \ {d}) \cup {e}
  BY Zenon DEF Settle, Write
<1>2. e.id = d.id /\ e.phase = phase
  BY DEF TypeInv, DocType, TypeDelivery
<1> HIDE DEF e
<1> QED BY <1>1, <1>2

(* A step that leaves the journal and its worker alone, and writes only    *)
(* what is so.                                                             *)
LEMMA JournalKept ==
    ASSUME JournalInv, UNCHANGED <<journal, worker>>,
           pump' = pump \/ ((pump'.pc = "publish" => pump'.id \in DOMAIN journal)
                            /\ ReportTrue(pump)'),
           \A d \in deliveries' : d \in deliveries \/ DeliveryTrue(d)
    PROVE  JournalInv'
<1>1. \A d \in deliveries' : DeliveryTrue(d)'
  BY DEF JournalInv, DeliveryTrue
<1>2. ReportTrue(worker)' /\ ReportTrue(pump)'
  BY DEF JournalInv, ReportTrue
<1> QED BY <1>1, <1>2 DEF JournalInv

(* A message is committed that was not in the journal before.              *)
LEMMA Committed ==
    ASSUME TypeInv, JournalInv, NEW i, ~Receipt(i), journal' = Commit(i),
           deliveries' = deliveries
    PROVE  /\ DOMAIN journal' = DOMAIN journal \cup {i} /\ journal'[i] = "open"
           /\ \A d \in deliveries' : DeliveryTrue(d)'
<1>1. /\ DOMAIN journal' = DOMAIN journal \cup {i} /\ journal'[i] = "open"
      /\ \A x \in DOMAIN journal : journal'[x] = journal[x]
  BY DEF Commit, Receipt
<1> QED BY <1>1 DEF JournalInv, DeliveryTrue

(* Every step of the pump writes only what the journal has.                *)
LEMMA JournalOfPump == FrozenInv /\ JournalInv /\ Pump => JournalInv'
<1> SUFFICES ASSUME FrozenInv, JournalInv, Pump PROVE JournalInv'
  OBVIOUS
<1>0. TypeInv /\ Records /\ PumpHolds
  BY DEF FrozenInv
<1>1. CASE Tick \/ ClaimPending \/ ReserveRefused \/ Yield \/ SlotTaken \/ FinishFaulted
  <2>1. /\ UNCHANGED <<journal, worker, deliveries>>
        /\ pump'.pc \in {"tick", "idle", "start"}
    BY <1>1 DEF Tick, ClaimPending, ReserveRefused, Yield, SlotTaken, FinishFaulted,
       Goto, Idle, runVars, docVars
  <2> QED BY <2>1, JournalKept DEF ReportTrue, Reporting
<1>2. CASE Recover
  <2>1. PICK d \in deliveries :
           RecoverAdmitted(d) \/ RecoverTerminal(d) \/ RecoverCancelled(d)
    BY <1>2 DEF Recover
  <2>2. UNCHANGED <<journal, worker>> /\ (pump' = pump \/ pump' = Idle)
    BY <1>2 DEF Recover, RecoverAdmitted, RecoverTerminal, RecoverCancelled,
       Settle, Write, Goto, runVars
  <2>3. \A x \in deliveries' : x \in deliveries \/ DeliveryTrue(x)
    <3>1. CASE RecoverAdmitted(d)
      <4>1. \A x \in deliveries' : x \in deliveries \/ (x.id = d.id /\ x.phase = "Admitted")
        BY <1>0, <3>1, RephasingMakes DEF RecoverAdmitted
      <4> QED BY <3>1, <4>1 DEF RecoverAdmitted, Receipt, DeliveryTrue
    <3>2. CASE RecoverTerminal(d)
      <4>1. \A x \in deliveries' : x \in deliveries \/ (x.id = d.id /\ x.phase = Terminal(d.id))
        BY <1>0, <3>2, SettlingMakes DEF RecoverTerminal
      <4>2. d.id \in DOMAIN journal
        BY <3>2 DEF RecoverTerminal, JournalInv, DeliveryTrue
      <4>3. journal[d.id] \in {"Completed", "Failed", "open"}
        BY <1>0, <4>2 DEF TypeInv, RunType, Results
      <4> QED BY <4>1, <4>2, <4>3 DEF Terminal, Receipt, DeliveryTrue
    <3>3. CASE RecoverCancelled(d)
      <4>1. \A x \in deliveries' : x \in deliveries \/ (x.id = d.id /\ x.phase = "Cancelled")
        BY <1>0, <3>3, SettlingMakes DEF RecoverCancelled
      <4> QED BY <4>1 DEF DeliveryTrue
    <3> QED BY <2>1, <3>1, <3>2, <3>3
  <2> QED BY <2>2, <2>3, JournalKept DEF ReportTrue, Reporting, Idle
<1>3. CASE ReserveDue
  <2>1. PICK r \in Candidates :
           ReserveDelivery(r, Advanced(rules[r], Occurrence(r)), Occurrence(r),
               Goto([pc |-> "start",
                     id |-> Id(r, rules[r].spec, Occurrence(r))]),
               Goto(Idle))
    BY <1>3, Zenon DEF ReserveDue
  <2>2. \A x \in deliveries' : x \in deliveries \/ x.phase = "Reserved"
    BY <2>1, ReservingMakes
  <2>3. pump'.pc \in {"start", "idle"} /\ UNCHANGED <<journal, worker>>
    <3>1. PICK i : pump' = [pc |-> "start", id |-> i] \/ pump' = Idle
      BY <2>1, Zenon DEF ReserveDelivery, Write, Goto
    <3> QED BY <1>3, <3>1 DEF ReserveDue, runVars, Idle
  <2> QED BY <2>2, <2>3, JournalKept DEF DeliveryTrue, ReportTrue, Reporting
<1>4. CASE Admit
  <2>1. /\ ~Receipt(pump.id) /\ journal' = Commit(pump.id) /\ deliveries' = deliveries
        /\ worker' = [pc |-> "running", id |-> pump.id]
        /\ pump' = [pc |-> "publish", id |-> pump.id]
    BY <1>4 DEF Admit, Goto, docVars
  <2>2. /\ pump.id \in DOMAIN journal' /\ journal'[pump.id] = "open"
        /\ \A d \in deliveries' : DeliveryTrue(d)'
    BY <1>0, <2>1, Committed
  <2> QED BY <2>1, <2>2 DEF JournalInv, ReportTrue, Reporting
<1>5. CASE StartRefused
  <2>1. /\ UNCHANGED <<journal, worker, deliveries>> /\ Receipt(pump.id)
        /\ pump' = [pc |-> "refused", id |-> pump.id, phase |-> "Failed",
                    receipt |-> TRUE, actual |-> {}]
    BY <1>5 DEF StartRefused, Goto, Report, runVars, docVars
  <2> QED BY <2>1, JournalKept DEF ReportTrue, Receipt
<1>6. CASE StartFails
  <2>1. PICK landed \in BOOLEAN, known \in BOOLEAN :
           /\ known => landed
           /\ journal' = IF landed THEN Commit(pump.id) ELSE journal
           /\ pump' = [pc |-> "refused", id |-> pump.id, phase |-> "Failed",
                       receipt |-> known, actual |-> {}]
    BY <1>6 DEF StartFails, Goto, Report
  <2>2. ~Receipt(pump.id) /\ UNCHANGED <<worker, deliveries>> /\ worker.pc # "running"
        /\ worker.pc \notin Reporting
    BY <1>0, <1>6 DEF StartFails, docVars, PumpHolds, At, Reporting
  <2>3. CASE landed
    <3>1. /\ pump.id \in DOMAIN journal'
          /\ \A d \in deliveries' : DeliveryTrue(d)'
      BY <1>0, <2>1, <2>2, <2>3, Committed
    <3> QED BY <2>1, <2>2, <3>1 DEF JournalInv, ReportTrue
  <2>4. CASE ~landed
    BY <2>1, <2>2, <2>4, JournalKept DEF ReportTrue
  <2> QED BY <2>3, <2>4
<1>7. CASE Publish
  <2>1. PICK d \in deliveries :
           /\ d.id = pump.id
           /\ Write(rules, Rephase(d, "Admitted"),
                    Goto([pc |-> "running"]), Goto([pc |-> "running"]))
    BY <1>7 DEF Publish
  <2>2. pump.id \in DOMAIN journal
    BY <1>7 DEF Publish, At, JournalInv
  <2>3. \A x \in deliveries' : x \in deliveries \/ (x.id = d.id /\ x.phase = "Admitted")
    BY <1>0, <2>1, RephasingMakes
  <2>4. UNCHANGED <<journal, worker>> /\ pump' = [pc |-> "running"]
    BY <1>7, <2>1 DEF Publish, Write, Goto, runVars
  <2> QED BY <2>1, <2>2, <2>3, <2>4, JournalKept DEF DeliveryTrue, ReportTrue, Reporting
<1>8. CASE RunEnds
  <2> DEFINE i == worker.id
  <2>1. PICK phase \in Results, tokens \in Spends, metered \in BOOLEAN,
             report \in Results \X BOOLEAN :
           /\ report \in {<<phase, TRUE>>, <<"Failed", TRUE>>, <<"Failed", FALSE>>}
           /\ \/ journal' = [journal EXCEPT ![i] = phase]
              \/ report[1] = "Failed" /\ journal' = journal
           /\ worker' = Report("ended", i, report[1], report[2],
                               IF metered THEN {[runs |-> 1, tokens |-> tokens]} ELSE {})
    BY <1>8, ZenonT(40) DEF RunEnds, Results
  <2>2. /\ worker.pc = "running" /\ i \in DOMAIN journal
        /\ UNCHANGED <<pump, deliveries>>
    BY <1>8 DEF RunEnds, JournalInv, docVars
  <2>3. Held(i) /\ pump.pc \in {"publish", "running"}
    BY <1>0, <2>2 DEF PumpHolds
  <2>4. /\ DOMAIN journal' = DOMAIN journal
        /\ \A x \in DOMAIN journal \ {i} : journal'[x] = journal[x]
        /\ report[1] = "Completed" => journal'[i] = "Completed"
    <3>1. report[1] = phase \/ report[1] = "Failed"
      <4>1. report = <<phase, TRUE>> \/ report = <<"Failed", TRUE>>
            \/ report = <<"Failed", FALSE>>
        BY <2>1, Zenon
      <4>2. CASE report = <<phase, TRUE>>
        BY <4>2
      <4>3. CASE report = <<"Failed", TRUE>>
        BY <4>3
      <4>4. CASE report = <<"Failed", FALSE>>
        BY <4>4
      <4> QED BY <4>1, <4>2, <4>3, <4>4
    <3>2. CASE journal' = [journal EXCEPT ![i] = phase]
      BY <2>2, <3>1, <3>2
    <3>3. CASE report[1] = "Failed" /\ journal' = journal
      BY <3>3
    <3> QED BY <2>1, <3>2, <3>3
  <2>5. worker'.pc = "ended" /\ worker'.id = i /\ worker'.phase = report[1]
    BY <2>1 DEF Report
  <2>6. ASSUME NEW d \in deliveries PROVE DeliveryTrue(d)'
    <3>1. d.id = i => d.phase \in Active
      BY <1>0, <2>3 DEF Held, Records
    <3> QED BY <2>4, <3>1 DEF JournalInv, DeliveryTrue, Active
  <2>7. ReportTrue(worker)' /\ ReportTrue(pump)'
    BY <2>2, <2>3, <2>4, <2>5 DEF ReportTrue, Reporting
  <2> QED BY <2>2, <2>4, <2>5, <2>6, <2>7 DEF JournalInv
<1>9. CASE Collect
  <2>1. /\ UNCHANGED <<journal, deliveries>> /\ pump' = worker /\ worker' = NoRun
        /\ worker.pc = "ended"
    BY <1>9 DEF Collect, Goto, docVars
  <2>2. ReportTrue(worker)' /\ ReportTrue(pump)'
    BY <2>1 DEF JournalInv, ReportTrue, Reporting, NoRun
  <2> QED BY <2>1, <2>2 DEF JournalInv, DeliveryTrue, NoRun
<1>10. CASE FinishAdmitted
  <2> DEFINE p == [pump EXCEPT !.pc = "settle", !.receipt = FALSE]
  <2>1. PICK d \in deliveries :
           /\ d.id = pump.id
           /\ Write(rules, Rephase(d, "Admitted"), Goto(p), Goto(Idle))
    BY <1>10 DEF FinishAdmitted
  <2>2. /\ pump \in TypeReport({"ended", "refused", "settle"})
        /\ pump.id \in DOMAIN journal
    BY <1>0, <1>10, PumpFacts DEF FinishAdmitted, JournalInv, ReportTrue, Reporting
  <2>3. \A x \in deliveries' : x \in deliveries \/ (x.id = d.id /\ x.phase = "Admitted")
    BY <1>0, <2>1, RephasingMakes
  <2>4. pump' = p \/ pump' = Idle
    BY <2>1, Zenon DEF Write, Goto
  <2>5. p.id = pump.id /\ p.phase = pump.phase /\ p.receipt = FALSE /\ p.pc = "settle"
    BY <2>2 DEF TypeReport
  <2> HIDE DEF p
  <2>6. UNCHANGED <<journal, worker>>
    BY <1>10 DEF FinishAdmitted, runVars
  <2>7. pump.phase = "Completed" => journal[pump.id] = "Completed"
    BY <1>10 DEF FinishAdmitted, JournalInv, ReportTrue, Reporting
  <2>8. (pump'.pc = "publish" => pump'.id \in DOMAIN journal) /\ ReportTrue(pump)'
    BY <2>2, <2>4, <2>5, <2>6, <2>7 DEF ReportTrue, Reporting, Idle
  <2>9. \A x \in deliveries' : x \in deliveries \/ DeliveryTrue(x)
    BY <2>1, <2>2, <2>3 DEF DeliveryTrue
  <2> QED BY <2>6, <2>8, <2>9, JournalKept
<1>11. CASE FinishSettle
  <2>1. PICK d \in deliveries :
           d.id = pump.id /\ Settle(d, pump.phase, pump.actual, Goto(Idle), Goto(Idle))
    BY <1>11 DEF FinishSettle
  <2>2. pump.phase \in Results
    BY <1>0, <1>11, PumpFacts DEF FinishSettle
  <2>3. pump.phase = "Completed" =>
           pump.id \in DOMAIN journal /\ journal[pump.id] = "Completed"
    BY <1>11 DEF FinishSettle, JournalInv, ReportTrue, Reporting
  <2>4. \A x \in deliveries' : x \in deliveries \/ (x.id = d.id /\ x.phase = pump.phase)
    BY <1>0, <2>1, SettlingMakes
  <2>5. pump' = Idle
    BY <2>1, Zenon DEF Settle, Write, Goto
  <2>6. UNCHANGED <<journal, worker>>
    BY <1>11 DEF FinishSettle, runVars
  <2>7. \A x \in deliveries' : x \in deliveries \/ DeliveryTrue(x)
    BY <2>1, <2>2, <2>3, <2>4 DEF DeliveryTrue, Results
  <2> QED BY <2>5, <2>6, <2>7, JournalKept DEF ReportTrue, Reporting, Idle
<1> QED BY <1>1, <1>2, <1>3, <1>4, <1>5, <1>6, <1>7, <1>8, <1>9, <1>10, <1>11
       DEF Pump, Start, Finish

(* Every step keeps the document and the reports true to the journal.      *)
LEMMA JournalStep == FrozenInv /\ JournalInv /\ [Next]_vars => JournalInv'
<1> SUFFICES ASSUME FrozenInv, JournalInv, [Next]_vars PROVE JournalInv'
  OBVIOUS
<1>1. CASE User
  <2>1. UNCHANGED <<pump, journal, worker>>
    BY <1>1 DEF User, Create, Edit, Review, Pause, Resume, Delete, Confirm, RunNow,
       Reload, Command, runVars
  <2>2. \A d \in deliveries' : d \in deliveries \/ d.phase = "Reserved"
    <3>1. ASSUME NEW r \in Rules, NEW q \in Requests, RunNow(r, q)
          PROVE  \A d \in deliveries' : d \in deliveries \/ d.phase = "Reserved"
      <4>1. ReserveDelivery(r, rules[r], q, TRUE, TRUE)
        BY <3>1 DEF RunNow
      <4> QED BY <4>1, ReservingMakes
    <3>2. CASE deliveries' = deliveries
      BY <3>2
    <3> QED BY <1>1, <3>1, <3>2 DEF User, Create, Edit, Review, Pause, Resume, Delete,
       Confirm, Reload, Command, Write
  <2> QED BY <2>1, <2>2, JournalKept DEF DeliveryTrue
<1>2. CASE World \/ UNCHANGED vars
  <2>1. /\ UNCHANGED <<journal, deliveries>>
        /\ UNCHANGED <<pump, worker>> \/ (pump' = Idle /\ worker' = NoRun)
    BY <1>2 DEF World, Crash, Advance, Rollback, JobEnds, docVars, runVars, vars
  <2> QED BY <2>1 DEF JournalInv, DeliveryTrue, ReportTrue, Reporting, Idle, NoRun
<1> QED BY <1>1, <1>2, JournalOfPump DEF Next
-----------------------------------------------------------------------------
(* The budget *)

(* What a rule is charged for its open reservation i, u being what the     *)
(* document says it used: the whole of it until the run has consumed       *)
(* something, and what a report gives back was not consumed.               *)
Ran(i) == \E n \in DOMAIN ran : ran[n] = i
Repays(rep, i, u) ==
    rep.pc \in Reporting /\ rep.id = i =>
       \A a \in rep.actual :
          /\ a.runs = 1 /\ a.tokens <= i.spec.runTokens
          /\ spent[i.rule] + i.spec.runTokens <= u.tokens + a.tokens
Charged(i, u) ==
    /\ u.runs <= i.spec.runs /\ u.tokens <= i.spec.tokens
    /\ ~Ran(i) => /\ Cardinality(RunsOf(i.rule)) < u.runs
                  /\ spent[i.rule] + i.spec.runTokens <= u.tokens
    /\ worker.pc = "running" /\ worker.id = i =>
          spent[i.rule] + i.spec.runTokens <= u.tokens
    /\ Repays(worker, i, u) /\ Repays(pump, i, u)
Covered(r, u) == Cardinality(RunsOf(r)) <= u.runs /\ spent[r] <= u.tokens
BudgetInv ==
    /\ \A r \in DOMAIN rules : Covered(r, rules[r].used)
    /\ \A d \in deliveries : d.phase \in Active /\ d.id.rule \in DOMAIN rules
          => Charged(d.id, rules[d.id.rule].used)
    /\ worker.pc = "running" => Ran(worker.id)
    /\ \A n \in DOMAIN ran : ran[n].rule \in born
    /\ \A r \in Rules \ born : spent[r] = 0

(* The executions of a rule can be counted, and each new one counts.       *)
LEMMA RunsCounted ==
    ASSUME TypeInv, NEW r
    PROVE  /\ IsFiniteSet(RunsOf(r)) /\ Cardinality(RunsOf(r)) \in Nat
           /\ (\A n \in DOMAIN ran : ran[n].rule # r) => Cardinality(RunsOf(r)) = 0
<1>1. Len(ran) \in Nat /\ DOMAIN ran = 1 .. Len(ran)
  BY DEF TypeInv, RunType
<1>2. IsFiniteSet(DOMAIN ran)
  BY <1>1, FS_Interval
<1>3. IsFiniteSet(RunsOf(r))
  BY <1>2, FS_Subset DEF RunsOf
<1>4. (\A n \in DOMAIN ran : ran[n].rule # r) => RunsOf(r) = {}
  BY DEF RunsOf
<1> QED BY <1>3, <1>4, FS_EmptySet, FS_CardinalityType

(* One more execution of one rule, and of no other.                        *)
LEMMA RunsAppended ==
    ASSUME TypeInv, NEW i, ran' = Append(ran, i), NEW r
    PROVE  /\ Cardinality(RunsOf(r))' =
                 Cardinality(RunsOf(r)) + (IF r = i.rule THEN 1 ELSE 0)
           /\ \A x : Ran(x)' <=> Ran(x) \/ x = i
           /\ \A n \in DOMAIN ran' : ran'[n] = i \/ \E m \in DOMAIN ran : ran'[n] = ran[m]
<1> DEFINE l == Len(ran) + 1
<1>1. /\ l \in Nat /\ DOMAIN ran = 1 .. l - 1 /\ DOMAIN ran' = (1 .. l - 1) \cup {l}
      /\ ran'[l] = i /\ \A n \in 1 .. l - 1 : ran'[n] = ran[n]
  BY DEF TypeInv, RunType
<1>2. l \notin 1 .. l - 1
  BY <1>1
<1> HIDE DEF l
<1>3. RunsOf(r)' = RunsOf(r) \cup (IF r = i.rule THEN {l} ELSE {})
  BY <1>1, <1>2 DEF RunsOf
<1>4. l \notin RunsOf(r)
  BY <1>1, <1>2 DEF RunsOf
<1>5. Cardinality(RunsOf(r))' =
                 Cardinality(RunsOf(r)) + (IF r = i.rule THEN 1 ELSE 0)
  <2>1. CASE r = i.rule
    BY <1>3, <1>4, <2>1, RunsCounted, FS_AddElement
  <2>2. CASE r # i.rule
    BY <1>3, <2>2, RunsCounted
  <2> QED BY <2>1, <2>2
<1>6. \A x : Ran(x)' <=> Ran(x) \/ x = i
  BY <1>1, <1>2 DEF Ran
<1> QED BY <1>1, <1>5, <1>6

(* A step that executes and consumes nothing, writes no budget but that of *)
(* a new rule, and reports nothing new.                                    *)
LEMMA BudgetKept ==
    ASSUME TypeInv, BudgetInv, UNCHANGED <<ran, spent>>, born \subseteq born',
           worker' = worker \/ worker' = NoRun,
           pump'.pc \in Reporting =>
              \/ pump'.actual = {}
              \/ \E rep \in {worker, pump} :
                    rep.pc \in Reporting /\ pump'.id = rep.id /\ pump'.actual = rep.actual,
           \A r \in DOMAIN rules' :
              IF r \in DOMAIN rules THEN rules'[r].used = rules[r].used
              ELSE r \in Rules \ born /\ rules'[r].used = Nothing,
           \A d \in deliveries' : d.phase \in Active /\ d.id.rule \in DOMAIN rules' =>
              /\ d.id.rule \in DOMAIN rules
              /\ \E e \in deliveries : e.phase \in Active /\ e.id = d.id
    PROVE  BudgetInv'
<1>1. \A r : RunsOf(r)' = RunsOf(r)
  BY DEF RunsOf
<1>2. \A i : Ran(i)' = Ran(i)
  BY DEF Ran
<1>3. ASSUME NEW r \in DOMAIN rules' PROVE Covered(r, rules[r].used)'
  <2>1. CASE r \in DOMAIN rules
    BY <1>1, <2>1 DEF BudgetInv, Covered
  <2>2. CASE r \notin DOMAIN rules
    <3>1. r \in Rules \ born /\ rules'[r].used = Nothing
      BY <2>2
    <3>2. Cardinality(RunsOf(r)) = 0 /\ spent[r] = 0
      BY <3>1, RunsCounted DEF BudgetInv
    <3> QED BY <1>1, <3>1, <3>2 DEF Covered, Nothing
  <2> QED BY <2>1, <2>2
<1>4. ASSUME NEW d \in deliveries', d.phase \in Active, d.id.rule \in DOMAIN rules'
      PROVE  Charged(d.id, rules[d.id.rule].used)'
  <2> DEFINE i == d.id
             u == rules[i.rule].used
  <2>1. rules'[i.rule].used = u /\ Charged(i, u)
    BY <1>4 DEF BudgetInv
  <2> HIDE DEF i
  <2>2. Repays(worker, i, u)'
    BY <2>1 DEF Charged, Repays, NoRun, Reporting
  <2>3. Repays(pump, i, u)'
    BY <2>1 DEF Charged, Repays
  <2> QED BY <1>1, <1>2, <2>1, <2>2, <2>3 DEF Charged, NoRun, i
<1>5. worker'.pc = "running" => Ran(worker.id)'
  BY <1>2 DEF BudgetInv, NoRun
<1> QED BY <1>3, <1>4, <1>5 DEF BudgetInv

(* A charge that no step has touched.                                      *)
LEMMA ChargeKept ==
    ASSUME NEW i, NEW u, Charged(i, u), UNCHANGED <<ran, spent, worker>>,
           pump' = pump \/ pump'.pc \notin Reporting
    PROVE  Charged(i, u)'
<1>1. RunsOf(i.rule)' = RunsOf(i.rule) /\ Ran(i)' = Ran(i)
  BY DEF RunsOf, Ran
<1>2. Repays(worker, i, u)' /\ Repays(pump, i, u)'
  BY DEF Charged, Repays
<1> QED BY <1>1, <1>2 DEF Charged

(* A reservation charges its rule before anything is executed.             *)
LEMMA ReservingBudget ==
    ASSUME FrozenInv, BudgetInv, NEW r \in DOMAIN rules, CanReserve(rules[r]),
           NEW q \in TypeRule, q.spec = rules[r].spec, q.used = rules[r].used,
           NEW occ, NEW ACTION ok, NEW ACTION failed,
           ReserveDelivery(r, q, occ, ok, failed),
           UNCHANGED <<ran, spent, worker, born>>,
           pump' = pump \/ pump'.pc \notin Reporting
    PROVE  BudgetInv'
<1> DEFINE p == [q EXCEPT !.used = Plus(q.used, Reservation(q.spec))]
           d == [id |-> Id(r, q.spec, occ), phase |-> "Reserved", finished |-> 0]
           i == Id(r, q.spec, occ)
           u == rules[r].used
           v == p.used
<1>0. TypeInv
  BY DEF FrozenInv
<1>1. PICK kept \in Trimmed :
         \/ rules' = Put(r, p) /\ deliveries' = kept \cup {d}
         \/ UNCHANGED <<rules, deliveries>>
  BY Zenon DEF ReserveDelivery, Write
<1>2. kept \subseteq deliveries
  BY DEF Trimmed
<1>3. d.id = i /\ i.rule = r /\ i.spec = q.spec
  BY DEF Id
<1>4. ~Known(i) /\ ~Unsettled(r)
  BY DEF ReserveDelivery, Deliverable
<1>5. v.runs = u.runs + 1 /\ v.tokens = u.tokens + q.spec.runTokens
  <2>1. v = Plus(u, Reservation(q.spec))
    BY DEF TypeRule
  <2> QED BY <2>1 DEF Plus, Reservation
<1>6. /\ u.runs \in Nat /\ u.tokens \in Nat /\ q.spec.runs \in Nat
      /\ q.spec.tokens \in Nat /\ q.spec.runTokens \in Nat
      /\ spent[r] \in Nat /\ Cardinality(RunsOf(r)) \in Nat
  BY <1>0, RuleOf, SpecFacts, RunsCounted DEF TypeInv, RunType, Consumption
<1>7. u.runs < q.spec.runs /\ u.tokens + q.spec.runTokens <= q.spec.tokens
  BY DEF CanReserve
<1>8. Cardinality(RunsOf(r)) <= u.runs /\ spent[r] <= u.tokens
  BY DEF BudgetInv, Covered
<1> HIDE DEF p, d, i, u, v
<1>9. CASE UNCHANGED <<rules, deliveries>>
  BY <1>0, <1>9, BudgetKept
<1>10. CASE rules' = Put(r, p) /\ deliveries' = kept \cup {d}
  <2>1. \A x : RunsOf(x)' = RunsOf(x)
    BY DEF RunsOf
  <2>2. /\ DOMAIN rules' = DOMAIN rules /\ rules'[r].used = v
        /\ \A x \in DOMAIN rules : x # r => rules'[x] = rules[x]
    BY <1>10 DEF Put, v
  <2>3. Covered(r, v)' /\ Charged(i, v)'
    <3>1. /\ Cardinality(RunsOf(r)) < v.runs /\ v.runs <= q.spec.runs
          /\ spent[r] + q.spec.runTokens <= v.tokens /\ v.tokens <= q.spec.tokens
      BY <1>5, <1>6, <1>7, <1>8
    <3>2. Cardinality(RunsOf(r)) <= v.runs /\ spent[r] <= v.tokens
      BY <1>5, <1>6, <1>8
    <3>3. worker.pc \in {"running"} \cup Reporting => worker.id # i
      BY <1>0, <1>4 DEF FrozenInv, PumpHolds, Held, Known, Reporting, TypeInv, RunType,
         TypeWorker, NoRun, TypeReport
    <3>4. pump.pc \in Reporting => pump.id # i
      BY <1>4 DEF FrozenInv, PumpHolds, Held, Known, Reporting
    <3>5. Repays(worker, i, v)' /\ Repays(pump, i, v)'
      BY <3>3, <3>4 DEF Repays
    <3> QED BY <1>3, <2>1, <3>1, <3>2, <3>3, <3>5 DEF Covered, Charged
  <2>4. ASSUME NEW x \in DOMAIN rules PROVE Covered(x, rules[x].used)'
    <3>1. CASE x = r
      BY <2>2, <2>3, <3>1
    <3>2. CASE x # r
      BY <2>1, <2>2, <3>2 DEF BudgetInv, Covered
    <3> QED BY <3>1, <3>2
  <2>5. ASSUME NEW e \in deliveries', e.phase \in Active, e.id.rule \in DOMAIN rules
        PROVE  Charged(e.id, rules[e.id.rule].used)'
    <3>1. CASE e = d
      BY <1>3, <2>2, <2>3, <3>1
    <3>2. CASE e \in kept
      <4>1. e \in deliveries /\ e.id.rule # r
        BY <1>2, <1>4, <2>5, <3>2 DEF Unsettled
      <4>2. Charged(e.id, rules[e.id.rule].used)
        BY <2>5, <4>1 DEF BudgetInv
      <4>3. Charged(e.id, rules[e.id.rule].used')
        BY <2>2, <2>5, <4>1, <4>2
      <4> QED BY <2>2, <2>5, <4>1, <4>2, ChargeKept
    <3> QED BY <1>10, <2>5, <3>1, <3>2
  <2>6. (worker.pc = "running" => Ran(worker.id))'
    BY DEF BudgetInv, Ran
  <2> QED BY <2>2, <2>4, <2>5, <2>6 DEF BudgetInv
<1> QED BY <1>1, <1>9, <1>10

(* Settling a delivery ends its charge: its rule only stays covered.       *)
LEMMA SettlingBudget ==
    ASSUME FrozenInv, BudgetInv, NEW d \in deliveries, d.phase \in Active,
           NEW phase \in Settled, NEW actual \in SUBSET Consumption,
           d.id.rule \in DOMAIN rules => \A a \in actual :
              Covered(d.id.rule, Reconcile(rules[d.id.rule].used,
                                           Reservation(d.id.spec), a)),
           NEW ACTION ok, NEW ACTION failed,
           Settle(d, phase, actual, ok, failed),
           UNCHANGED <<ran, spent, worker, born>>,
           pump' = pump \/ pump'.pc \notin Reporting
    PROVE  BudgetInv'
<1> DEFINE r == d.id.rule
           c == IF actual = {} THEN rules[r].used
                ELSE Reconcile(rules[r].used, Reservation(d.id.spec),
                               CHOOSE a \in actual : TRUE)
           p == [rules[r] EXCEPT !.used = c]
           q == IF CanReserve(p) THEN p ELSE [p EXCEPT !.phase = "Exhausted"]
           e == [d EXCEPT !.phase = phase, !.finished = now]
<1>0. TypeInv
  BY DEF FrozenInv
<1>1. \/ /\ rules' = IF r \in DOMAIN rules THEN Put(r, q) ELSE rules
         /\ deliveries' = (deliveries \ {d}) \cup {e}
      \/ UNCHANGED <<rules, deliveries>>
  BY Zenon DEF Settle, Write
<1>2. e.id = d.id /\ e.phase \notin Active
  BY <1>0 DEF TypeInv, DocType, TypeDelivery, Active, Settled, Results
<1>3. ASSUME r \in DOMAIN rules PROVE q.used = c /\ Covered(r, c)
  <2>1. rules[r] \in TypeRule
    BY <1>0, <1>3, RuleOf
  <2>2. p.used = c /\ [p EXCEPT !.phase = "Exhausted"].used = c
    BY <2>1 DEF TypeRule
  <2>3. Covered(r, c)
    BY <1>3 DEF BudgetInv
  <2> HIDE DEF p
  <2> QED BY <2>2, <2>3
<1> HIDE DEF q, c, e
<1>4. CASE UNCHANGED <<rules, deliveries>>
  BY <1>0, <1>4, BudgetKept
<1>5. CASE /\ rules' = IF r \in DOMAIN rules THEN Put(r, q) ELSE rules
           /\ deliveries' = (deliveries \ {d}) \cup {e}
  <2>1. \A x : RunsOf(x)' = RunsOf(x)
    BY DEF RunsOf
  <2>2. /\ DOMAIN rules' = DOMAIN rules
        /\ r \in DOMAIN rules => rules'[r].used = c
        /\ \A x \in DOMAIN rules : x # r => rules'[x] = rules[x]
    BY <1>3, <1>5 DEF Put
  <2>3. ASSUME NEW x \in DOMAIN rules PROVE Covered(x, rules[x].used)'
    BY <1>3, <2>1, <2>2 DEF BudgetInv, Covered
  <2>4. ASSUME NEW f \in deliveries', f.phase \in Active, f.id.rule \in DOMAIN rules
        PROVE  Charged(f.id, rules[f.id.rule].used)'
    <3>1. f \in deliveries /\ f.id.rule # r
      BY <1>2, <1>5, <2>4 DEF FrozenInv, ReservationFrozen
    <3>2. Charged(f.id, rules[f.id.rule].used)
      BY <2>4, <3>1 DEF BudgetInv
    <3> QED BY <2>2, <2>4, <3>1, <3>2, ChargeKept
  <2>5. (worker.pc = "running" => Ran(worker.id))'
    BY DEF BudgetInv, Ran
  <2> QED BY <2>2, <2>3, <2>4, <2>5 DEF BudgetInv
<1> QED BY <1>1, <1>4, <1>5

(* What settling leaves as used.                                           *)
LEMMA Reconciled ==
    ASSUME NEW u \in Consumption, NEW s \in Specs, NEW a \in Consumption
    PROVE  LET v == Reconcile(u, Reservation(s), a)
           IN  /\ v.runs = Monus(u.runs, 1) + a.runs
               /\ v.tokens = Monus(u.tokens, s.runTokens) + a.tokens
BY DEF Reconcile, Plus, Reservation

(* A run that reports gives back no more than it left.                     *)
LEMMA ReportCovers ==
    ASSUME TypeInv, NEW i \in Ids, i.rule \in DOMAIN rules, NEW rep,
           Covered(i.rule, rules[i.rule].used), Repays(rep, i, rules[i.rule].used),
           rep.pc \in Reporting, rep.id = i,
           NEW a \in rep.actual, a \in Consumption
    PROVE  Covered(i.rule, Reconcile(rules[i.rule].used, Reservation(i.spec), a))
<1> DEFINE u == rules[i.rule].used
<1>1. PICK n \in Nat, t \in Nat :
         n = Cardinality(RunsOf(i.rule)) /\ t = spent[i.rule]
  BY RuleOf, RunsCounted DEF TypeInv, RunType
<1>2. u \in Consumption /\ i.spec \in Specs /\ i.spec.runTokens \in Nat
  BY RuleOf, SpecFacts DEF Ids
<1>3. /\ u.runs \in Nat /\ u.tokens \in Nat /\ a.tokens \in Nat
      /\ a.runs = 1 /\ t + i.spec.runTokens <= u.tokens + a.tokens /\ n <= u.runs
  BY <1>1, <1>2 DEF Repays, Covered, Consumption
<1>4. n <= Monus(u.runs, 1) + 1
  BY <1>3 DEF Monus
<1>5. t <= Monus(u.tokens, i.spec.runTokens) + a.tokens
  BY <1>2, <1>3 DEF Monus
<1> QED BY <1>1, <1>2, <1>3, <1>4, <1>5, Reconciled DEF Covered

(* A reservation that was never executed can be given back.                *)
LEMMA UnusedCovers ==
    ASSUME TypeInv, NEW i \in Ids, i.rule \in DOMAIN rules,
           Charged(i, rules[i.rule].used), ~Ran(i)
    PROVE  Covered(i.rule, Reconcile(rules[i.rule].used, Reservation(i.spec), Nothing))
<1> DEFINE u == rules[i.rule].used
<1>1. PICK n \in Nat, t \in Nat :
         n = Cardinality(RunsOf(i.rule)) /\ t = spent[i.rule]
  BY RuleOf, RunsCounted DEF TypeInv, RunType
<1>2. u \in Consumption /\ i.spec \in Specs /\ i.spec.runTokens \in Nat
  BY RuleOf, SpecFacts DEF Ids
<1>3. /\ u.runs \in Nat /\ u.tokens \in Nat
      /\ n < u.runs /\ t + i.spec.runTokens <= u.tokens
  BY <1>1, <1>2 DEF Charged, Consumption
<1>4. /\ n <= Monus(u.runs, 1) + 0
      /\ t <= Monus(u.tokens, i.spec.runTokens) + 0
  BY <1>2, <1>3 DEF Monus
<1>5. Nothing \in Consumption /\ Nothing.runs = 0 /\ Nothing.tokens = 0
  BY DEF Nothing, Consumption
<1> QED BY <1>1, <1>2, <1>4, <1>5, Reconciled DEF Covered

(* No command of the user forgets what was used, and RunNow reserves.      *)
LEMMA BudgetOfUser == FrozenInv /\ BudgetInv /\ User => BudgetInv'
<1> SUFFICES ASSUME FrozenInv, BudgetInv, User PROVE BudgetInv'
  OBVIOUS
<1>0. TypeInv
  BY DEF FrozenInv
<1>1. UNCHANGED <<pump, worker, ran, spent>>
  BY DEF User, Create, Edit, Review, Pause, Resume, Delete, Confirm, RunNow,
     Reload, Command, runVars
<1>2. ASSUME deliveries' = deliveries, born \subseteq born',
             \A x \in DOMAIN rules' :
                IF x \in DOMAIN rules THEN rules'[x].used = rules[x].used
                ELSE x \in Rules \ born /\ rules'[x].used = Nothing
      PROVE  BudgetInv'
  <2>1. \A d \in deliveries' : d.id.rule \in DOMAIN rules' => d.id.rule \in DOMAIN rules
    BY <1>2 DEF FrozenInv, Records
  <2> QED BY <1>0, <1>1, <1>2, <2>1, BudgetKept
<1>3. ASSUME NEW r, NEW q, Command(r, q), born \subseteq born',
             IF r \in DOMAIN rules THEN q.used = rules[r].used
             ELSE r \in Rules \ born /\ q.used = Nothing
      PROVE  BudgetInv'
  <2>1. (rules' = rules \/ rules' = Put(r, q)) /\ deliveries' = deliveries
    BY <1>3, Zenon DEF Command, Write
  <2> QED BY <1>2, <1>3, <2>1 DEF Put
<1>4. ASSUME NEW r \in Rules, NEW s \in Specs, Create(r, s) PROVE BudgetInv'
  <2>1. PICK q : Command(r, q) /\ born' = born \cup {r} /\ r \notin born
                 /\ q.used = Nothing
    BY <1>4 DEF Create
  <2>2. r \notin DOMAIN rules
    BY <1>0, <2>1, RuleOf
  <2> QED BY <1>3, <2>1, <2>2
<1>5. ASSUME NEW r \in Rules, NEW s \in Specs, Edit(r, s) PROVE BudgetInv'
  <2> DEFINE q == [rules[r] EXCEPT !.spec = s, !.rev = @ + 1, !.auth = {},
                   !.review = {}, !.phase = "Draft", !.next = {}]
  <2>1. r \in DOMAIN rules /\ born' = born /\ Command(r, q)
    BY <1>5 DEF Edit, Revise, userVars
  <2>2. q.used = rules[r].used
    BY <1>0, <2>1, RuleOf DEF TypeRule
  <2> HIDE DEF q
  <2> QED BY <1>3, <2>1, <2>2
<1>6. ASSUME NEW r \in Rules, Review(r) \/ Pause(r) \/ Resume(r)
      PROVE  BudgetInv'
  <2>1. PICK q : /\ r \in DOMAIN rules /\ Command(r, q) /\ born' = born
                 /\ q.used = rules[r].used
    <3>1. CASE Review(r)
      <4> DEFINE w == [rule |-> r,
                       nonce |-> Cardinality({v \in issued : v.rule = r}),
                       rev |-> rules[r].rev, spec |-> rules[r].spec]
      <4>1. /\ r \in DOMAIN rules /\ born' = born
            /\ Command(r, [rules[r] EXCEPT !.review = {w}])
        BY <3>1 DEF Review, Revise
      <4> HIDE DEF w
      <4>2. [rules[r] EXCEPT !.review = {w}].used = rules[r].used
        BY <1>0, <4>1, RuleOf DEF TypeRule
      <4> QED BY <4>1, <4>2
    <3>2. CASE Pause(r)
      <4> DEFINE q == [rules[r] EXCEPT !.rev = @ + 1, !.phase = "Paused",
                                       !.review = {}]
      <4>1. r \in DOMAIN rules /\ born' = born /\ Command(r, q)
        BY <3>2 DEF Pause, Revise, userVars
      <4>2. q.used = rules[r].used
        BY <1>0, <4>1, RuleOf DEF TypeRule
      <4> QED BY <4>1, <4>2
    <3>3. CASE Resume(r)
      <4> DEFINE q == [rules[r] EXCEPT !.rev = @ + 1, !.phase = "Enabled"]
      <4>1. r \in DOMAIN rules /\ born' = born /\ Command(r, q)
        BY <3>3 DEF Resume, Revise, userVars
      <4>2. q.used = rules[r].used
        BY <1>0, <4>1, RuleOf DEF TypeRule
      <4> QED BY <4>1, <4>2
    <3> QED BY <1>6, <3>1, <3>2, <3>3
  <2> QED BY <1>3, <2>1
<1>7. ASSUME NEW r \in Rules, Delete(r) PROVE BudgetInv'
  <2>1. /\ born' = born /\ deliveries' = deliveries
        /\ rules' = rules \/ rules' = [x \in DOMAIN rules \ {r} |-> rules[x]]
    BY <1>7 DEF Delete, Write, userVars
  <2> QED BY <1>2, <2>1
<1>8. ASSUME NEW v \in issued, Confirm(v) PROVE BudgetInv'
  <2> DEFINE r == v.rule
             n == IF rules[r].spec.kind = "job" THEN rules[r].next
                  ELSE First(rules[r].spec, now)
             q == [rules[r] EXCEPT !.rev = @ + 1, !.auth = {rules[r].spec},
                       !.review = {}, !.phase = "Enabled", !.last = {},
                       !.next = n]
  <2>1. r \in DOMAIN rules /\ Command(r, q) /\ born' = born
    BY <1>8, Zenon DEF Confirm, Revise
  <2>2. q.used = rules[r].used
    <3> HIDE DEF n
    <3> QED BY <1>0, <2>1, RuleOf DEF TypeRule
  <2> HIDE DEF q
  <2> QED BY <1>3, <2>1, <2>2
<1>9. ASSUME NEW r \in Rules, NEW o \in Requests, RunNow(r, o)
      PROVE  BudgetInv'
  <2>1. r \in DOMAIN rules /\ ReserveDelivery(r, rules[r], o, TRUE, TRUE)
        /\ born' = born /\ CanReserve(rules[r])
    BY <1>9 DEF RunNow, Enabled, userVars
  <2> QED BY <1>0, <1>1, <2>1, RuleOf, ReservingBudget
<1>10. CASE Reload
  <2>1. UNCHANGED <<rules, deliveries, born>>
    BY <1>10 DEF Reload, userVars
  <2> QED BY <1>2, <2>1
<1> QED BY <1>4, <1>5, <1>7, <1>8, <1>9, <1>10, <1>6 DEF User

(* A step that leaves the document, the runs and the worker alone.         *)
LEMMA BudgetIdle ==
    ASSUME TypeInv, BudgetInv, UNCHANGED <<ran, spent, worker, rules, deliveries, born>>,
           \/ pump'.pc \notin Reporting
           \/ pump'.pc \in Reporting /\ pump'.actual = {}
    PROVE  BudgetInv'
BY BudgetKept

(* A running execution consumes at most what was charged for it.           *)
LEMMA Consumed ==
    ASSUME FrozenInv, BudgetInv, NEW i \in Ids, worker.pc = "running", worker.id = i,
           NEW t \in Spends, spent' = [spent EXCEPT ![i.rule] = @ + t],
           UNCHANGED <<rules, deliveries, ran, born>>, pump'.pc \notin Reporting,
           \/ worker' = NoRun
           \/ /\ worker'.pc = "ended" /\ worker'.id = i
              /\ \A a \in worker'.actual : a.runs = 1 /\ a.tokens = t
    PROVE  BudgetInv'
<1>0. TypeInv /\ Ran(i)
  BY DEF FrozenInv, BudgetInv
<1>1. PICK d \in deliveries : d.id = i /\ d.phase \in Active
  BY DEF FrozenInv, PumpHolds, Held
<1>2. i.rule \in Rules /\ i.rule \in born /\ i.spec \in Specs
  BY <1>0, <1>1 DEF Ids, FrozenInv, Records
<1>3. t \in Nat /\ i.spec.runTokens \in Nat /\ t <= i.spec.runTokens
  BY <1>2, SpecFacts, SpecAssumption
<1>4. /\ spent'[i.rule] = spent[i.rule] + t /\ spent[i.rule] \in Nat
      /\ \A r \in Rules : r # i.rule => spent'[r] = spent[r]
  BY <1>0, <1>2 DEF TypeInv, RunType
<1>5. (\A x : RunsOf(x)' = RunsOf(x)) /\ (\A x : Ran(x)' = Ran(x))
  BY DEF RunsOf, Ran
<1>6. worker'.pc # "running" /\ (worker'.pc \in Reporting => worker'.id = i)
  BY DEF NoRun, Reporting
<1>7. ASSUME i.rule \in DOMAIN rules, NEW u \in Consumption, Charged(i, u)
      PROVE  Charged(i, u)' /\ spent'[i.rule] <= u.tokens
  <2>1. PICK m \in Nat, n \in Nat, k \in Nat :
          m = u.tokens /\ n = spent[i.rule] /\ k = i.spec.runTokens
    BY <1>3, <1>4 DEF Consumption
  <2>2. n + k <= m /\ t <= k /\ spent'[i.rule] = n + t
    BY <1>3, <1>4, <1>7, <2>1 DEF Charged
  <2>3. n + t <= m /\ (n + t) + k <= m + t
    BY <1>3, <2>2
  <2>4. Repays(worker, i, u)'
    BY <1>3, <2>1, <2>2, <2>3 DEF Repays, NoRun, Reporting
  <2>5. Repays(pump, i, u)'
    BY DEF Repays
  <2> QED BY <1>0, <1>5, <1>6, <1>7, <2>1, <2>2, <2>3, <2>4, <2>5 DEF Charged
<1>8. ASSUME NEW r \in DOMAIN rules PROVE Covered(r, rules[r].used)'
  <2>1. CASE r = i.rule
    <3>1. Charged(i, rules[r].used) /\ rules[r].used \in Consumption
      BY <1>0, <1>1, <2>1, RuleOf DEF BudgetInv
    <3>2. spent'[r] <= rules[r].used.tokens
      BY <1>7, <2>1, <3>1
    <3> QED BY <1>5, <3>2 DEF BudgetInv, Covered
  <2>2. CASE r # i.rule
    <3>1. spent'[r] = spent[r]
      BY <1>0, <1>4, <2>2, RuleOf
    <3> QED BY <1>5, <3>1 DEF BudgetInv, Covered
  <2> QED BY <2>1, <2>2
<1>9. ASSUME NEW e \in deliveries, e.phase \in Active, e.id.rule \in DOMAIN rules
      PROVE  Charged(e.id, rules[e.id.rule].used)'
  <2>0. Charged(e.id, rules[e.id.rule].used)
    BY <1>9 DEF BudgetInv
  <2>1. CASE e.id.rule = i.rule
    <3>1. e.id = i
      BY <1>1, <1>9, <2>1 DEF FrozenInv, ReservationFrozen
    <3>2. rules[i.rule].used \in Consumption
      BY <1>0, <1>9, <2>1, RuleOf
    <3>3. Charged(i, rules[i.rule].used)'
      BY <1>7, <1>9, <2>0, <2>1, <3>1, <3>2
    <3> QED BY <3>1, <3>3
  <2>2. CASE e.id.rule # i.rule
    <3>1. spent'[e.id.rule] = spent[e.id.rule]
      BY <1>0, <1>4, <1>9, <2>2, RuleOf
    <3>2. e.id # i
      BY <2>2
    <3>3. ASSUME NEW j, NEW u, j # i, spent'[j.rule] = spent[j.rule], Charged(j, u)
          PROVE  Charged(j, u)'
      BY <1>5, <1>6, <3>3 DEF Charged, Repays
    <3>4. Charged(e.id, rules[e.id.rule].used)'
      BY <2>0, <3>1, <3>2, <3>3
    <3> QED BY <3>4
  <2> QED BY <2>1, <2>2
<1>10. \A r \in Rules \ born : spent'[r] = 0
  BY <1>2, <1>4 DEF BudgetInv
<1> QED BY <1>6, <1>8, <1>9, <1>10 DEF BudgetInv

(* The execution that begins is one its rule was charged for.              *)
LEMMA Admitted ==
    ASSUME FrozenInv, BudgetInv, NEW i \in Ids, ~Ran(i), ran' = Append(ran, i),
           UNCHANGED <<rules, deliveries, spent, born>>,
           worker' = [pc |-> "running", id |-> i], pump'.pc = "publish",
           NEW d \in deliveries, d.id = i, d.phase \in Active
    PROVE  BudgetInv'
<1>0. TypeInv /\ i.rule \in born
  BY DEF FrozenInv, Records
<1>1. \A r : Cardinality(RunsOf(r))' =
                 Cardinality(RunsOf(r)) + (IF r = i.rule THEN 1 ELSE 0)
  BY <1>0, RunsAppended
<1>2. /\ \A x : Ran(x)' <=> Ran(x) \/ x = i
      /\ \A n \in DOMAIN ran' : ran'[n] = i \/ \E m \in DOMAIN ran : ran'[n] = ran[m]
  BY <1>0, RunsAppended
<1>3. worker'.pc = "running" /\ worker'.id = i
  OBVIOUS
<1>4. \A x : Cardinality(RunsOf(x)) \in Nat
  BY <1>0, RunsCounted
<1>5. ASSUME NEW r \in DOMAIN rules PROVE Covered(r, rules[r].used)'
  <2>1. CASE r = i.rule
    <3>1. Charged(i, rules[r].used) /\ Covered(r, rules[r].used)
          /\ rules[r].used \in Consumption
      BY <1>0, <2>1, RuleOf DEF BudgetInv
    <3>2. PICK n \in Nat, m \in Nat : n = Cardinality(RunsOf(r)) /\ m = rules[r].used.runs
      BY <1>4, <3>1 DEF Consumption
    <3>3. n + 1 <= m
      BY <2>1, <3>1, <3>2 DEF Charged
    <3> QED BY <1>1, <2>1, <3>1, <3>2, <3>3 DEF Covered
  <2>2. CASE r # i.rule
    BY <1>1, <1>4, <2>2 DEF BudgetInv, Covered
  <2> QED BY <2>1, <2>2
<1>6. ASSUME NEW e \in deliveries, e.phase \in Active, e.id.rule \in DOMAIN rules
      PROVE  Charged(e.id, rules[e.id.rule].used)'
  <2>1. Charged(e.id, rules[e.id.rule].used)
    BY <1>6 DEF BudgetInv
  <2>2. ASSUME NEW j, NEW u, Charged(j, u), j = i \/ j.rule # i.rule
        PROVE  Charged(j, u)'
    <3>1. Repays(worker, j, u)' /\ Repays(pump, j, u)'
      BY DEF Repays, Reporting
    <3>2. CASE j = i
      BY <1>2, <1>3, <2>2, <3>1, <3>2 DEF Charged
    <3>3. CASE j.rule # i.rule
      <4>1. j # i /\ Cardinality(RunsOf(j.rule))' = Cardinality(RunsOf(j.rule))
        BY <1>1, <1>4, <3>3
      <4> QED BY <1>2, <1>3, <2>2, <3>1, <4>1 DEF Charged
    <3> QED BY <2>2, <3>2, <3>3
  <2>3. e.id = i \/ e.id.rule # i.rule
    BY <1>6 DEF FrozenInv, ReservationFrozen
  <2> QED BY <2>1, <2>2, <2>3
<1>7. \A n \in DOMAIN ran' : ran'[n].rule \in born
  BY <1>0, <1>2 DEF BudgetInv
<1> QED BY <1>2, <1>3, <1>5, <1>6, <1>7 DEF BudgetInv

(* Every step of the pump keeps every reservation charged.                  *)
LEMMA BudgetOfPump ==
    OnceInv /\ FrozenInv /\ JournalInv /\ BudgetInv /\ Pump => BudgetInv'
<1> SUFFICES ASSUME OnceInv, FrozenInv, JournalInv, BudgetInv, Pump PROVE BudgetInv'
  OBVIOUS
<1>0. TypeInv /\ Records /\ PumpHolds /\ born' = born
  <2>1. PumpOnly
    BY DEF Pump, Tick, Recover, ClaimPending, ReserveDue, ReserveRefused, Yield,
       SlotTaken, Start, Admit, StartRefused, StartFails, Publish, RunEnds, Collect,
       Finish, FinishAdmitted, FinishSettle, FinishFaulted
  <2> QED BY <2>1 DEF FrozenInv, PumpOnly, userVars
<1>1. CASE Tick \/ ClaimPending \/ ReserveRefused \/ Yield \/ SlotTaken \/ FinishFaulted
           \/ StartRefused \/ StartFails
  <2>1. UNCHANGED <<ran, spent, worker, rules, deliveries>>
    BY <1>1 DEF Tick, ClaimPending, ReserveRefused, Yield, SlotTaken, FinishFaulted,
       StartRefused, StartFails, runVars, docVars
  <2>2. \/ pump'.pc \notin Reporting
        \/ pump'.pc \in Reporting /\ pump'.actual = {}
    BY <1>1 DEF Tick, ClaimPending, ReserveRefused, Yield, SlotTaken, FinishFaulted,
       StartRefused, StartFails, Goto, Report, Idle, Reporting
  <2> QED BY <1>0, <2>1, <2>2, BudgetIdle
<1>2. CASE Recover
  <2>1. PICK d \in deliveries : d.phase \in Active /\
           (RecoverAdmitted(d) \/ RecoverTerminal(d) \/ RecoverCancelled(d))
    BY <1>2 DEF Recover, Recoverable
  <2>2. UNCHANGED <<ran, spent, worker>> /\ (pump' = pump \/ pump' = Idle)
    BY <1>2 DEF Recover, RecoverAdmitted, RecoverTerminal, RecoverCancelled,
       Settle, Write, Goto, runVars
  <2>3. pump'.pc \notin Reporting
    BY <1>2, <2>2 DEF Recover, At, Idle, Reporting
  <2>4. CASE RecoverAdmitted(d)
    <3>1. \A x \in deliveries' : x \in deliveries \/ (x.id = d.id /\ x.phase = "Admitted")
      BY <1>0, <2>4, RephasingMakes DEF RecoverAdmitted
    <3>2. rules' = rules
      BY <2>4, Zenon DEF RecoverAdmitted, Write
    <3> QED BY <1>0, <2>1, <2>2, <2>3, <3>1, <3>2, BudgetKept
  <2>5. CASE RecoverTerminal(d)
    <3>1. Terminal(d.id) \in Settled
      BY <1>0 DEF Terminal, Receipt, TypeInv, RunType, Settled, Results
    <3>2. Settle(d, Terminal(d.id), {}, UNCHANGED pump, Goto(Idle))
      BY <2>5, Zenon DEF RecoverTerminal
    <3> QED BY <1>0, <2>1, <2>2, <2>3, <3>1, <3>2, SettlingBudget
  <2>6. CASE RecoverCancelled(d)
    <3>1. Settle(d, "Cancelled", {Nothing}, UNCHANGED pump, Goto(Idle)) /\ ~Receipt(d.id)
      BY <2>6, Zenon DEF RecoverCancelled
    <3>2. ~Ran(d.id)
      BY <3>1 DEF OnceInv, Ran, Receipt
    <3>3. d.id \in Ids /\ {Nothing} \in SUBSET Consumption /\ "Cancelled" \in Settled
      BY <1>0 DEF TypeInv, DocType, TypeDelivery, Nothing, Consumption, Settled
    <3>4. d.id.rule \in DOMAIN rules =>
             Covered(d.id.rule, Reconcile(rules[d.id.rule].used,
                                          Reservation(d.id.spec), Nothing))
      BY <1>0, <2>1, <3>2, <3>3, UnusedCovers DEF BudgetInv
    <3> QED BY <1>0, <2>1, <2>2, <2>3, <3>1, <3>3, <3>4, SettlingBudget
  <2> QED BY <2>1, <2>4, <2>5, <2>6
<1>3. CASE ReserveDue
  <2>1. PICK r \in Candidates :
           ReserveDelivery(r, Advanced(rules[r], Occurrence(r)), Occurrence(r),
               Goto([pc |-> "start",
                     id |-> Id(r, rules[r].spec, Occurrence(r))]),
               Goto(Idle))
    BY <1>3, Zenon DEF ReserveDue
  <2>2. Advanced(rules[r], Occurrence(r)).used = rules[r].used
    <3>1. rules[r] \in TypeRule
      BY <1>0, CandidateFacts, RuleOf
    <3> QED BY <3>1 DEF Advanced, TypeRule
  <2>3. pump'.pc \in {"start", "idle"} /\ UNCHANGED <<ran, spent, worker>>
    <3>1. PICK i : pump' = [pc |-> "start", id |-> i] \/ pump' = Idle
      BY <2>1, Zenon DEF ReserveDelivery, Write, Goto
    <3> QED BY <1>3, <3>1 DEF ReserveDue, runVars, Idle
  <2>4. pump'.pc \notin Reporting
    BY <2>3 DEF Reporting
  <2> QED BY <1>0, <2>1, <2>2, <2>3, <2>4, CandidateFacts, ReservingBudget
<1>4. CASE Admit
  <2>1. PICK i \in Ids : i = pump.id
    BY <1>0, <1>4, PumpFacts DEF Admit, At
  <2>2. /\ ran' = Append(ran, i) /\ UNCHANGED <<rules, deliveries, spent>>
        /\ worker' = [pc |-> "running", id |-> i] /\ pump'.pc = "publish"
        /\ ~Ran(i)
    BY <1>4, <2>1 DEF Admit, Goto, docVars, OnceInv, Ran, Receipt
  <2>3. PICK d \in deliveries : d.id = i /\ d.phase \in Active
    BY <1>0, <1>4, <2>1 DEF Admit, At, PumpHolds, Held
  <2> QED BY <1>0, <2>2, <2>3, Admitted
<1>5. CASE Publish
  <2>1. PICK d \in deliveries :
           /\ d.id = pump.id
           /\ Write(rules, Rephase(d, "Admitted"),
                    Goto([pc |-> "running"]), Goto([pc |-> "running"]))
    BY <1>5 DEF Publish
  <2>2. d.phase \in Active
    BY <1>0, <1>5, <2>1 DEF Publish, At, PumpHolds, Held, Records
  <2>3. \A x \in deliveries' : x \in deliveries \/ (x.id = d.id /\ x.phase = "Admitted")
    BY <1>0, <2>1, RephasingMakes
  <2>4. rules' = rules /\ pump' = [pc |-> "running"]
    BY <2>1, Zenon DEF Write, Goto
  <2>5. UNCHANGED <<ran, spent, worker>> /\ pump'.pc \notin Reporting
    BY <1>5, <2>4 DEF Publish, runVars, Reporting
  <2> QED BY <1>0, <2>2, <2>3, <2>4, <2>5, BudgetKept
<1>6. CASE RunEnds
  <2>1. PICK i \in Ids : i = worker.id
    BY <1>0, <1>6, PumpFacts DEF RunEnds
  <2>2. PICK t \in Spends, metered \in BOOLEAN :
           /\ spent' = [spent EXCEPT ![i.rule] = @ + t]
           /\ \E phase, receipt :
                 worker' = Report("ended", i, phase, receipt,
                     IF metered THEN {[runs |-> 1, tokens |-> t]} ELSE {})
    BY <1>6, <2>1, Zenon DEF RunEnds
  <2>3. /\ worker.pc = "running" /\ UNCHANGED <<pump, ran, rules, deliveries>>
        /\ pump.pc \notin Reporting
    BY <1>0, <1>6 DEF RunEnds, docVars, PumpHolds, Reporting
  <2>4. /\ worker'.pc = "ended" /\ worker'.id = i
        /\ \A a \in worker'.actual : a.runs = 1 /\ a.tokens = t
    BY <2>2 DEF Report
  <2> QED BY <1>0, <2>1, <2>2, <2>3, <2>4, Consumed
<1>7. CASE Collect
  <2>1. /\ UNCHANGED <<ran, spent, rules, deliveries>> /\ pump' = worker /\ worker' = NoRun
    BY <1>7 DEF Collect, Goto, docVars
  <2> QED BY <1>0, <2>1, BudgetKept
<1>8. CASE FinishAdmitted
  <2> DEFINE p == [pump EXCEPT !.pc = "settle", !.receipt = FALSE]
  <2>1. PICK d \in deliveries :
           /\ d.id = pump.id
           /\ Write(rules, Rephase(d, "Admitted"), Goto(p), Goto(Idle))
    BY <1>8 DEF FinishAdmitted
  <2>2. pump \in TypeReport({"ended", "refused", "settle"}) /\ pump.pc \in Reporting
    BY <1>0, <1>8, PumpFacts DEF FinishAdmitted, Reporting
  <2>3. d.phase \in Active
    BY <1>0, <1>8, <2>1 DEF FinishAdmitted, PumpHolds, Held, Records
  <2>4. \A x \in deliveries' : x \in deliveries \/ (x.id = d.id /\ x.phase = "Admitted")
    BY <1>0, <2>1, RephasingMakes
  <2>5. rules' = rules /\ (pump' = p \/ pump' = Idle)
    BY <2>1, Zenon DEF Write, Goto
  <2>6. p.id = pump.id /\ p.actual = pump.actual
    BY <2>2 DEF TypeReport
  <2>7. pump' = p \/ pump'.pc \notin Reporting
    BY <2>5 DEF Idle, Reporting
  <2>8. UNCHANGED <<ran, spent, worker>>
    BY <1>8 DEF FinishAdmitted, runVars
  <2> HIDE DEF p
  <2> QED BY <1>0, <2>2, <2>3, <2>4, <2>5, <2>6, <2>7, <2>8, BudgetKept
<1>9. CASE FinishSettle
  <2>1. PICK d \in deliveries :
           d.id = pump.id /\ Settle(d, pump.phase, pump.actual, Goto(Idle), Goto(Idle))
    BY <1>9 DEF FinishSettle
  <2>2. /\ pump.phase \in Settled /\ pump.actual \in SUBSET Consumption
        /\ pump.id \in Ids /\ pump.pc \in Reporting
    BY <1>0, <1>9, PumpFacts DEF FinishSettle, Settled, Reporting
  <2>3. d.phase \in Active
    BY <1>0, <1>9, <2>1 DEF FinishSettle, PumpHolds, Held, Records
  <2>4. pump' = Idle
    BY <2>1, Zenon DEF Settle, Write, Goto
  <2>5. UNCHANGED <<ran, spent, worker>> /\ pump'.pc \notin Reporting
    BY <1>9, <2>4 DEF FinishSettle, runVars, Idle, Reporting
  <2>6. ASSUME d.id.rule \in DOMAIN rules, NEW a \in pump.actual
        PROVE  Covered(d.id.rule, Reconcile(rules[d.id.rule].used,
                                            Reservation(d.id.spec), a))
    <3>1. /\ Covered(d.id.rule, rules[d.id.rule].used)
          /\ Repays(pump, d.id, rules[d.id.rule].used)
      BY <2>3, <2>6 DEF BudgetInv, Charged
    <3> QED BY <1>0, <2>1, <2>2, <2>6, <3>1, ReportCovers
  <2> QED BY <1>0, <2>1, <2>2, <2>3, <2>5, <2>6, SettlingBudget
<1> QED BY <1>1, <1>2, <1>3, <1>4, <1>5, <1>6, <1>7, <1>8, <1>9
       DEF Pump, Start, Finish

(* Every step keeps every rule covered and every reservation charged.      *)
LEMMA BudgetStep ==
    OnceInv /\ FrozenInv /\ JournalInv /\ BudgetInv /\ [Next]_vars => BudgetInv'
<1> SUFFICES ASSUME OnceInv, FrozenInv, JournalInv, BudgetInv, [Next]_vars
             PROVE  BudgetInv'
  OBVIOUS
<1>0. TypeInv
  BY DEF FrozenInv
<1>1. CASE Crash
  <2>1. /\ UNCHANGED <<rules, deliveries, ran, born>>
        /\ pump' = Idle /\ worker' = NoRun /\ pump'.pc \notin Reporting
    BY <1>1 DEF Crash, userVars, Idle, Reporting
  <2>2. CASE worker.pc = "running"
    <3>1. PICK i \in Ids : i = worker.id
      BY <1>0, <2>2, PumpFacts
    <3>2. PICK t \in Spends : spent' = [spent EXCEPT ![i.rule] = @ + t]
      BY <1>1, <2>2, <3>1 DEF Crash
    <3> QED BY <2>1, <2>2, <3>1, <3>2, Consumed
  <2>3. CASE worker.pc # "running"
    <3>1. spent' = spent
      BY <1>1, <2>3 DEF Crash
    <3> QED BY <1>0, <2>1, <3>1, BudgetKept
  <2> QED BY <2>2, <2>3
<1>2. CASE Advance \/ Rollback \/ JobEnds \/ UNCHANGED vars
  <2>1. UNCHANGED <<rules, deliveries, ran, spent, born, pump, worker>>
    BY <1>2 DEF Advance, Rollback, JobEnds, docVars, runVars, userVars, vars
  <2> QED BY <1>0, <2>1, BudgetKept
<1> QED BY <1>1, <1>2, BudgetOfUser, BudgetOfPump DEF Next, World

(* The record is true and every reservation charged, on top of what was    *)
(* proved of executions and reservations.                                  *)
RecordInv == OnceInv /\ FrozenInv /\ JournalInv /\ BudgetInv
(* Nothing is recorded, executed or used to begin with. *)
LEMMA RecordInit == Init => RecordInv
<1> SUFFICES ASSUME Init PROVE RecordInv
  OBVIOUS
<1>1. JournalInv
  BY DEF Init, JournalInv, ReportTrue, Reporting, Idle, NoRun
<1>2. BudgetInv
  BY DEF Init, BudgetInv, NoRun
<1> QED BY <1>1, <1>2, OnceInit, FrozenInit DEF RecordInv

(* The four invariants together are inductive.                             *)
LEMMA RecordStep == RecordInv /\ [Next]_vars => RecordInv'
BY OnceStep, FrozenStep, JournalStep, BudgetStep DEF RecordInv

(* The document never records less use than was executed and consumed, and *)
(* records an end of a run only as the journal has it, over crashes,       *)
(* failed saves, repayments and recoveries.                                *)
THEOREM RecordsAreTrue == Spec => []RecordIsTrue
<1>1. RecordInv => RecordIsTrue
  BY DEF RecordInv, JournalInv, DeliveryTrue, BudgetInv, Covered, RecordIsTrue
<1> QED BY <1>1, RecordInit, RecordStep, PTL DEF Spec

(* An execution begins only if the whole of it fits in the budget the user *)
(* confirmed, counting every earlier execution of its rule.                *)
THEOREM BudgetsHold == Spec => RunsWithinBudget
<1> DEFINE Fits == Begins => LET r == Begun.rule
                                 s == Begun.spec
                             IN  /\ Cardinality(RunsOf(r)) < s.runs
                                 /\ spent[r] + s.runTokens <= s.tokens
<1>1. RecordInv /\ ConsentInv /\ [Next]_vars => [Fits]_vars
  <2> SUFFICES ASSUME RecordInv, ConsentInv, [Next]_vars, Begins
               PROVE  /\ Cardinality(RunsOf(Begun.rule)) < Begun.spec.runs
                      /\ spent[Begun.rule] + Begun.spec.runTokens <= Begun.spec.tokens
    OBVIOUS
  <2>0. TypeInv
    BY DEF ConsentInv
  <2>1. Admit
    BY JournalGrows DEF Begins
  <2>2. PICK i \in Ids : i = pump.id /\ i = Begun
    BY <2>0, <2>1, PumpFacts DEF Admit, At, Begun, TypeInv, RunType
  <2>3. i.rule \in DOMAIN rules
    BY <2>1, <2>2 DEF Admit, ConsentInv, Claimed, Enabled
  <2>4. ~Ran(i)
    BY <2>1, <2>2 DEF Admit, RecordInv, OnceInv, Ran, Receipt
  <2>5. PICK d \in deliveries : d.id = i /\ d.phase \in Active
    BY <2>1, <2>2 DEF Admit, At, RecordInv, FrozenInv, PumpHolds, Held
  <2>6. Charged(i, rules[i.rule].used) /\ rules[i.rule].used \in Consumption
    BY <2>0, <2>3, <2>5, RuleOf DEF RecordInv, BudgetInv
  <2>7. /\ Cardinality(RunsOf(i.rule)) \in Nat /\ spent[i.rule] \in Nat
        /\ i.spec.runs \in Nat /\ i.spec.tokens \in Nat /\ i.spec.runTokens \in Nat
    BY <2>0, RunsCounted, SpecFacts DEF TypeInv, RunType, Ids
  <2>8. /\ Cardinality(RunsOf(i.rule)) < i.spec.runs
        /\ spent[i.rule] + i.spec.runTokens <= i.spec.tokens
    BY <2>4, <2>6, <2>7 DEF Charged, Consumption
  <2> QED BY <2>2, <2>8
<1> QED BY <1>1, RecordInit, RecordStep, ConsentInit, ConsentStep, PTL
       DEF Spec, RunsWithinBudget

-----------------------------------------------------------------------------
(* Occurrences *)

(* Division leaves a remainder smaller than the divisor.                   *)
LEMMA Quotient ==
    ASSUME NEW x \in Nat, NEW e \in Nat \ {0}
    PROVE  /\ x \div e \in Nat /\ e * (x \div e) <= x
           /\ x < e * (x \div e) + e
OBVIOUS

(* The next occurrence is after the time asked for, the latest is not.     *)
LEMMA AroundNow ==
    ASSUME NEW s \in Specs, NEW t \in Nat
    PROVE  /\ \A n \in After(s, t) : n \in Nat /\ t < n
           /\ \A o \in Latest(s, t) : o \in Nat /\ o <= t
<1>1. s.at \in Nat /\ s.every \in Nat \ {0}
  BY SpecFacts
<1>2. CASE s.kind = "at"
  BY <1>1, <1>2 DEF After, Latest
<1>3. CASE s.kind # "at" /\ t < s.at
  <2>1. After(s, t) = {s.at + s.every * 0}
    BY <1>3, Zenon DEF After
  <2>2. Latest(s, t) = {}
    BY <1>3, Zenon DEF Latest
  <2>3. s.every * 0 = 0
    BY <1>1
  <2> QED BY <1>1, <1>3, <2>1, <2>2, <2>3
<1>4. CASE s.kind # "at" /\ ~(t < s.at)
  <2>1. PICK x \in Nat : x = t - s.at
    BY <1>1, <1>4
  <2>2. PICK q \in Nat : q = x \div s.every /\ s.every * q <= x
                         /\ x < s.every * q + s.every
    BY <1>1, Quotient
  <2>3. After(s, t) = {s.at + s.every * (q + 1)} /\ Latest(s, t) = {s.at + s.every * q}
    BY <1>4, <2>1, <2>2 DEF After, Latest
  <2>4. s.every * (q + 1) = s.every * q + s.every /\ s.every * q \in Nat
    BY <1>1, <2>2
  <2> QED BY <1>1, <2>1, <2>2, <2>3, <2>4
<1> QED BY <1>2, <1>3, <1>4

(* A rule's next time is after the occurrence it reserved last under its   *)
(* present authorization.                                                  *)
Forward(q) == \A n \in q.next, o \in q.last : o < n
AdvanceInv == TypeInv /\ \A r \in DOMAIN rules : Forward(rules[r])

(* Writing one forward rule keeps all of them forward.                     *)
LEMMA ForwardWritten ==
    ASSUME AdvanceInv, NEW r, NEW q, Forward(q),
           rules' = rules \/ rules' = Put(r, q)
    PROVE  \A x \in DOMAIN rules' : Forward(rules'[x])
BY DEF AdvanceInv, Put

(* A reservation or a settlement moves no time of its own.                 *)
LEMMA ForwardKept ==
    ASSUME NEW q \in TypeRule, NEW c, Forward(q)
    PROVE  /\ Forward([q EXCEPT !.used = c])
           /\ Forward([[q EXCEPT !.used = c] EXCEPT !.phase = "Exhausted"])
BY DEF TypeRule, Forward

(* The pump moves a rule past the clock when it reserves.                  *)
LEMMA ForwardAdvanced ==
    ASSUME AdvanceInv, NEW r \in Candidates
    PROVE  Forward(Advanced(rules[r], Occurrence(r)))
<1> DEFINE s == rules[r].spec
<1>1. r \in DOMAIN rules /\ rules[r] \in TypeRule /\ s \in Specs /\ now \in Nat
      /\ Forward(rules[r])
  BY CandidateFacts, RuleOf DEF AdvanceInv
<1>2. CASE s.kind = "job"
  BY <1>1, <1>2 DEF Advanced
<1>3. CASE s.kind # "job"
  <2>1. Occurrence(r) \in Latest(s, now)
    BY <1>1, <1>3 DEF Candidates, Chosen, JobsDue, TimesDue, Occurrence
  <2>2. PICK t \in Nat, o \in Nat : t = now /\ o = Occurrence(r) /\ o <= t
    BY <1>1, <2>1, AroundNow
  <2>3. PICK after : after = After(s, now) /\ \A n \in after : n \in Nat /\ t < n
    BY <1>1, <2>2, AroundNow
  <2>4. Advanced(rules[r], Occurrence(r)) = [rules[r] EXCEPT !.next = after, !.last = {o}]
    BY <1>3, <2>2, <2>3 DEF Advanced
  <2>5. /\ [rules[r] EXCEPT !.next = after, !.last = {o}].next = after
        /\ [rules[r] EXCEPT !.next = after, !.last = {o}].last = {o}
    BY <1>1 DEF TypeRule
  <2>6. \A n \in after : o < n
    BY <2>2, <2>3
  <2> QED BY <2>4, <2>5, <2>6 DEF Forward
<1> QED BY <1>2, <1>3

(* Reserving with a forward rule keeps all rules forward.                   *)
LEMMA ForwardReserving ==
    ASSUME AdvanceInv, NEW r, NEW q \in TypeRule, Forward(q), NEW occ,
           NEW ACTION ok, NEW ACTION failed, ReserveDelivery(r, q, occ, ok, failed)
    PROVE  \A x \in DOMAIN rules' : Forward(rules'[x])
<1> DEFINE p == [q EXCEPT !.used = Plus(q.used, Reservation(q.spec))]
<1>1. rules' = rules \/ rules' = Put(r, p)
  BY Zenon DEF ReserveDelivery, Write
<1>2. Forward(p)
  BY ForwardKept
<1> HIDE DEF p
<1> QED BY <1>1, <1>2, ForwardWritten

(* Settling moves no time either.                                          *)
LEMMA ForwardSettling ==
    ASSUME AdvanceInv, NEW d \in deliveries, NEW phase, NEW actual,
           NEW ACTION ok, NEW ACTION failed, Settle(d, phase, actual, ok, failed)
    PROVE  \A x \in DOMAIN rules' : Forward(rules'[x])
<1> DEFINE r == d.id.rule
           c == IF actual = {} THEN rules[r].used
                ELSE Reconcile(rules[r].used, Reservation(d.id.spec),
                               CHOOSE a \in actual : TRUE)
           p == [rules[r] EXCEPT !.used = c]
           q == IF CanReserve(p) THEN p ELSE [p EXCEPT !.phase = "Exhausted"]
<1>1. rules' = rules \/ (r \in DOMAIN rules /\ rules' = Put(r, q))
  BY Zenon DEF Settle, Write
<1>2. ASSUME r \in DOMAIN rules PROVE Forward(q)
  <2>1. rules[r] \in TypeRule /\ Forward(rules[r])
    BY <1>2, RuleOf DEF AdvanceInv
  <2>2. Forward(p) /\ Forward([p EXCEPT !.phase = "Exhausted"])
    <3> HIDE DEF c
    <3> QED BY <2>1, ForwardKept
  <2> HIDE DEF p
  <2> QED BY <2>2
<1> HIDE DEF q
<1> QED BY <1>1, <1>2, ForwardWritten DEF AdvanceInv

(* No command of the user moves a next time back behind an occurrence.     *)
LEMMA ForwardOfUser == AdvanceInv /\ User => \A x \in DOMAIN rules' : Forward(rules'[x])
<1> SUFFICES ASSUME AdvanceInv, User
             PROVE  \A x \in DOMAIN rules' : Forward(rules'[x])
  OBVIOUS
<1>0. TypeInv
  BY DEF AdvanceInv
<1> DEFINE Goal == \A x \in DOMAIN rules' : Forward(rules'[x])
<1>1. ASSUME NEW r, NEW q, Command(r, q), Forward(q) PROVE Goal
  <2>1. rules' = rules \/ rules' = Put(r, q)
    BY <1>1, Zenon DEF Command, Write
  <2> QED BY <1>1, <2>1, ForwardWritten
<1>2. ASSUME NEW r \in Rules, NEW s \in Specs, Create(r, s) PROVE Goal
  <2>1. PICK q : Command(r, q) /\ q.next = {}
    BY <1>2 DEF Create
  <2> QED BY <1>1, <2>1 DEF Forward
<1>3. ASSUME NEW r \in Rules, NEW s \in Specs, Edit(r, s) PROVE Goal
  <2> DEFINE q == [rules[r] EXCEPT !.spec = s, !.rev = @ + 1, !.auth = {},
                   !.review = {}, !.phase = "Draft", !.next = {}]
  <2>1. r \in DOMAIN rules /\ Command(r, q)
    BY <1>3 DEF Edit, Revise
  <2>2. Forward(q)
    BY <1>0, <2>1, RuleOf DEF TypeRule, Forward
  <2> HIDE DEF q
  <2> QED BY <1>1, <2>1, <2>2
<1>4. ASSUME NEW r \in Rules, Review(r) \/ Pause(r) \/ Resume(r) PROVE Goal
  <2>1. PICK q : /\ r \in DOMAIN rules /\ Command(r, q)
                 /\ q.next = rules[r].next /\ q.last = rules[r].last
    <3>1. CASE Review(r)
      <4> DEFINE w == [rule |-> r,
                       nonce |-> Cardinality({v \in issued : v.rule = r}),
                       rev |-> rules[r].rev, spec |-> rules[r].spec]
      <4>1. r \in DOMAIN rules /\ Command(r, [rules[r] EXCEPT !.review = {w}])
        BY <3>1 DEF Review, Revise
      <4> HIDE DEF w
      <4>2. /\ [rules[r] EXCEPT !.review = {w}].next = rules[r].next
            /\ [rules[r] EXCEPT !.review = {w}].last = rules[r].last
        BY <1>0, <4>1, RuleOf DEF TypeRule
      <4> QED BY <4>1, <4>2
    <3>2. CASE Pause(r)
      <4> DEFINE q == [rules[r] EXCEPT !.rev = @ + 1, !.phase = "Paused",
                                       !.review = {}]
      <4>1. r \in DOMAIN rules /\ Command(r, q)
        BY <3>2 DEF Pause, Revise
      <4>2. q.next = rules[r].next /\ q.last = rules[r].last
        BY <1>0, <4>1, RuleOf DEF TypeRule
      <4> QED BY <4>1, <4>2
    <3>3. CASE Resume(r)
      <4> DEFINE q == [rules[r] EXCEPT !.rev = @ + 1, !.phase = "Enabled"]
      <4>1. r \in DOMAIN rules /\ Command(r, q)
        BY <3>3 DEF Resume, Revise
      <4>2. q.next = rules[r].next /\ q.last = rules[r].last
        BY <1>0, <4>1, RuleOf DEF TypeRule
      <4> QED BY <4>1, <4>2
    <3> QED BY <1>4, <3>1, <3>2, <3>3
  <2> QED BY <1>1, <2>1 DEF AdvanceInv, Forward
<1>5. ASSUME NEW r \in Rules, Delete(r) PROVE Goal
  <2>1. rules' = rules \/ rules' = [x \in DOMAIN rules \ {r} |-> rules[x]]
    BY <1>5 DEF Delete, Write
  <2> QED BY <2>1 DEF AdvanceInv
<1>6. ASSUME NEW v \in issued, Confirm(v) PROVE Goal
  <2> DEFINE r == v.rule
             n == IF rules[r].spec.kind = "job" THEN rules[r].next
                  ELSE First(rules[r].spec, now)
             q == [rules[r] EXCEPT !.rev = @ + 1, !.auth = {rules[r].spec},
                       !.review = {}, !.phase = "Enabled", !.last = {},
                       !.next = n]
  <2>1. r \in DOMAIN rules /\ Command(r, q)
    BY <1>6, Zenon DEF Confirm, Revise
  <2>2. q.last = {}
    <3> HIDE DEF n
    <3> QED BY <1>0, <2>1, RuleOf DEF TypeRule
  <2> HIDE DEF q
  <2> QED BY <1>1, <2>1, <2>2 DEF Forward
<1>7. ASSUME NEW r \in Rules, NEW o \in Requests, RunNow(r, o) PROVE Goal
  <2>1. r \in DOMAIN rules /\ ReserveDelivery(r, rules[r], o, TRUE, TRUE)
    BY <1>7 DEF RunNow, Enabled
  <2> QED BY <1>0, <2>1, RuleOf, ForwardReserving DEF AdvanceInv
<1>8. CASE Reload
  BY <1>8 DEF Reload, AdvanceInv
<1> QED BY <1>2, <1>3, <1>4, <1>5, <1>6, <1>7, <1>8 DEF User

(* Every step of the pump keeps the rules forward.                         *)
LEMMA ForwardOfPump == AdvanceInv /\ Pump => \A x \in DOMAIN rules' : Forward(rules'[x])
<1> SUFFICES ASSUME AdvanceInv, Pump
             PROVE  \A x \in DOMAIN rules' : Forward(rules'[x])
  OBVIOUS
<1>0. TypeInv
  BY DEF AdvanceInv
<1>1. CASE rules' = rules
  BY <1>1 DEF AdvanceInv
<1>2. CASE Recover
  <2>1. PICK d \in deliveries :
           RecoverAdmitted(d) \/ RecoverTerminal(d) \/ RecoverCancelled(d)
    BY <1>2 DEF Recover
  <2>2. CASE RecoverAdmitted(d)
    BY <1>1, <2>2 DEF RecoverAdmitted, Write
  <2>3. CASE RecoverTerminal(d) \/ RecoverCancelled(d)
    BY <2>3, ForwardSettling DEF RecoverTerminal, RecoverCancelled
  <2> QED BY <2>1, <2>2, <2>3
<1>3. CASE FinishSettle
  <2>1. PICK d \in deliveries :
           Settle(d, pump.phase, pump.actual, Goto(Idle), Goto(Idle))
    BY <1>3 DEF FinishSettle
  <2> QED BY <2>1, ForwardSettling
<1>4. CASE ReserveDue
  <2>1. PICK r \in Candidates :
           ReserveDelivery(r, Advanced(rules[r], Occurrence(r)), Occurrence(r),
               Goto([pc |-> "start",
                     id |-> Id(r, rules[r].spec, Occurrence(r))]),
               Goto(Idle))
    BY <1>4, Zenon DEF ReserveDue
  <2> QED BY <1>0, <2>1, CandidateFacts, ForwardAdvanced, ForwardReserving
<1>5. CASE Publish \/ FinishAdmitted
  BY <1>1, <1>5 DEF Publish, FinishAdmitted, Write
<1>6. CASE Tick \/ ClaimPending \/ ReserveRefused \/ Yield \/ SlotTaken \/ Start
           \/ RunEnds \/ Collect \/ FinishFaulted
  BY <1>1, <1>6 DEF Tick, ClaimPending, ReserveRefused, Yield, SlotTaken, Start,
     Admit, StartRefused, StartFails, RunEnds, Collect, FinishFaulted, docVars
<1> QED BY <1>2, <1>3, <1>4, <1>5, <1>6 DEF Pump, Finish

(* Every step keeps AdvanceInv.                                            *)
LEMMA AdvanceStep == AdvanceInv /\ [Next]_vars => AdvanceInv'
<1> SUFFICES ASSUME AdvanceInv, [Next]_vars PROVE AdvanceInv'
  OBVIOUS
<1>1. TypeInv'
  BY TypeStep DEF AdvanceInv
<1>2. CASE World \/ UNCHANGED vars
  <2>1. rules' = rules
    BY <1>2 DEF World, Crash, Advance, Rollback, JobEnds, docVars, vars
  <2> QED BY <1>1, <2>1 DEF AdvanceInv, Forward
<1>3. \A x \in DOMAIN rules' : Forward(rules'[x])
  BY <1>2, ForwardOfUser, ForwardOfPump DEF Next, AdvanceInv
<1> QED BY <1>1, <1>3 DEF AdvanceInv, Forward

(* What a step adds to the deliveries under a new identity, it reserves.   *)
LEMMA NewDeliveries ==
    ASSUME TypeInv, [Next]_vars,
           NEW d \in deliveries' \ deliveries, d.id.occ >= 0, ~Known(d.id),
           d.id.spec.kind # "job"
    PROVE  \E r \in Candidates :
              /\ d.id = Id(r, rules[r].spec, Occurrence(r))
              /\ ~NotDue(r, Occurrence(r)) /\ rules[r].spec.kind # "job"
<1>1. CASE User
  <2>1. PICK r \in Rules, q \in Requests : RunNow(r, q)
    BY <1>1 DEF User, Create, Edit, Review, Pause, Resume, Delete,
       Confirm, Reload, Command, Write
  <2>2. ReserveDelivery(r, rules[r], q, TRUE, TRUE)
    BY <2>1 DEF RunNow
  <2>3. \A x \in deliveries' :
           x \in deliveries \/ (x.id = Id(r, rules[r].spec, q) /\ x.phase = "Reserved")
    BY <2>2, ReservingMakes
  <2> QED BY <2>3, RequestAssumption DEF Id
<1>2. CASE World \/ UNCHANGED vars
  BY <1>2 DEF World, Crash, Advance, Rollback, JobEnds, docVars, vars
<1>3. CASE ReserveDue
  <2>1. PICK r \in Candidates :
           /\ ~NotDue(r, Occurrence(r))
           /\ ReserveDelivery(r, Advanced(rules[r], Occurrence(r)), Occurrence(r),
               Goto([pc |-> "start",
                     id |-> Id(r, rules[r].spec, Occurrence(r))]),
               Goto(Idle))
    BY <1>3, Zenon DEF ReserveDue
  <2>2. d.id = Id(r, Advanced(rules[r], Occurrence(r)).spec, Occurrence(r))
    BY <2>1, ReservingMakes
  <2>3. d.id = Id(r, rules[r].spec, Occurrence(r))
    BY <2>2, CandidateFacts
  <2> QED BY <2>1, <2>3 DEF Id
<1>4. CASE Recover
  <2>1. PICK e \in deliveries :
           RecoverAdmitted(e) \/ RecoverTerminal(e) \/ RecoverCancelled(e)
    BY <1>4 DEF Recover
  <2>2. CASE RecoverAdmitted(e)
    BY <2>2, RephasingMakes DEF RecoverAdmitted, Known
  <2>3. CASE RecoverTerminal(e) \/ RecoverCancelled(e)
    BY <2>3, SettlingMakes DEF RecoverTerminal, RecoverCancelled, Known
  <2> QED BY <2>1, <2>2, <2>3
<1>5. CASE FinishSettle
  <2>1. PICK e \in deliveries :
           Settle(e, pump.phase, pump.actual, Goto(Idle), Goto(Idle))
    BY <1>5 DEF FinishSettle
  <2> QED BY <2>1, SettlingMakes DEF Known
<1>6. CASE Publish
  <2>1. PICK e \in deliveries :
           Write(rules, Rephase(e, "Admitted"),
                 Goto([pc |-> "running"]), Goto([pc |-> "running"]))
    BY <1>6 DEF Publish
  <2> QED BY <2>1, RephasingMakes DEF Known
<1>7. CASE FinishAdmitted
  <2>1. PICK e \in deliveries :
           Write(rules, Rephase(e, "Admitted"),
                 Goto([pump EXCEPT !.pc = "settle", !.receipt = FALSE]), Goto(Idle))
    BY <1>7 DEF FinishAdmitted
  <2> QED BY <2>1, RephasingMakes DEF Known
<1>8. CASE Tick \/ ClaimPending \/ ReserveRefused \/ Yield \/ SlotTaken \/ Start
           \/ RunEnds \/ Collect \/ FinishFaulted
  BY <1>8 DEF Tick, ClaimPending, ReserveRefused, Yield, SlotTaken, Start,
     Admit, StartRefused, StartFails, RunEnds, Collect, FinishFaulted, docVars
<1> QED BY <1>1, <1>2, <1>3, <1>4, <1>5, <1>6, <1>7, <1>8 DEF Next, Pump, Finish

(* Nothing is scheduled to begin with.                                     *)
LEMMA AdvanceInit == Init => AdvanceInv
BY TypeInit DEF Init, AdvanceInv

(* Under one authorization the occurrences of a time rule that are         *)
(* reserved only go forward, even if the clock goes back.                  *)
THEOREM OccurrencesGoForward == Spec => OccurrencesAdvance
<1> DEFINE Goes == \A r \in DOMAIN rules \cap DOMAIN rules' :
                     \A d \in deliveries' \ deliveries :
                        /\ d.id.rule = r /\ d.id.occ >= 0 /\ ~Known(d.id)
                        /\ d.id.spec.kind # "job"
                        => \A o \in rules[r].last : o < d.id.occ
<1>1. AdvanceInv /\ [Next]_vars => [Goes]_vars
  <2> SUFFICES ASSUME AdvanceInv, [Next]_vars,
                      NEW x \in DOMAIN rules,
                      NEW d \in deliveries' \ deliveries,
                      d.id.rule = x, d.id.occ >= 0, ~Known(d.id),
                      d.id.spec.kind # "job", NEW o \in rules[x].last
               PROVE  o < d.id.occ
    OBVIOUS
  <2>1. PICK r \in Candidates :
              /\ d.id = Id(r, rules[r].spec, Occurrence(r))
              /\ ~NotDue(r, Occurrence(r)) /\ rules[r].spec.kind # "job"
    BY NewDeliveries DEF AdvanceInv
  <2>2. r = x /\ d.id.occ = Occurrence(r)
    BY <2>1 DEF Id
  <2>3. rules[r].next # {}
    BY <2>1 DEF Candidates, Chosen, JobsDue, TimesDue
  <2>4. Occurrence(r) \in Nat /\ rules[r] \in TypeRule /\ Forward(rules[r])
    BY <2>1, CandidateFacts, RuleOf DEF AdvanceInv
  <2>5. PICK n \in rules[r].next : n \in Nat /\ ~(Occurrence(r) < n) /\ o < n /\ o \in Nat
    BY <2>1, <2>2, <2>3, <2>4 DEF NotDue, Forward, TypeRule
  <2> QED BY <2>2, <2>4, <2>5
<1> QED BY <1>1, AdvanceInit, AdvanceStep, PTL DEF Spec, OccurrencesAdvance
===============================================================================
