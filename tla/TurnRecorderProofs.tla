-------------------------- MODULE TurnRecorderProofs --------------------------
(***************************************************************************)
(* Proofs about TurnRecorder, for every set of ids and tools, every         *)
(* sequence of responses and every number of runs, failures and crashes.    *)
(* The inductive invariant follows a call from the response that asks for   *)
(* it to the last thing the log says of it: the barrier in front of its     *)
(* execution is durable before it is executed, stays behind every message   *)
(* that names the call, and is therefore what recovery finds.  A second one, *)
(* Transcript, follows the journal as a transcript: every event lies in     *)
(* what is open where it stands, and every call that a message names is     *)
(* answered before its step ends, or still waits in the queue.              *)
(***************************************************************************)
EXTENDS TurnRecorder, SequenceTheorems, WellFoundedInduction, TLAPS

Journal == log \o buffer
Running == pc \notin {"idle", "down"}

-----------------------------------------------------------------------------
(* Types *)

Answers == {"unknown", "not started", "denied", "output", "skipped"}
Reasons == {"completed", "aborted", "error", "interrupted"}
Terminals == {"none", "completed", "cancelled", "failed"}

Event ==
       [type : {"turn/start"}, turn : Nat]
  \cup [type : {"turn/end"}, turn : Nat, reason : Reasons]
  \cup [type : {"step/start", "step/end", "user/message"}, turn : Nat, step : Nat]
  \cup [type : {"assistant/message"}, turn : Nat, step : Nat, calls : Seq(Ids)]
  \cup [type : {"tool/call"}, turn : Nat, step : Nat, id : Ids]
  \cup [type : {"tool/result"}, turn : Nat, step : Nat, id : Ids, answer : Answers]

Recorder ==
  [turn : Nat, step : Nat, open : BOOLEAN, emitted : BOOLEAN, text : BOOLEAN,
   completed : Seq(ToolCall), stashed : Seq(ToolCall), journaled : SUBSET Ids,
   error : BOOLEAN, terminal : Terminals]

Request == [turn : Nat, step : Nat, id : Ids, tool : Tools]

TypeInv ==
  /\ log \in Seq(Event) /\ buffer \in Seq(Event)
  /\ fatal \in BOOLEAN /\ cancelled \in BOOLEAN
  /\ pc \in {"idle", "request", "retry", "stream", "tools", "ask", "denied",
             "start", "invoke", "running", "finish", "down"}
  /\ rec \in Recorder /\ todo \in Seq(ToolCall)
  /\ turns \in 0 .. MaxTurns /\ offered \subseteq Request
  /\ gaveUp \subseteq 1 .. turns /\ spoiled \subseteq 1 .. turns
  /\ published \in Terminals

\* A run in progress is the last one that was started, and has calls to go
\* through only between a response and the next request.
ShapeInv ==
  /\ Running => rec.turn = turns /\ turns > 0 /\ published = "none"
  /\ ~Running => rec = NewRecorder(0)
  /\ todo # <<>> => pc \in {"tools", "ask", "denied", "start", "invoke", "running"}
  /\ pc \in {"ask", "denied", "start", "invoke", "running"} => todo # <<>>
  /\ rec.text => pc = "finish"
  /\ pc = "down" => buffer = <<>>

-----------------------------------------------------------------------------
(* The journal *)

\* Each run begins with its turn/start, and later runs stand behind it.
TurnOrder ==
  /\ \A i \in DOMAIN Journal :
        /\ Journal[i].turn \in 1 .. turns
        /\ \E j \in DOMAIN Journal : j <= i /\ Journal[j] = TurnStart(Journal[i].turn)
  /\ \A i, j \in DOMAIN Journal : i <= j => Journal[i].turn <= Journal[j].turn
  /\ \A i, j \in DOMAIN Journal :
        Journal[i].type = "turn/start" /\ Journal[j].turn = Journal[i].turn => i <= j

Begun(t) == \E i \in DOMAIN log : log[i] = TurnStart(t)

TurnInv == TurnOrder /\ (Running => Begun(rec.turn))

-----------------------------------------------------------------------------
(* Calls *)

Asked(t, id) == \E c \in offered : c.turn = t /\ c.id = id
Unique(t, id) ==
  \A c, d \in offered : c.turn = t /\ c.id = id /\ d.turn = t /\ d.id = id => c = d
Ran(t, id) == [turn |-> t, id |-> id] \in ran
Blind(t, id) == [turn |-> t, id |-> id] \in blind

Names(e, t, id) ==
  e.type = "assistant/message" /\ e.turn = t /\ id \in ToSet(e.calls)

\* The tool/call is durable, and no message that names the call is behind it.
Barred(t, id) ==
  \E j \in DOMAIN log :
     /\ log[j].type = "tool/call" /\ log[j].turn = t /\ log[j].id = id
     /\ \A i \in DOMAIN Journal : Names(Journal[i], t, id) => i < j

\* What was asked in a run, and where.
AskedLocal ==
  /\ \A c \in offered : c.turn \in 1 .. turns
  /\ Running => \A c \in offered : c.turn = rec.turn =>
        /\ c.step <= rec.step
        /\ pc = "stream" \/ ~rec.open => c.step < rec.step
  /\ pc = "stream" => rec.step \in DOMAIN Responses[rec.turn]
  /\ Running /\ pc \notin {"request", "retry", "finish"} => rec.open
  /\ \A i \in DOMAIN todo :
        /\ [turn |-> rec.turn, step |-> rec.step, id |-> todo[i].id,
            tool |-> todo[i].tool] \in offered
        /\ \A j \in DOMAIN todo : todo[i].id = todo[j].id => i = j
  /\ rec.text => \A i \in DOMAIN rec.completed :
        [turn |-> rec.turn, step |-> rec.step, id |-> rec.completed[i].id,
         tool |-> rec.completed[i].tool] \in offered
  /\ \A s \in ToSet(rec.stashed) : \E c \in offered :
        c.turn = rec.turn /\ c.id = s.id /\ c.tool = s.tool
  /\ \A id \in rec.journaled : Asked(rec.turn, id)

\* The journal speaks of no other calls.
AskedInJournal ==
  \A i \in DOMAIN Journal :
     /\ Journal[i].type = "tool/result" => Asked(Journal[i].turn, Journal[i].id)
     /\ Journal[i].type = "assistant/message" =>
          \A id \in ToSet(Journal[i].calls) : Asked(Journal[i].turn, id)

AskedInv == AskedLocal /\ AskedInJournal

\* The calls of a response that can still be executed.
Upcoming ==
  {i \in DOMAIN todo : pc \in {"denied", "running"} => i # 1}

\* A call that was executed has its barrier behind it.
RanBehindBarrier ==
  \A x \in ran :
     /\ x = [turn |-> x.turn, id |-> x.id] /\ Asked(x.turn, x.id)
     /\ Unique(x.turn, x.id) /\ x \notin blind => Barred(x.turn, x.id)

\* A call that is still to be executed was not, and one that is about to be
\* has its barrier behind it.
BarrierLocal ==
  /\ Running /\ rec.text => \A c \in offered :
        /\ c.turn = rec.turn /\ c.step = rec.step /\ Unique(c.turn, c.id)
        => ~Ran(c.turn, c.id)
  /\ \A i \in DOMAIN todo :
        Unique(rec.turn, todo[i].id) /\ (pc = "running" => i # 1)
        => ~Ran(rec.turn, todo[i].id)
  /\ \A i \in DOMAIN todo :
        todo[i].id \in rec.journaled /\ Unique(rec.turn, todo[i].id)
        => i = 1 /\ pc \in {"start", "invoke", "running", "denied"}
  /\ pc = "start" =>
        (todo[1].id \in rec.journaled /\ Unique(rec.turn, todo[1].id)
           => Barred(rec.turn, todo[1].id))
  /\ pc \in {"invoke", "running"} =>
        (Unique(rec.turn, todo[1].id) /\ ~Blind(rec.turn, todo[1].id)
           => Barred(rec.turn, todo[1].id))

BarrierInv == RanBehindBarrier /\ BarrierLocal

\* The answers that say a call was not executed.
Denies(e, call) ==
  /\ AnswerOf(e, call) /\ Unique(call.turn, call.id)
  /\ \/ e.answer \in {"skipped", "not started"}
     \/ e.answer = "denied" /\ OnlyUse(call)

\* They are true, and stay so.
AnswerInv ==
  \A k \in DOMAIN Journal : \A call \in offered : Denies(Journal[k], call) =>
     /\ Ran(call.turn, call.id) => Blind(call.turn, call.id)
     /\ call.turn = rec.turn => \A i \in Upcoming : todo[i].id # call.id

-----------------------------------------------------------------------------
(* What was promised *)

ReportInv ==
  /\ Running /\ ~rec.error /\ ~fatal => wanted \subseteq ToSet(Journal)
  /\ published \in Successes => wanted \subseteq ToSet(log)
  /\ receipts \subseteq ToSet(log)

IInv ==
  /\ TypeInv /\ ShapeInv /\ TurnInv
  /\ AskedInv /\ BarrierInv /\ AnswerInv /\ ReportInv

-----------------------------------------------------------------------------
(* Induction along a sequence, and the functions that recurse along one.    *)

LEMMA Upwards ==
    ASSUME NEW n \in Nat, NEW S, 0 \in S,
           \A i \in 0 .. n - 1 : i \in S => i + 1 \in S
    PROVE  0 .. n \subseteq S
<1> DEFINE Out == {i \in 0 .. n : i \notin S}
<1>1. SUFFICES ASSUME Out # {} PROVE FALSE
  OBVIOUS
<1>2. PICK m \in Out : \A k \in Out : m <= k
  <2>1. PICK m \in Out : \A k \in Out : ~ <<k, m>> \in OpToRel(<, Nat)
    <3>1. Out \subseteq Nat
      OBVIOUS
    <3> HIDE DEF Out
    <3> QED BY <1>1, <3>1, NatLessThanWellFounded, WFMin
  <2>2. ASSUME NEW k \in Nat, NEW l \in Nat, k < l PROVE <<k, l>> \in OpToRel(<, Nat)
    BY <2>2 DEF OpToRel
  <2>3. \A k \in Out : k \in Nat /\ m \in Nat
    OBVIOUS
  <2> HIDE DEF Out
  <2>4. \A k \in Out : ~ (k < m)
    BY <2>1, <2>2, <2>3
  <2>5. \A k \in Out : m <= k
    BY <2>3, <2>4
  <2> QED BY <2>5
<1>3. m \in 1 .. n /\ m - 1 \in 0 .. n - 1 /\ m - 1 \notin Out
  BY <1>2
<1> QED BY <1>2, <1>3

(* What is open behind each event, as a recursion.                          *)
LEMMA TrackerStep ==
    ASSUME NEW L \in Seq(Event)
    PROVE  /\ Tracker(L)[0] = NoTurn
           /\ \A i \in 1 .. Len(L) : Tracker(L)[i] = Observe(Tracker(L)[i - 1], L[i])
<1> DEFINE Solves(f, n) ==
             f = [i \in 0 .. n |-> IF i = 0 THEN NoTurn ELSE Observe(f[i - 1], L[i])]
           Solvable == {n \in 0 .. Len(L) : \E f : Solves(f, n)}
<1>1. Len(L) \in Nat
  OBVIOUS
<1>2. 0 \in Solvable
  <2> DEFINE f == [i \in 0 .. 0 |-> NoTurn]
  <2>1. f = [i \in 0 .. 0 |-> IF i = 0 THEN NoTurn ELSE Observe(f[i - 1], L[i])]
    <3>1. \A i \in 0 .. 0 : i = 0
      OBVIOUS
    <3> QED BY <3>1
  <2>2. Solves(f, 0)
    BY <2>1
  <2> HIDE DEF Solves, f
  <2> QED BY <2>2, <1>1
<1>3. \A n \in 0 .. Len(L) - 1 : n \in Solvable => n + 1 \in Solvable
  <2> SUFFICES ASSUME NEW n \in 0 .. Len(L) - 1, NEW f, Solves(f, n)
               PROVE  n + 1 \in Solvable
    OBVIOUS
  <2> DEFINE last == Observe(f[n], L[n + 1])
             g == [i \in 0 .. n + 1 |-> IF i = n + 1 THEN last ELSE f[i]]
  <2>1. \A i \in 0 .. n : f[i] = IF i = 0 THEN NoTurn ELSE Observe(f[i - 1], L[i])
    OBVIOUS
  <2> HIDE DEF Solves, last
  <2>2. ASSUME NEW i \in 0 .. n + 1
        PROVE  g[i] = IF i = 0 THEN NoTurn ELSE Observe(g[i - 1], L[i])
    <3>1. CASE i = n + 1
      BY <3>1 DEF last
    <3>2. CASE i # n + 1
      BY <3>2, <2>1
    <3> QED BY <3>1, <3>2
  <2>3. g = [i \in 0 .. n + 1 |-> IF i = 0 THEN NoTurn ELSE Observe(g[i - 1], L[i])]
    BY <2>2
  <2>4. Solves(g, n + 1)
    BY <2>3 DEF Solves
  <2> HIDE DEF g
  <2> QED BY <2>4, <1>1
<1>4. Len(L) \in Solvable
  <2> HIDE DEF Solvable
  <2>1. 0 .. Len(L) \subseteq Solvable
    BY <1>1, <1>2, <1>3, Upwards
  <2> QED BY <1>1, <2>1
<1>5. Tracker(L) = CHOOSE f : Solves(f, Len(L))
  BY DEF Tracker
<1>6. PICK f : Solves(f, Len(L))
  BY <1>4
<1>7. Solves(Tracker(L), Len(L))
  <2> HIDE DEF Solves
  <2> QED BY <1>5, <1>6
<1> HIDE DEF Solvable
<1> QED BY <1>1, <1>7

(* What is retained of a sequence of calls: those whose id is not given.    *)
LEMMA RetainedStep ==
    ASSUME NEW S, NEW s \in Seq(S), NEW ids
    PROVE  \E k : /\ Retained(s, ids) = k[Len(s)] /\ k[0] = <<>>
                  /\ \A i \in 1 .. Len(s) :
                        k[i] = IF s[i].id \in ids THEN k[i - 1]
                               ELSE Append(k[i - 1], s[i])
<1> DEFINE Solves(f, n) ==
             f = [i \in 0 .. n |-> IF i = 0 THEN <<>> ELSE (IF s[i].id \in ids THEN f[i - 1] ELSE Append(f[i - 1], s[i]))]
           Solvable == {n \in 0 .. Len(s) : \E f : Solves(f, n)}
<1>1. Len(s) \in Nat
  OBVIOUS
<1>2. 0 \in Solvable
  <2> DEFINE f == [i \in 0 .. 0 |-> <<>>]
  <2>1. f = [i \in 0 .. 0 |-> IF i = 0 THEN <<>> ELSE (IF s[i].id \in ids THEN f[i - 1] ELSE Append(f[i - 1], s[i]))]
    <3>1. \A i \in 0 .. 0 : i = 0
      OBVIOUS
    <3> QED BY <3>1
  <2>2. Solves(f, 0)
    BY <2>1
  <2> HIDE DEF Solves, f
  <2> QED BY <2>2, <1>1
<1>3. \A n \in 0 .. Len(s) - 1 : n \in Solvable => n + 1 \in Solvable
  <2> SUFFICES ASSUME NEW n \in 0 .. Len(s) - 1, NEW f, Solves(f, n)
               PROVE  n + 1 \in Solvable
    OBVIOUS
  <2> DEFINE last == (IF s[n + 1].id \in ids THEN f[n] ELSE Append(f[n], s[n + 1]))
             g == [i \in 0 .. n + 1 |-> IF i = n + 1 THEN last ELSE f[i]]
  <2>1. \A i \in 0 .. n : f[i] = IF i = 0 THEN <<>> ELSE (IF s[i].id \in ids THEN f[i - 1] ELSE Append(f[i - 1], s[i]))
    OBVIOUS
  <2> HIDE DEF Solves, last
  <2>2. ASSUME NEW i \in 0 .. n + 1
        PROVE  g[i] = IF i = 0 THEN <<>> ELSE (IF s[i].id \in ids THEN g[i - 1] ELSE Append(g[i - 1], s[i]))
    <3>1. CASE i = n + 1
      BY <3>1 DEF last
    <3>2. CASE i # n + 1
      BY <3>2, <2>1
    <3> QED BY <3>1, <3>2
  <2>3. g = [i \in 0 .. n + 1 |-> IF i = 0 THEN <<>> ELSE (IF s[i].id \in ids THEN g[i - 1] ELSE Append(g[i - 1], s[i]))]
    BY <2>2
  <2>4. Solves(g, n + 1)
    BY <2>3 DEF Solves
  <2> HIDE DEF g
  <2> QED BY <2>4, <1>1
<1>4. Len(s) \in Solvable
  <2> HIDE DEF Solvable
  <2>1. 0 .. Len(s) \subseteq Solvable
    BY <1>1, <1>2, <1>3, Upwards
  <2> QED BY <1>1, <2>1
<1>5. PICK kept : Solves(kept, Len(s))
  BY <1>4
<1>6. \E k : Solves(k, Len(s)) /\ Retained(s, ids) = k[Len(s)]
  <2> DEFINE k == CHOOSE f : Solves(f, Len(s))
  <2>1. Solves(k, Len(s))
    <3> HIDE DEF Solves
    <3> QED BY <1>5
  <2>2. Retained(s, ids) = k[Len(s)]
    BY DEF Retained
  <2> HIDE DEF Solves, k
  <2> QED BY <2>1, <2>2
<1>7. PICK k : Solves(k, Len(s)) /\ Retained(s, ids) = k[Len(s)]
  BY <1>6
<1>8. /\ k[0] = <<>>
      /\ \A i \in 1 .. Len(s) :
            k[i] = IF s[i].id \in ids THEN k[i - 1] ELSE Append(k[i - 1], s[i])
  <2>1. \A i \in 0 .. Len(s) :
           k[i] = IF i = 0 THEN <<>>
                  ELSE IF s[i].id \in ids THEN k[i - 1] ELSE Append(k[i - 1], s[i])
    BY <1>7
  <2>2. k[0] = <<>>
    BY <1>1, <2>1
  <2>3. \A i \in 1 .. Len(s) : i \in 0 .. Len(s) /\ i # 0
    BY <1>1
  <2> QED BY <2>1, <2>2, <2>3
<1> HIDE DEF Solves
<1> QED BY <1>7, <1>8

LEMMA StashAllStep ==
    ASSUME NEW S, NEW r, NEW calls \in Seq(S)
    PROVE  \E k : /\ StashAll(r, calls) = k[Len(calls)] /\ k[0] = r
                  /\ \A i \in 1 .. Len(calls) : k[i] = Stash(k[i - 1], calls[i])
<1> DEFINE Solves(f, n) ==
             f = [i \in 0 .. n |-> IF i = 0 THEN r ELSE Stash(f[i - 1], calls[i])]
           Solvable == {n \in 0 .. Len(calls) : \E f : Solves(f, n)}
<1>1. Len(calls) \in Nat
  OBVIOUS
<1>2. 0 \in Solvable
  <2> DEFINE f == [i \in 0 .. 0 |-> r]
  <2>1. f = [i \in 0 .. 0 |-> IF i = 0 THEN r ELSE Stash(f[i - 1], calls[i])]
    <3>1. \A i \in 0 .. 0 : i = 0
      OBVIOUS
    <3> QED BY <3>1
  <2>2. Solves(f, 0)
    BY <2>1
  <2> HIDE DEF Solves, f
  <2> QED BY <2>2, <1>1
<1>3. \A n \in 0 .. Len(calls) - 1 : n \in Solvable => n + 1 \in Solvable
  <2> SUFFICES ASSUME NEW n \in 0 .. Len(calls) - 1, NEW f, Solves(f, n)
               PROVE  n + 1 \in Solvable
    OBVIOUS
  <2> DEFINE last == Stash(f[n], calls[n + 1])
             g == [i \in 0 .. n + 1 |-> IF i = n + 1 THEN last ELSE f[i]]
  <2>1. \A i \in 0 .. n : f[i] = IF i = 0 THEN r ELSE Stash(f[i - 1], calls[i])
    OBVIOUS
  <2> HIDE DEF Solves, last
  <2>2. ASSUME NEW i \in 0 .. n + 1
        PROVE  g[i] = IF i = 0 THEN r ELSE Stash(g[i - 1], calls[i])
    <3>1. CASE i = n + 1
      BY <3>1 DEF last
    <3>2. CASE i # n + 1
      BY <3>2, <2>1
    <3> QED BY <3>1, <3>2
  <2>3. g = [i \in 0 .. n + 1 |-> IF i = 0 THEN r ELSE Stash(g[i - 1], calls[i])]
    BY <2>2
  <2>4. Solves(g, n + 1)
    BY <2>3 DEF Solves
  <2> HIDE DEF g
  <2> QED BY <2>4, <1>1
<1>4. Len(calls) \in Solvable
  <2> HIDE DEF Solvable
  <2>1. 0 .. Len(calls) \subseteq Solvable
    BY <1>1, <1>2, <1>3, Upwards
  <2> QED BY <1>1, <2>1
<1>5. PICK after : Solves(after, Len(calls))
  BY <1>4
<1>6. \E k : Solves(k, Len(calls)) /\ StashAll(r, calls) = k[Len(calls)]
  <2> DEFINE k == CHOOSE f : Solves(f, Len(calls))
  <2>1. Solves(k, Len(calls))
    <3> HIDE DEF Solves
    <3> QED BY <1>5
  <2>2. StashAll(r, calls) = k[Len(calls)]
    BY DEF StashAll
  <2> HIDE DEF Solves, k
  <2> QED BY <2>1, <2>2
<1>7. PICK k : Solves(k, Len(calls)) /\ StashAll(r, calls) = k[Len(calls)]
  BY <1>6
<1>8. /\ k[0] = r
      /\ \A i \in 1 .. Len(calls) : k[i] = Stash(k[i - 1], calls[i])
  BY <1>1, <1>7
<1> HIDE DEF Solves
<1> QED BY <1>7, <1>8

(***************************************************************************)
(* What the sequences of the model contain.                                *)
(***************************************************************************)

LEMMA ToSetFacts ==
    /\ ToSet(<<>>) = {}
    /\ \A e : ToSet(<<e>>) = {e}
    /\ \A S : \A s \in Seq(S) : ToSet(s) \subseteq S
<1>1. ToSet(<<>>) = {}
  BY DEF ToSet
<1>2. \A e : ToSet(<<e>>) = {e}
  BY DEF ToSet
<1>3. \A S : \A s \in Seq(S) : ToSet(s) \subseteq S
  BY DEF ToSet
<1> QED BY <1>1, <1>2, <1>3

LEMMA ToSetConcat ==
    ASSUME NEW S, NEW s \in Seq(S), NEW t \in Seq(S)
    PROVE  s \o t \in Seq(S) /\ ToSet(s \o t) = ToSet(s) \cup ToSet(t)
<1>1. /\ s \o t \in Seq(S) /\ Len(s \o t) = Len(s) + Len(t)
      /\ \A i \in 1 .. Len(s) + Len(t) :
            (s \o t)[i] = IF i <= Len(s) THEN s[i] ELSE t[i - Len(s)]
  BY ConcatProperties
<1>2. Len(s) \in Nat /\ Len(t) \in Nat /\ DOMAIN s = 1 .. Len(s) /\ DOMAIN t = 1 .. Len(t)
      /\ DOMAIN (s \o t) = 1 .. Len(s) + Len(t)
  BY <1>1, LenProperties
<1>3. ASSUME NEW x \in ToSet(s \o t) PROVE x \in ToSet(s) \cup ToSet(t)
  <2>1. PICK i \in 1 .. Len(s) + Len(t) : x = (s \o t)[i]
    BY <1>2, <1>3 DEF ToSet
  <2>2. CASE i <= Len(s)
    BY <1>1, <1>2, <2>1, <2>2 DEF ToSet
  <2>3. CASE ~(i <= Len(s))
    <3>1. i - Len(s) \in DOMAIN t /\ x = t[i - Len(s)]
      BY <1>1, <1>2, <2>1, <2>3
    <3> QED BY <3>1 DEF ToSet
  <2> QED BY <2>2, <2>3
<1>4. ASSUME NEW x \in ToSet(s) PROVE x \in ToSet(s \o t)
  <2>1. PICK i \in 1 .. Len(s) : x = s[i]
    BY <1>2, <1>4 DEF ToSet
  <2>2. i \in DOMAIN (s \o t) /\ (s \o t)[i] = x
    BY <1>1, <1>2, <2>1
  <2> QED BY <2>2 DEF ToSet
<1>5. ASSUME NEW x \in ToSet(t) PROVE x \in ToSet(s \o t)
  <2>1. PICK i \in 1 .. Len(t) : x = t[i]
    BY <1>2, <1>5 DEF ToSet
  <2>2. Len(s) + i \in DOMAIN (s \o t) /\ (s \o t)[Len(s) + i] = x
    BY <1>1, <1>2, <2>1
  <2> QED BY <2>2 DEF ToSet
<1> QED BY <1>1, <1>3, <1>4, <1>5

LEMMA ToSetAppend ==
    ASSUME NEW S, NEW s \in Seq(S), NEW e \in S
    PROVE  Append(s, e) \in Seq(S) /\ ToSet(Append(s, e)) = ToSet(s) \cup {e}
<1>1. Append(s, e) = s \o <<e>> /\ <<e>> \in Seq(S)
  BY AppendIsConcat
<1>2. s \o <<e>> \in Seq(S) /\ ToSet(s \o <<e>>) = ToSet(s) \cup ToSet(<<e>>)
  BY <1>1, ToSetConcat
<1>3. ToSet(<<e>>) = {e}
  BY ToSetFacts
<1> QED BY <1>1, <1>2, <1>3

LEMMA RetainedFacts ==
    ASSUME NEW S, NEW s \in Seq(S), NEW ids
    PROVE  /\ Retained(s, ids) \in Seq(S)
           /\ ToSet(Retained(s, ids)) \subseteq {p \in ToSet(s) : p.id \notin ids}
<1>1. PICK k : /\ Retained(s, ids) = k[Len(s)] /\ k[0] = <<>>
               /\ \A i \in 1 .. Len(s) :
                     k[i] = IF s[i].id \in ids THEN k[i - 1] ELSE Append(k[i - 1], s[i])
  BY RetainedStep
<1> DEFINE Kept == {p \in ToSet(s) : p.id \notin ids}
           Good == {i \in 0 .. Len(s) : k[i] \in Seq(S) /\ ToSet(k[i]) \subseteq Kept}
<1>2. Len(s) \in Nat /\ DOMAIN s = 1 .. Len(s)
  OBVIOUS
<1>3. 0 \in Good
  <2>1. k[0] \in Seq(S) /\ ToSet(k[0]) = {}
    BY <1>1, ToSetFacts
  <2> QED BY <1>2, <2>1
<1>4. ASSUME NEW i \in 0 .. Len(s) - 1, i \in Good PROVE i + 1 \in Good
  <2>1. i + 1 \in 1 .. Len(s) /\ (i + 1) - 1 = i
    BY <1>2
  <2>2. k[i + 1] = IF s[i + 1].id \in ids THEN k[i] ELSE Append(k[i], s[i + 1])
    BY <1>1, <2>1
  <2>3. CASE s[i + 1].id \in ids
    BY <1>4, <2>1, <2>2, <2>3
  <2>4. CASE s[i + 1].id \notin ids
    <3>1. s[i + 1] \in S /\ s[i + 1] \in ToSet(s)
      BY <1>2, <2>1 DEF ToSet
    <3>2. k[i] \in Seq(S) /\ k[i + 1] = Append(k[i], s[i + 1])
      BY <1>4, <2>2, <2>4
    <3>4. k[i + 1] \in Seq(S) /\ ToSet(k[i + 1]) = ToSet(k[i]) \cup {s[i + 1]}
      BY <3>1, <3>2, ToSetAppend
    <3> QED BY <1>4, <2>1, <2>4, <3>1, <3>4
  <2> QED BY <2>3, <2>4
<1>5. Len(s) \in Good
  <2> HIDE DEF Good
  <2>1. 0 .. Len(s) \subseteq Good
    BY <1>2, <1>3, <1>4, Upwards
  <2> QED BY <1>2, <2>1
<1> QED BY <1>1, <1>5

(***************************************************************************)
(* Typing of what the recorder is built from.                              *)
(***************************************************************************)

LEMMA EventFacts ==
    ASSUME NEW e \in Event
    PROVE  /\ e.turn \in Nat
           /\ e.type \in {"turn/start", "turn/end", "step/start", "step/end",
                          "user/message", "assistant/message", "tool/call",
                          "tool/result"}
           /\ e.type = "step/start" => e.step \in Nat
           /\ e.type = "assistant/message" => e.step \in Nat /\ e.calls \in Seq(Ids)
           /\ e.type = "tool/call" => e.step \in Nat /\ e.id \in Ids
           /\ e.type = "tool/result" => e.step \in Nat /\ e.id \in Ids
           /\ e.type = "turn/start" => e = TurnStart(e.turn)
  BY DEF Event, TurnStart

LEMMA EventTyped ==
    ASSUME NEW t \in Nat, NEW s \in Nat
    PROVE  /\ TurnStart(t) \in Event
           /\ \A why \in Reasons : TurnEnd(t, why) \in Event
           /\ StepStart(t, s) \in Event /\ StepEnd(t, s) \in Event
           /\ User(t, s) \in Event
           /\ \A ids \in Seq(Ids) : Message(t, s, ids) \in Event
           /\ \A id \in Ids : Called(t, s, id) \in Event
           /\ \A id \in Ids, answer \in Answers : Result(t, s, id, answer) \in Event
<1>1. TurnStart(t) \in Event /\ \A why \in Reasons : TurnEnd(t, why) \in Event
  BY DEF Event, TurnStart, TurnEnd
<1>2. StepStart(t, s) \in Event /\ StepEnd(t, s) \in Event /\ User(t, s) \in Event
  BY DEF Event, StepStart, StepEnd, User
<1>3. \A ids \in Seq(Ids) : Message(t, s, ids) \in Event
  BY DEF Event, Message
<1>4. \A id \in Ids : Called(t, s, id) \in Event
  BY DEF Event, Called
<1>5. \A id \in Ids, answer \in Answers : Result(t, s, id, answer) \in Event
  BY DEF Event, Result
<1> QED BY <1>1, <1>2, <1>3, <1>4, <1>5

LEMMA IdsOfFacts ==
    ASSUME NEW calls \in Seq(ToolCall)
    PROVE  /\ IdsOf(calls) \in Seq(Ids) /\ DOMAIN IdsOf(calls) = DOMAIN calls
           /\ \A i \in DOMAIN calls : IdsOf(calls)[i] = calls[i].id
<1>1. DOMAIN calls = 1 .. Len(calls) /\ Len(calls) \in Nat
  OBVIOUS
<1>2. \A i \in 1 .. Len(calls) : calls[i].id \in Ids
  <2>1. \A i \in 1 .. Len(calls) : calls[i] \in ToolCall
    OBVIOUS
  <2> QED BY <2>1 DEF ToolCall
<1>3. [i \in 1 .. Len(calls) |-> calls[i].id] \in Seq(Ids)
  BY <1>1, <1>2
<1> QED BY <1>1, <1>3 DEF IdsOf

LEMMA RecorderTyped ==
    ASSUME NEW r \in Recorder
    PROVE  /\ StepClosed(r) \in Recorder /\ StepOpened(r) \in Recorder
           /\ \A b \in BOOLEAN : [r EXCEPT !.error = b] \in Recorder
           /\ \A t \in Terminals : [r EXCEPT !.terminal = t] \in Recorder
           /\ \A s \in Seq(ToolCall) : [r EXCEPT !.stashed = s] \in Recorder
           /\ \A s \in SUBSET Ids : [r EXCEPT !.journaled = s] \in Recorder
<1>1. StepClosed(r) \in Recorder
  <2>1. \A n \in Nat : [r EXCEPT !.open = FALSE, !.step = n] \in Recorder
    BY DEF Recorder
  <2>2. r.step + 1 \in Nat
    BY DEF Recorder
  <2> QED BY <2>1, <2>2 DEF StepClosed
<1>2. StepOpened(r) \in Recorder
  <2>1. \A s \in Seq(ToolCall) :
           [r EXCEPT !.open = TRUE, !.emitted = FALSE, !.text = FALSE, !.completed = s]
              \in Recorder
    BY DEF Recorder
  <2>2. <<>> \in Seq(ToolCall)
    BY ToSetFacts, EmptySeq
  <2> QED BY <2>1, <2>2 DEF StepOpened
<1>3. \A b \in BOOLEAN : [r EXCEPT !.error = b] \in Recorder
  BY DEF Recorder
<1>4. \A t \in Terminals : [r EXCEPT !.terminal = t] \in Recorder
  BY DEF Recorder
<1>5. \A s \in Seq(ToolCall) : [r EXCEPT !.stashed = s] \in Recorder
  BY DEF Recorder
<1>6. \A s \in SUBSET Ids : [r EXCEPT !.journaled = s] \in Recorder
  BY DEF Recorder
<1> QED BY <1>1, <1>2, <1>3, <1>4, <1>5, <1>6

LEMMA NewRecorderTyped == \A t \in Nat : NewRecorder(t) \in Recorder
  BY DEF NewRecorder, Recorder, Terminals

(* The events that close an open step.                                      *)
LEMMA StepClosersFacts ==
    ASSUME NEW r \in Recorder
    PROVE  /\ StepClosers(r) \in Seq(Event)
           /\ ToSet(StepClosers(r)) \subseteq
                {Message(r.turn, r.step, IdsOf(r.completed)), StepEnd(r.turn, r.step)}
           /\ ~r.text => ToSet(StepClosers(r)) \subseteq {StepEnd(r.turn, r.step)}
<1> DEFINE m == Message(r.turn, r.step, IdsOf(r.completed))
           e == StepEnd(r.turn, r.step)
<1>1. m \in Event /\ e \in Event
  <2>1. r.turn \in Nat /\ r.step \in Nat /\ r.completed \in Seq(ToolCall)
    BY DEF Recorder
  <2> QED BY <2>1, IdsOfFacts, EventTyped
<1> HIDE DEF m, e
<1>2. <<>> \in Seq(Event) /\ <<m>> \in Seq(Event) /\ <<e>> \in Seq(Event)
  BY <1>1
<1>3. /\ <<m>> \o <<e>> \in Seq(Event) /\ <<>> \o <<e>> \in Seq(Event)
      /\ ToSet(<<m>> \o <<e>>) = ToSet(<<m>>) \cup ToSet(<<e>>)
      /\ ToSet(<<>> \o <<e>>) = ToSet(<<>>) \cup ToSet(<<e>>)
  BY <1>2, ToSetConcat
<1>6. ToSet(<<>>) = {} /\ ToSet(<<m>>) = {m} /\ ToSet(<<e>>) = {e}
  BY ToSetFacts
<1>4. /\ ~r.open => StepClosers(r) = <<>>
      /\ r.open /\ ~r.emitted /\ r.text => StepClosers(r) = <<m>> \o <<e>>
      /\ r.open /\ ~(~r.emitted /\ r.text) => StepClosers(r) = <<>> \o <<e>>
  BY DEF StepClosers, m, e
<1>5. r.open \in BOOLEAN /\ r.emitted \in BOOLEAN /\ r.text \in BOOLEAN
  BY DEF Recorder
<1> QED BY <1>2, <1>3, <1>4, <1>5, <1>6 DEF m, e

(* The stash: a call that is put there, or replaces one with its id.        *)
LEMMA StashFacts ==
    ASSUME NEW r \in Recorder, NEW c \in ToolCall
    PROVE  /\ Stash(r, c).stashed \in Seq(ToolCall)
           /\ Stash(r, c) = [r EXCEPT !.stashed = Stash(r, c).stashed]
           /\ Stash(r, c) \in Recorder
           /\ ToSet(Stash(r, c).stashed) \subseteq ToSet(r.stashed) \cup {c}
<1> DEFINE s == r.stashed
           new == [i \in DOMAIN s |-> IF s[i].id = c.id THEN c ELSE s[i]]
<1>1. s \in Seq(ToolCall) /\ DOMAIN s = 1 .. Len(s) /\ Len(s) \in Nat
  BY DEF Recorder
<1>2. new \in Seq(ToolCall) /\ ToSet(new) \subseteq ToSet(s) \cup {c}
  <2>1. \A i \in 1 .. Len(s) : s[i] \in ToolCall
    BY <1>1
  <2>2. [i \in 1 .. Len(s) |-> IF s[i].id = c.id THEN c ELSE s[i]] \in Seq(ToolCall)
    BY <1>1, <2>1
  <2>3. ToSet(new) \subseteq ToSet(s) \cup {c}
    BY DEF ToSet
  <2> QED BY <1>1, <2>2, <2>3
<1>3. Append(s, c) \in Seq(ToolCall) /\ ToSet(Append(s, c)) = ToSet(s) \cup {c}
  BY <1>1, ToSetAppend
<1>4. Stash(r, c) = [r EXCEPT !.stashed = new] \/ Stash(r, c) = [r EXCEPT !.stashed = Append(s, c)]
  BY DEF Stash
<1> HIDE DEF new, s
<1>5. ASSUME NEW x PROVE [r EXCEPT !.stashed = x].stashed = x
  BY DEF Recorder
<1>6. Stash(r, c).stashed \in {new, Append(s, c)}
      /\ Stash(r, c) = [r EXCEPT !.stashed = Stash(r, c).stashed]
  BY <1>4, <1>5
<1>7. Stash(r, c).stashed \in Seq(ToolCall)
  BY <1>2, <1>3, <1>6
<1>8. Stash(r, c) \in Recorder
  BY <1>6, <1>7, RecorderTyped
<1> QED BY <1>2, <1>3, <1>6, <1>7, <1>8 DEF s

LEMMA StashAllFacts ==
    ASSUME NEW r \in Recorder, NEW calls \in Seq(ToolCall)
    PROVE  /\ StashAll(r, calls).stashed \in Seq(ToolCall)
           /\ StashAll(r, calls) = [r EXCEPT !.stashed = StashAll(r, calls).stashed]
           /\ StashAll(r, calls) \in Recorder
           /\ ToSet(StashAll(r, calls).stashed) \subseteq ToSet(r.stashed) \cup ToSet(calls)
<1>1. PICK k : /\ StashAll(r, calls) = k[Len(calls)] /\ k[0] = r
               /\ \A i \in 1 .. Len(calls) : k[i] = Stash(k[i - 1], calls[i])
  BY StashAllStep
<1> DEFINE With(s) == [r EXCEPT !.stashed = s]
           Good == {i \in 0 .. Len(calls) :
                      /\ k[i] \in Recorder /\ k[i] = With(k[i].stashed)
                      /\ k[i].stashed \in Seq(ToolCall)
                      /\ ToSet(k[i].stashed) \subseteq ToSet(r.stashed) \cup ToSet(calls)}
<1>2. Len(calls) \in Nat /\ DOMAIN calls = 1 .. Len(calls)
  OBVIOUS
<1>3. 0 \in Good
  BY <1>1, <1>2 DEF Recorder
<1>4. ASSUME NEW i \in 0 .. Len(calls) - 1, i \in Good PROVE i + 1 \in Good
  <2>1. i + 1 \in 1 .. Len(calls) /\ (i + 1) - 1 = i
    BY <1>2
  <2>2. k[i + 1] = Stash(k[i], calls[i + 1])
    BY <1>1, <2>1
  <2>3. calls[i + 1] \in ToolCall /\ calls[i + 1] \in ToSet(calls)
    BY <1>2, <2>1 DEF ToSet
  <2>4. k[i] \in Recorder /\ k[i] = With(k[i].stashed)
        /\ ToSet(k[i].stashed) \subseteq ToSet(r.stashed) \cup ToSet(calls)
    BY <1>4
  <2> HIDE DEF With
  <2>5. /\ k[i + 1].stashed \in Seq(ToolCall)
        /\ k[i + 1] = [k[i] EXCEPT !.stashed = k[i + 1].stashed]
        /\ k[i + 1] \in Recorder
        /\ ToSet(k[i + 1].stashed) \subseteq ToSet(k[i].stashed) \cup {calls[i + 1]}
    <3> DEFINE a == k[i]
               c == calls[i + 1]
    <3>1. a \in Recorder /\ c \in ToolCall
      BY <2>3, <2>4
    <3> HIDE DEF a, c
    <3>2. /\ Stash(a, c).stashed \in Seq(ToolCall)
          /\ Stash(a, c) = [a EXCEPT !.stashed = Stash(a, c).stashed]
          /\ Stash(a, c) \in Recorder
          /\ ToSet(Stash(a, c).stashed) \subseteq ToSet(a.stashed) \cup {c}
      BY <3>1, StashFacts
    <3>3. k[i + 1] = Stash(a, c)
      BY <2>2 DEF a, c
    <3> QED BY <3>2, <3>3 DEF a, c
  <2>6. ASSUME NEW s, NEW t PROVE [With(s) EXCEPT !.stashed = t] = With(t)
    BY DEF With, Recorder
  <2>7. k[i + 1] = With(k[i + 1].stashed)
    BY <2>4, <2>5, <2>6
  <2> QED BY <2>1, <2>3, <2>4, <2>5, <2>7
<1>5. Len(calls) \in Good
  <2> HIDE DEF Good
  <2>1. 0 .. Len(calls) \subseteq Good
    BY <1>2, <1>3, <1>4, Upwards
  <2> QED BY <1>2, <2>1
<1> QED BY <1>1, <1>5

(* The last element of a sequence that passes a test.                       *)
LEMMA LastOf ==
    ASSUME NEW n \in Nat, NEW I, I \subseteq 1 .. n, I # {}
    PROVE  Max(I) \in I
<1> DEFINE Good == {i \in 0 .. n : (\E x \in I : x <= i) =>
                                      \E x \in I : x <= i /\ \A y \in I : y <= i => x >= y}
<1>1. 0 \in Good
  OBVIOUS
<1>2. ASSUME NEW i \in 0 .. n - 1, i \in Good PROVE i + 1 \in Good
  <2>1. CASE i + 1 \in I
    <3>1. \A y \in I : y <= i + 1 => i + 1 >= y
      OBVIOUS
    <3> QED BY <2>1, <3>1
  <2>2. CASE i + 1 \notin I
    <3>1. \A y \in I : y <= i + 1 <=> y <= i
      BY <2>2
    <3> QED BY <1>2, <3>1
  <2> QED BY <2>1, <2>2
<1>3. n \in Good
  <2> HIDE DEF Good
  <2>1. 0 .. n \subseteq Good
    BY <1>1, <1>2, Upwards
  <2> QED BY <2>1
<1>4. \E x \in I : \A y \in I : x >= y
  <2>1. \A y \in I : y <= n
    OBVIOUS
  <2>2. \E x \in I : x <= n
    BY <2>1
  <2>3. \E x \in I : x <= n /\ \A y \in I : y <= n => x >= y
    BY <1>3, <2>2
  <2> QED BY <2>1, <2>3
<1> QED BY <1>4 DEF Max

LEMMA UnjournaledFacts ==
    ASSUME NEW r \in Recorder, NEW tool, UnjournaledByName(r, tool) # 0
    PROVE  /\ UnjournaledByName(r, tool) \in 1 .. Len(r.stashed)
           /\ r.stashed[UnjournaledByName(r, tool)].tool = tool
           /\ r.stashed[UnjournaledByName(r, tool)].id \notin r.journaled
<1> DEFINE I == {i \in 1 .. Len(r.stashed) :
                   r.stashed[i].tool = tool /\ r.stashed[i].id \notin r.journaled}
<1>1. UnjournaledByName(r, tool) = IF I # {} THEN Max(I) ELSE 0
  BY DEF UnjournaledByName, SelectLastInSeq
<1>2. Len(r.stashed) \in Nat
  BY DEF Recorder
<1>3. UnjournaledByName(r, tool) \in I
  <2>1. I # {} /\ I \subseteq 1 .. Len(r.stashed)
    BY <1>1
  <2> HIDE DEF I
  <2>2. Max(I) \in I
    BY <1>2, <2>1, LastOf
  <2> QED BY <1>1, <2>1, <2>2
<1> QED BY <1>3

LEMMA RemoveAtFacts ==
    ASSUME NEW S, NEW s \in Seq(S), NEW p \in 1 .. Len(s)
    PROVE  RemoveAt(s, p) \in Seq(S) /\ ToSet(RemoveAt(s, p)) \subseteq ToSet(s)
<1> DEFINE T == ToSet(s)
<1>1. \A i \in 1 .. Len(s) : s[i] \in T /\ s[i] \in S
  BY DEF ToSet
<1>2. /\ SubSeq(s, 1, p - 1) \in Seq(T) /\ SubSeq(s, p + 1, Len(s)) \in Seq(T)
      /\ SubSeq(s, 1, p - 1) \in Seq(S) /\ SubSeq(s, p + 1, Len(s)) \in Seq(S)
  <2> HIDE DEF T
  <2>1. p - 1 \in Int /\ p + 1 \in Int /\ Len(s) \in Int
        /\ 1 .. p - 1 \subseteq 1 .. Len(s) /\ p + 1 .. Len(s) \subseteq 1 .. Len(s)
    OBVIOUS
  <2> QED BY <1>1, <2>1, SubSeqProperties
<1>3. RemoveAt(s, p) \in Seq(S) /\ RemoveAt(s, p) \in Seq(T)
  <2> HIDE DEF T
  <2> QED BY <1>2, ConcatProperties DEF RemoveAt
<1> QED BY <1>3, ToSetFacts

(***************************************************************************)
(* How a step changes the journal: what is committed stays where it is, and *)
(* behind what is committed or appended come the events of the step, or the *)
(* first of them.                                                           *)
(***************************************************************************)

Grown(events) ==
  /\ log' \in Seq(Event) /\ buffer' \in Seq(Event)
  /\ \A i \in DOMAIN log : i \in DOMAIN log' /\ log'[i] = log[i]
  /\ \A i \in DOMAIN Journal' :
       \/ i \in DOMAIN Journal /\ Journal'[i] = Journal[i]
       \/ \E m \in DOMAIN events :
             i = Len(Journal) + m /\ Journal'[i] = events[m]

\* s is the beginning of t.
Begins(s, t) == Len(s) <= Len(t) /\ \A i \in 1 .. Len(s) : s[i] = t[i]

LEMMA EventsAssociate == \A u, v, w \in Seq(Event) : (u \o v) \o w = u \o (v \o w)
  BY ConcatAssociative

LEMMA GrownBy ==
    ASSUME TypeInv, NEW events \in Seq(Event), NEW x \in Seq(Event), NEW y \in Seq(Event),
           log' = log \o x, buffer' = y, Begins(x \o y, buffer \o events)
    PROVE  Grown(events)
<1>0. log \in Seq(Event) /\ buffer \in Seq(Event)
  BY DEF TypeInv
<1> DEFINE l == log
           b == buffer
<1>13. l \in Seq(Event) /\ b \in Seq(Event) /\ Begins(x \o y, b \o events)
  BY <1>0
<1> HIDE DEF l, b
<1> DEFINE e == events
           p == x \o y
           q == b \o e
<1>1. /\ Len(l) \in Nat /\ Len(b) \in Nat /\ Len(e) \in Nat
      /\ Len(x) \in Nat /\ Len(y) \in Nat
      /\ DOMAIN l = 1 .. Len(l) /\ DOMAIN e = 1 .. Len(e)
  BY <1>13
<1>2. /\ p \in Seq(Event) /\ Len(p) = Len(x) + Len(y)
      /\ q \in Seq(Event) /\ Len(q) = Len(b) + Len(e)
      /\ \A i \in 1 .. Len(b) + Len(e) : q[i] = IF i <= Len(b) THEN b[i] ELSE e[i - Len(b)]
  BY <1>13, ConcatProperties
<1>3. /\ l \o x \in Seq(Event) /\ Len(l \o x) = Len(l) + Len(x)
      /\ \A i \in 1 .. Len(l) + Len(x) :
            (l \o x)[i] = IF i <= Len(l) THEN l[i] ELSE x[i - Len(l)]
  BY <1>13, ConcatProperties
<1>4. /\ Len(l \o b) = Len(l) + Len(b) /\ l \o b \in Seq(Event)
      /\ \A i \in 1 .. Len(l) + Len(b) :
            (l \o b)[i] = IF i <= Len(l) THEN l[i] ELSE b[i - Len(l)]
  BY <1>13, ConcatProperties
<1>5. (l \o x) \o y = l \o p
  BY <1>13, EventsAssociate, ZenonT(40)
<1>6. /\ l \o p \in Seq(Event) /\ Len(l \o p) = Len(l) + Len(p)
      /\ \A i \in 1 .. Len(l) + Len(p) :
            (l \o p)[i] = IF i <= Len(l) THEN l[i] ELSE p[i - Len(l)]
  <2>1. p \in Seq(Event)
    BY <1>2
  <2> HIDE DEF p
  <2> QED BY <1>13, <2>1, ConcatProperties
<1>7. Len(p) <= Len(q) /\ \A i \in 1 .. Len(p) : p[i] = q[i]
  BY <1>13 DEF Begins
<1> HIDE DEF p, q
<1>8. /\ DOMAIN (l \o p) = 1 .. Len(l) + Len(p) /\ DOMAIN (l \o b) = 1 .. Len(l) + Len(b)
      /\ DOMAIN (l \o x) = 1 .. Len(l) + Len(x)
      /\ Len(p) \in Nat /\ Len(q) \in Nat
  BY <1>2, <1>3, <1>4, <1>6, LenProperties
<1>9. \A i \in DOMAIN l : i \in DOMAIN (l \o x) /\ (l \o x)[i] = l[i]
  BY <1>1, <1>3, <1>8
<1>10. ASSUME NEW i \in DOMAIN (l \o p)
       PROVE  \/ i \in DOMAIN (l \o b) /\ (l \o p)[i] = (l \o b)[i]
              \/ \E m \in DOMAIN e : i = Len(l \o b) + m /\ (l \o p)[i] = e[m]
  <2>1. CASE i <= Len(l)
    BY <2>1, <1>1, <1>4, <1>6, <1>8
  <2>2. CASE ~(i <= Len(l)) /\ i - Len(l) <= Len(b)
    <3>1. (l \o p)[i] = p[i - Len(l)] /\ i - Len(l) \in 1 .. Len(p)
      BY <2>2, <1>1, <1>6, <1>8
    <3>2. p[i - Len(l)] = q[i - Len(l)] /\ i - Len(l) \in 1 .. Len(b) + Len(e)
      BY <3>1, <1>1, <1>2, <1>7, <1>8
    <3>3. q[i - Len(l)] = b[i - Len(l)]
      BY <2>2, <3>2, <1>2
    <3>4. i \in DOMAIN (l \o b) /\ (l \o b)[i] = b[i - Len(l)]
      BY <2>2, <1>1, <1>4, <1>8
    <3> QED BY <3>1, <3>2, <3>3, <3>4
  <2>3. CASE ~(i <= Len(l)) /\ ~(i - Len(l) <= Len(b))
    <3>1. (l \o p)[i] = p[i - Len(l)] /\ i - Len(l) \in 1 .. Len(p)
      BY <2>3, <1>1, <1>6, <1>8
    <3>2. p[i - Len(l)] = q[i - Len(l)] /\ i - Len(l) \in 1 .. Len(b) + Len(e)
      BY <3>1, <1>1, <1>2, <1>7, <1>8
    <3>3. q[i - Len(l)] = e[(i - Len(l)) - Len(b)]
      BY <2>3, <3>2, <1>2
    <3>4. (i - Len(l)) - Len(b) \in DOMAIN e /\ i = Len(l \o b) + ((i - Len(l)) - Len(b))
      <4>1. i \in Int
        BY <1>8
      <4>2. i - Len(l) \in 1 .. Len(b) + Len(e)
        BY <3>2
      <4> QED BY <2>3, <4>1, <4>2, <1>1, <1>4
    <3> QED BY <3>1, <3>2, <3>3, <3>4
  <2> QED BY <2>1, <2>2, <2>3
<1>11. log' = l \o x /\ buffer' = y /\ Journal' = (l \o x) \o y
       /\ Journal = l \o b /\ log = l
  BY DEF Journal, l, b
<1> QED BY <1>3, <1>5, <1>9, <1>10, <1>11 DEF Grown, e

(* The beginnings that occur.                                               *)
LEMMA BeginsFacts ==
    ASSUME NEW S, NEW s \in Seq(S)
    PROVE  /\ Begins(s, s) /\ Begins(<<>>, s)
           /\ \A t \in Seq(S) : Begins(s, s \o t)
           /\ \A k \in 0 .. Len(s) : SubSeq(s, 1, k) \in Seq(S) /\ Begins(SubSeq(s, 1, k), s)
<1>1. Len(s) \in Nat
  OBVIOUS
<1>2. Begins(s, s) /\ Begins(<<>>, s)
  BY <1>1 DEF Begins
<1>3. ASSUME NEW t \in Seq(S) PROVE Begins(s, s \o t)
  <2>1. Len(t) \in Nat
    OBVIOUS
  <2> QED BY <1>1, <2>1, ConcatProperties DEF Begins
<1>4. ASSUME NEW k \in 0 .. Len(s)
      PROVE  SubSeq(s, 1, k) \in Seq(S) /\ Begins(SubSeq(s, 1, k), s)
  <2>1. \A i \in 1 .. k : s[i] \in S
    BY <1>1
  <2>2. /\ SubSeq(s, 1, k) \in Seq(S)
        /\ Len(SubSeq(s, 1, k)) = IF 1 <= k THEN k - 1 + 1 ELSE 0
        /\ \A i \in 1 .. k - 1 + 1 : SubSeq(s, 1, k)[i] = s[1 + i - 1]
    BY <2>1, SubSeqProperties
  <2> QED BY <1>1, <2>2 DEF Begins
<1> QED BY <1>2, <1>3, <1>4

LEMMA JournalTyped ==
    ASSUME TypeInv
    PROVE  /\ log \in Seq(Event) /\ buffer \in Seq(Event) /\ Journal \in Seq(Event)
           /\ DOMAIN log = 1 .. Len(log) /\ DOMAIN Journal = 1 .. Len(Journal)
           /\ Len(log) \in Nat /\ Len(Journal) \in Nat
           /\ \A i \in DOMAIN log : i \in DOMAIN Journal /\ Journal[i] = log[i]
           /\ \A i \in DOMAIN Journal : Journal[i] \in Event
           /\ ToSet(Journal) = ToSet(log) \cup ToSet(buffer)
<1>1. log \in Seq(Event) /\ buffer \in Seq(Event)
  BY DEF TypeInv
<1>2. /\ log \o buffer \in Seq(Event) /\ Len(log \o buffer) = Len(log) + Len(buffer)
      /\ \A i \in 1 .. Len(log) + Len(buffer) :
            (log \o buffer)[i] = IF i <= Len(log) THEN log[i] ELSE buffer[i - Len(log)]
  BY <1>1, ConcatProperties
<1>3. Len(log) \in Nat /\ Len(buffer) \in Nat /\ DOMAIN log = 1 .. Len(log)
  BY <1>1
<1>4. DOMAIN Journal = 1 .. Len(Journal) /\ \A i \in DOMAIN Journal : Journal[i] \in Event
  BY <1>2 DEF Journal
<1>5. ToSet(Journal) = ToSet(log) \cup ToSet(buffer)
  BY <1>1, ToSetConcat DEF Journal
<1> QED BY <1>1, <1>2, <1>3, <1>4, <1>5 DEF Journal

LEMMA EventsConcat ==
    \A s, t \in Seq(Event) :
       /\ s \o t \in Seq(Event) /\ ToSet(s \o t) = ToSet(s) \cup ToSet(t)
       /\ s \o <<>> = s /\ <<>> \o s = s
       /\ Len(s \o t) = Len(s) + Len(t)
<1> TAKE s, t \in Seq(Event)
<1>1. s \o t \in Seq(Event) /\ ToSet(s \o t) = ToSet(s) \cup ToSet(t)
  BY ToSetConcat
<1>2. s \o <<>> = s /\ <<>> \o s = s
  BY ConcatEmptySeq
<1>3. Len(s \o t) = Len(s) + Len(t)
  BY ConcatProperties
<1> QED BY <1>1, <1>2, <1>3

LEMMA EventBegins ==
    \A s \in Seq(Event) :
       /\ Begins(s, s) /\ Begins(<<>>, s)
       /\ \A t \in Seq(Event) : Begins(s, s \o t)
       /\ \A k \in 0 .. Len(s) :
             SubSeq(s, 1, k) \in Seq(Event) /\ Begins(SubSeq(s, 1, k), s)
  BY BeginsFacts

LEMMA NoEvents == <<>> \in Seq(Event) /\ ToSet(<<>>) = {}
  BY ToSetFacts

(* A step that leaves the journal alone, or loses what is not committed.    *)
LEMMA GrownByNothing ==
    ASSUME TypeInv, NEW events \in Seq(Event), log' = log,
           buffer' = buffer \/ buffer' = <<>>
    PROVE  Grown(events)
<1>1. /\ log \in Seq(Event) /\ buffer \in Seq(Event) /\ <<>> \in Seq(Event)
      /\ log' = log \o <<>>
  BY EventsConcat, NoEvents DEF TypeInv
<1>2. ASSUME buffer' = buffer PROVE Grown(events)
  <2>1. Begins(<<>> \o buffer, buffer \o events)
    BY <1>1, EventsConcat, EventBegins
  <2> QED BY <1>1, <1>2, <2>1, GrownBy
<1>3. ASSUME buffer' = <<>> PROVE Grown(events)
  <2>1. buffer \o events \in Seq(Event) /\ <<>> \o <<>> = <<>>
    BY <1>1, EventsConcat
  <2>2. Begins(<<>> \o <<>>, buffer \o events)
    BY <2>1, EventBegins
  <2> QED BY <1>1, <1>3, <2>2, GrownBy
<1> QED BY <1>2, <1>3

(* A step that appends events and commits nothing.                          *)
LEMMA GrownByAppend ==
    ASSUME TypeInv, NEW events \in Seq(Event), log' = log, buffer' = buffer \o events
    PROVE  Grown(events) /\ Journal' = Journal \o events
<1>1. /\ log \in Seq(Event) /\ buffer \in Seq(Event) /\ <<>> \in Seq(Event)
      /\ log' = log \o <<>> /\ buffer \o events \in Seq(Event)
  BY EventsConcat, NoEvents DEF TypeInv
<1>2. Begins(<<>> \o (buffer \o events), buffer \o events)
  BY <1>1, EventsConcat, EventBegins
<1>3. Grown(events)
  BY <1>1, <1>2, GrownBy
<1>4. Journal' = Journal \o events
  BY <1>1, EventsAssociate DEF Journal
<1> QED BY <1>3, <1>4

(* A flush.                                                                 *)
LEMMA DurablyFacts ==
    ASSUME TypeInv, NEW events \in Seq(Event), NEW ok \in BOOLEAN, Durably(events, ok)
    PROVE  /\ Grown(events) /\ fatal' \in BOOLEAN
           /\ ok => /\ ~fatal /\ ~fatal' /\ buffer' = <<>>
                    /\ log' = Journal \o events /\ Journal' = log'
           /\ ~fatal' => Journal' = Journal \o events /\ ~fatal
<1> DEFINE all == buffer \o events
<1>1. /\ log \in Seq(Event) /\ buffer \in Seq(Event) /\ <<>> \in Seq(Event)
      /\ all \in Seq(Event) /\ Len(all) \in Nat
  BY EventsConcat, NoEvents DEF TypeInv
<1>2. log \o all = Journal \o events
  BY <1>1, EventsAssociate DEF Journal
<1>3. CASE ok /\ ~fatal /\ log' = log \o all /\ buffer' = <<>> /\ UNCHANGED <<fatal, faults>>
  <2>1. Begins(all \o <<>>, all) /\ all \o <<>> = all
    BY <1>1, EventsConcat, EventBegins
  <2>2. Grown(events)
    BY <1>1, <1>3, <2>1, GrownBy
  <2>3. Journal' = log'
    <3>1. log \o all \in Seq(Event)
      BY <1>1, EventsConcat
    <3>2. (log \o all) \o <<>> = log \o all
      BY <3>1, EventsConcat
    <3> QED BY <1>3, <3>2 DEF Journal
  <2>4. fatal' \in BOOLEAN /\ ~fatal'
    BY <1>3 DEF TypeInv
  <2> QED BY <1>2, <1>3, <2>2, <2>3, <2>4
<1>4. CASE ~ok /\ ~fatal /\ buffer' = all /\ UNCHANGED <<log, fatal>>
  <2>1. log' = log /\ buffer' = buffer \o events
    BY <1>4
  <2>2. Grown(events) /\ Journal' = Journal \o events
    BY <2>1, GrownByAppend
  <2>3. fatal' \in BOOLEAN
    BY <1>4 DEF TypeInv
  <2> QED BY <1>4, <2>2, <2>3
<1>5. CASE /\ ~ok /\ \E k \in 0 .. Len(all) : log' = log \o SubSeq(all, 1, k)
           /\ buffer' = <<>> /\ fatal' = TRUE
  <2>1. PICK k \in 0 .. Len(all) : log' = log \o SubSeq(all, 1, k)
    BY <1>5
  <2> DEFINE x == SubSeq(all, 1, k)
  <2>2. x \in Seq(Event) /\ Begins(x, all)
    BY <1>1, EventBegins
  <2> HIDE DEF x
  <2>3. x \o <<>> = x
    BY <2>2, EventsConcat
  <2>4. log' = log \o x /\ Begins(x \o <<>>, buffer \o events)
    BY <2>1, <2>2, <2>3 DEF x
  <2>5. Grown(events)
    BY <1>1, <1>5, <2>2, <2>4, GrownBy
  <2> QED BY <1>5, <2>5
<1>6. CASE ~ok /\ fatal /\ UNCHANGED journal
  <2>1. log' = log /\ buffer' = buffer /\ fatal' = fatal
    BY <1>6 DEF journal
  <2>2. Grown(events)
    BY <2>1, GrownByNothing
  <2>3. fatal' \in BOOLEAN
    BY <2>1 DEF TypeInv
  <2> QED BY <1>6, <2>1, <2>2, <2>3
<1> QED BY <1>3, <1>4, <1>5, <1>6 DEF Durably

(* append_quietly, and append_quietly with flush_quietly.                   *)
LEMMA RecordFacts ==
    ASSUME TypeInv, NEW r \in Recorder, NEW events \in Seq(Event), Record(r, events)
    PROVE  /\ Grown(events) /\ fatal' = fatal
           /\ rec' = [r EXCEPT !.error = rec'.error] /\ rec' \in Recorder
           /\ wanted' = wanted \cup ToSet(events)
           /\ ToSet(log) \subseteq ToSet(log') /\ ToSet(Journal) \subseteq ToSet(Journal')
           /\ ~rec'.error => ~r.error /\ (~fatal => ToSet(events) \subseteq ToSet(Journal'))
<1> USE DEF Record
<1>1. /\ rec' = [r EXCEPT !.error = rec'.error] /\ rec' \in Recorder
      /\ ~rec'.error => ~r.error /\ ~(fatal /\ events # <<>>)
  <2>1. r.error \in BOOLEAN /\ fatal \in BOOLEAN
    BY DEF Recorder, TypeInv
  <2> DEFINE b == r.error \/ (fatal /\ events # <<>>)
  <2>2. rec' = [r EXCEPT !.error = b]
    OBVIOUS
  <2>3. b \in BOOLEAN
    BY <2>1
  <2>4. \A x \in BOOLEAN : [r EXCEPT !.error = x].error = x
    BY DEF Recorder
  <2>5. \A x \in BOOLEAN : [r EXCEPT !.error = x] \in Recorder
    BY RecorderTyped
  <2>6. ~b => ~r.error /\ ~(fatal /\ events # <<>>)
    OBVIOUS
  <2> HIDE DEF b
  <2> QED BY <2>2, <2>3, <2>4, <2>5, <2>6
<1>2. CASE r.error \/ fatal \/ events = <<>>
  <2>1. log' = log /\ buffer' = buffer
    BY <1>2
  <2>2. Grown(events)
    BY <2>1, GrownByNothing
  <2>3. Journal' = Journal
    BY <2>1 DEF Journal
  <2> QED BY <1>1, <1>2, <2>1, <2>2, <2>3, NoEvents
<1>3. CASE ~(r.error \/ fatal \/ events = <<>>)
  <2>1. log' = log /\ buffer' = buffer \o events
    BY <1>3
  <2>2. Grown(events) /\ Journal' = Journal \o events
    BY <2>1, GrownByAppend
  <2>3. ToSet(Journal') = ToSet(Journal) \cup ToSet(events)
    BY <2>2, JournalTyped, EventsConcat
  <2> QED BY <1>1, <1>3, <2>1, <2>2, <2>3
<1> QED BY <1>2, <1>3

(* What is committed stays so.                                              *)
LEMMA GrownKeepsLog ==
    ASSUME NEW events, Grown(events)
    PROVE  ToSet(log) \subseteq ToSet(log')
  BY DEF Grown, ToSet

LEMMA RecordFlushFacts ==
    ASSUME TypeInv, NEW r \in Recorder, NEW events \in Seq(Event), RecordFlush(r, events)
    PROVE  /\ Grown(events) /\ fatal' \in BOOLEAN
           /\ rec' = [r EXCEPT !.error = rec'.error] /\ rec' \in Recorder
           /\ wanted' = wanted \cup ToSet(events)
           /\ ToSet(log) \subseteq ToSet(log')
           /\ ~rec'.error => ~r.error /\ ~fatal /\ ~fatal' /\ Journal' = log' /\ buffer' = <<>>
                             /\ log' = Journal \o events
<1> USE DEF RecordFlush
<1>1. CASE r.error
  <2>1. log' = log /\ buffer' = buffer /\ fatal' = fatal /\ rec' = r
    BY <1>1 DEF journal
  <2>2. Grown(events)
    BY <2>1, GrownByNothing
  <2>3. r = [r EXCEPT !.error = r.error]
    BY DEF Recorder
  <2>4. fatal' \in BOOLEAN
    BY <2>1 DEF TypeInv
  <2> QED BY <1>1, <2>1, <2>2, <2>3, <2>4
<1>2. CASE ~r.error
  <2>1. PICK ok \in BOOLEAN : Durably(events, ok) /\ rec' = [r EXCEPT !.error = ~ok]
    BY <1>2
  <2>2. /\ Grown(events) /\ fatal' \in BOOLEAN
        /\ ok => /\ ~fatal /\ ~fatal' /\ buffer' = <<>>
                 /\ log' = Journal \o events /\ Journal' = log'
    BY <2>1, DurablyFacts
  <2>3. \A x \in BOOLEAN : /\ [r EXCEPT !.error = x].error = x
                           /\ [r EXCEPT !.error = x] \in Recorder
    BY RecorderTyped DEF Recorder
  <2>4. (~ok) \in BOOLEAN
    OBVIOUS
  <2>5. rec'.error = ~ok /\ rec' \in Recorder
    BY <2>1, <2>3, <2>4
  <2>6. ToSet(log) \subseteq ToSet(log')
    BY <2>2, GrownKeepsLog
  <2> QED BY <1>2, <2>1, <2>2, <2>5, <2>6
<1>3. r.error \in BOOLEAN
  BY DEF Recorder
<1> QED BY <1>1, <1>2, <1>3

(* The writer.                                                              *)
LEMMA DrainFacts ==
    ASSUME TypeInv, Drain
    PROVE  Grown(<<>>) /\ Journal' = Journal
<1>1. PICK k \in 1 .. Len(buffer) :
         /\ log' = log \o SubSeq(buffer, 1, k)
         /\ buffer' = SubSeq(buffer, k + 1, Len(buffer))
  BY DEF Drain
<1> DEFINE x == SubSeq(buffer, 1, k)
           y == SubSeq(buffer, k + 1, Len(buffer))
<1>2. log \in Seq(Event) /\ buffer \in Seq(Event) /\ Len(buffer) \in Nat
  BY DEF TypeInv
<1>3. x \in Seq(Event) /\ y \in Seq(Event)
  <2>1. \A i \in 1 .. Len(buffer) : buffer[i] \in Event
    BY <1>2
  <2>2. 1 .. k \subseteq 1 .. Len(buffer) /\ k + 1 .. Len(buffer) \subseteq 1 .. Len(buffer)
        /\ k \in Int /\ k + 1 \in Int /\ Len(buffer) \in Int
    BY <1>2
  <2> QED BY <2>1, <2>2, SubSeqProperties
<1>4. x \o y = buffer
  <2>1. \A s \in Seq(Event) : \A i \in 1 .. Len(s) :
           SubSeq(s, 1, i) \o SubSeq(s, i + 1, Len(s)) = s
    <3> SUFFICES ASSUME NEW s \in Seq(Event), NEW i \in 1 .. Len(s)
                 PROVE  SubSeq(s, 1, i) \o SubSeq(s, i + 1, Len(s)) = s
      OBVIOUS
    <3>1. Len(s) \in Nat /\ 1 \in 1 .. Len(s) + 1 /\ i \in 1 - 1 .. Len(s)
          /\ Len(s) \in i .. Len(s)
      OBVIOUS
    <3>2. SubSeq(s, 1, i) \o SubSeq(s, i + 1, Len(s)) = SubSeq(s, 1, Len(s))
      BY <3>1, ConcatAdjacentSubSeq
    <3> QED BY <3>2, SubSeqFull
  <2> QED BY <2>1, <1>2
<1> HIDE DEF x, y
<1>5. log' = log \o x /\ buffer' = y
  BY <1>1 DEF x, y
<1>6. Journal' = Journal
  BY <1>2, <1>3, <1>4, <1>5, EventsAssociate DEF Journal
<1>7. <<>> \in Seq(Event) /\ buffer \o <<>> = buffer /\ Begins(buffer, buffer)
  BY <1>2, NoEvents, EventsConcat, EventBegins
<1>8. Begins(x \o y, buffer \o <<>>)
  BY <1>4, <1>7
<1>9. Grown(<<>>)
  BY <1>3, <1>5, <1>7, <1>8, GrownBy
<1> QED BY <1>6, <1>9

-----------------------------------------------------------------------------
(* A step of run t, seen from the journal: nothing it writes names a call   *)
(* that was executed, or a call that nobody asked for.                      *)

Speaks(events, t) ==
  /\ events \in Seq(Event) /\ Grown(events)
  /\ offered \subseteq offered' /\ blind \subseteq blind'
  /\ \A m \in DOMAIN events :
       /\ events[m].turn = t
       /\ events[m].type = "assistant/message" =>
            \A id \in ToSet(events[m].calls) :
               Asked(t, id)' /\ (Unique(t, id)' => ~Ran(t, id))
       /\ events[m].type = "tool/result" => Asked(t, events[m].id)'

\* It belongs to a run that has begun, and none that began later.
Writes(events, t) ==
  /\ Speaks(events, t) /\ turns' = turns
  /\ events # <<>> => /\ Begun(t) /\ t \in 1 .. turns
                      /\ \A i \in DOMAIN Journal : Journal[i].turn <= t
  /\ \A m \in DOMAIN events : events[m].type # "turn/start"

LEMMA SeqsJoined ==
    \A u, v \in Seq(Event) :
       /\ u \o v \in Seq(Event) /\ DOMAIN (u \o v) = 1 .. Len(u \o v) /\ Len(u \o v) \in Nat
       /\ DOMAIN u = 1 .. Len(u) /\ Len(u) \in Nat /\ Len(u) <= Len(u \o v)
       /\ \A i \in DOMAIN u : i \in DOMAIN (u \o v) /\ (u \o v)[i] = u[i]
       /\ \A i \in DOMAIN (u \o v) : (u \o v)[i] \in Event
  OBVIOUS

LEMMA JournalGrown ==
    ASSUME TypeInv, NEW events \in Seq(Event), Grown(events)
    PROVE  /\ Journal' \in Seq(Event) /\ DOMAIN Journal' = 1 .. Len(Journal')
           /\ Len(Journal') \in Nat
           /\ \A i \in DOMAIN log' : i \in DOMAIN Journal' /\ Journal'[i] = log'[i]
           /\ \A i \in DOMAIN Journal' : Journal'[i] \in Event
           /\ \A i \in DOMAIN Journal' : i \in DOMAIN Journal => Journal'[i] = Journal[i]
           /\ \A i \in DOMAIN Journal' : i \notin DOMAIN Journal =>
                 \E m \in DOMAIN events : Journal'[i] = events[m] /\ i > Len(Journal)
<1>1. log' \in Seq(Event) /\ buffer' \in Seq(Event) /\ Journal' = log' \o buffer'
  BY DEF Grown, Journal
<1>2. /\ Journal' \in Seq(Event) /\ DOMAIN Journal' = 1 .. Len(Journal')
      /\ Len(Journal') \in Nat
      /\ \A i \in DOMAIN log' : i \in DOMAIN Journal' /\ Journal'[i] = log'[i]
      /\ \A i \in DOMAIN Journal' : Journal'[i] \in Event
  BY <1>1, SeqsJoined
<1>3. DOMAIN Journal = 1 .. Len(Journal) /\ Len(Journal) \in Nat
      /\ DOMAIN events = 1 .. Len(events) /\ Len(events) \in Nat
  BY JournalTyped
<1>4. ASSUME NEW i \in DOMAIN Journal'
      PROVE  /\ i \in DOMAIN Journal => Journal'[i] = Journal[i]
             /\ i \notin DOMAIN Journal =>
                  \E m \in DOMAIN events : Journal'[i] = events[m] /\ i > Len(Journal)
  BY <1>3 DEF Grown
<1> QED BY <1>2, <1>4

(* What stands in the journal behind such a step: what stood there, or one  *)
(* of its events, behind everything else.                                   *)
LEMMA WritesJournal ==
    ASSUME TypeInv, NEW events, NEW t, Speaks(events, t)
    PROVE  /\ DOMAIN Journal' = 1 .. Len(Journal') /\ DOMAIN Journal = 1 .. Len(Journal)
           /\ Len(Journal) \in Nat /\ Len(Journal') \in Nat
           /\ \A i \in DOMAIN log : /\ i \in DOMAIN log' /\ log'[i] = log[i]
                                    /\ i \in DOMAIN Journal /\ Journal[i] = log[i]
           /\ \A i \in DOMAIN log' : i \in DOMAIN Journal' /\ Journal'[i] = log'[i]
           /\ \A i \in DOMAIN Journal' : i \in DOMAIN Journal => Journal'[i] = Journal[i]
           /\ \A i \in DOMAIN Journal' : i \notin DOMAIN Journal =>
                 \E m \in DOMAIN events : Journal'[i] = events[m] /\ i > Len(Journal)
           /\ \A i \in DOMAIN Journal : Journal[i] \in Event
           /\ \A i \in DOMAIN Journal' : Journal'[i] \in Event
<1>1. events \in Seq(Event) /\ Grown(events)
  BY DEF Speaks
<1>2. \A i \in DOMAIN log : i \in DOMAIN log' /\ log'[i] = log[i]
  BY <1>1 DEF Grown
<1> QED BY <1>1, <1>2, JournalTyped, JournalGrown

LEMMA BegunKept ==
    ASSUME TypeInv, NEW events, Grown(events), NEW t, Begun(t)
    PROVE  Begun(t)'
  BY DEF Begun, Grown, TurnStart

LEMMA TurnsKept ==
    ASSUME TypeInv, TurnOrder, NEW events, NEW t, Writes(events, t)
    PROVE  TurnOrder'
<1>0. /\ DOMAIN Journal' = 1 .. Len(Journal') /\ DOMAIN Journal = 1 .. Len(Journal)
      /\ Len(Journal) \in Nat /\ Len(Journal') \in Nat
      /\ \A i \in DOMAIN log : /\ i \in DOMAIN log' /\ log'[i] = log[i]
                               /\ i \in DOMAIN Journal /\ Journal[i] = log[i]
      /\ \A i \in DOMAIN log' : i \in DOMAIN Journal' /\ Journal'[i] = log'[i]
      /\ \A i \in DOMAIN Journal' : i \in DOMAIN Journal => Journal'[i] = Journal[i]
      /\ \A i \in DOMAIN Journal' : i \notin DOMAIN Journal =>
            \E m \in DOMAIN events : Journal'[i] = events[m] /\ i > Len(Journal)
  BY WritesJournal DEF Writes
<1>1. /\ turns' = turns
      /\ events # <<>> => /\ Begun(t) /\ t \in 1 .. turns
                          /\ \A i \in DOMAIN Journal : Journal[i].turn <= t
      /\ \A m \in DOMAIN events : events[m].turn = t /\ events[m].type # "turn/start"
  BY DEF Writes, Speaks
<1>t. turns \in Nat /\ \A i \in DOMAIN Journal : Journal[i].turn \in 1 .. turns
  BY DEF TypeInv, TurnOrder
<1> DEFINE J == Journal
           K == Journal'
<1>2. ASSUME NEW i \in DOMAIN K, i \notin DOMAIN J
      PROVE  /\ K[i].turn = t /\ K[i].type # "turn/start" /\ i > Len(J)
             /\ Begun(t) /\ t \in 1 .. turns
             /\ \A j \in DOMAIN J : J[j].turn <= t
  <2>1. PICK m \in DOMAIN events : K[i] = events[m] /\ i > Len(J)
    BY <1>0, <1>2
  <2>2. events # <<>>
    BY <2>1
  <2> QED BY <1>1, <2>1, <2>2
<1> HIDE DEF J, K
<1>3. ASSUME NEW i \in DOMAIN K
      PROVE  K[i].turn \in 1 .. turns /\ \E j \in DOMAIN K : j <= i /\ K[j] = TurnStart(K[i].turn)
  <2>1. CASE i \in DOMAIN J
    <3>1. K[i] = J[i]
      BY <1>0, <2>1 DEF J, K
    <3>2. PICK j \in DOMAIN J : j <= i /\ J[j] = TurnStart(J[i].turn)
      BY <2>1 DEF TurnOrder, J
    <3>3. j \in DOMAIN K
      BY <1>0, <3>2 DEF J, K
    <3>4. K[j] = J[j]
      BY <1>0, <3>2, <3>3 DEF J, K
    <3>5. J[i].turn \in 1 .. turns
      BY <1>t, <2>1 DEF J
    <3> QED BY <3>1, <3>2, <3>3, <3>4, <3>5
  <2>2. CASE i \notin DOMAIN J
    <3>1. K[i].turn = t /\ t \in 1 .. turns /\ Begun(t) /\ i > Len(J)
      BY <1>2, <2>2
    <3>2. PICK j \in DOMAIN log : log[j] = TurnStart(t)
      BY <3>1 DEF Begun
    <3>3. j \in DOMAIN K /\ K[j] = TurnStart(t) /\ j \in DOMAIN J
      BY <1>0, <3>2 DEF K, J
    <3>4. j <= i
      BY <1>0, <3>1, <3>3 DEF J, K
    <3> QED BY <3>1, <3>3, <3>4
  <2> QED BY <2>1, <2>2
<1>4. ASSUME NEW i \in DOMAIN K, NEW j \in DOMAIN K, i <= j
      PROVE  K[i].turn <= K[j].turn
  <2>1. CASE j \in DOMAIN J
    <3>1. i \in DOMAIN J
      BY <1>0, <1>4, <2>1 DEF J, K
    <3>2. K[i] = J[i] /\ K[j] = J[j]
      BY <1>0, <2>1, <3>1 DEF J, K
    <3> QED BY <1>4, <2>1, <3>1, <3>2 DEF TurnOrder, J
  <2>2. CASE j \notin DOMAIN J
    <3>1. K[j].turn = t /\ t \in Nat /\ \A l \in DOMAIN J : J[l].turn <= t
      BY <1>2, <2>2, <1>t
    <3>2. CASE i \in DOMAIN J
      BY <1>0, <3>1, <3>2 DEF J, K
    <3>3. CASE i \notin DOMAIN J
      BY <1>2, <3>1, <3>3
    <3> QED BY <3>2, <3>3
  <2> QED BY <2>1, <2>2
<1>5. ASSUME NEW i \in DOMAIN K, NEW j \in DOMAIN K,
             K[i].type = "turn/start", K[j].turn = K[i].turn
      PROVE  i <= j
  <2>1. i \in DOMAIN J
    BY <1>2, <1>5
  <2>2. K[i] = J[i]
    BY <1>0, <2>1 DEF J, K
  <2>3. CASE j \in DOMAIN J
    <3>1. K[j] = J[j]
      BY <1>0, <2>3 DEF J, K
    <3> QED BY <1>5, <2>1, <2>2, <2>3, <3>1 DEF TurnOrder, J
  <2>4. CASE j \notin DOMAIN J
    BY <1>0, <1>2, <2>1, <2>4 DEF J, K
  <2> QED BY <2>3, <2>4
<1> QED BY <1>1, <1>3, <1>4, <1>5 DEF TurnOrder, K

LEMMA AskedGrows ==
    ASSUME offered \subseteq offered'
    PROVE  /\ \A t, id : Asked(t, id) => Asked(t, id)'
           /\ \A t, id : Unique(t, id)' => Unique(t, id)
  BY DEF Asked, Unique

LEMMA AskedKept ==
    ASSUME TypeInv, AskedInJournal, NEW events, NEW t, Speaks(events, t)
    PROVE  AskedInJournal'
<1>1. /\ \A i \in DOMAIN Journal' : i \in DOMAIN Journal => Journal'[i] = Journal[i]
      /\ \A i \in DOMAIN Journal' : i \notin DOMAIN Journal =>
            \E m \in DOMAIN events : Journal'[i] = events[m]
  BY WritesJournal
<1>2. /\ \A u, id : Asked(u, id) => Asked(u, id)'
      /\ \A m \in DOMAIN events :
           /\ events[m].turn = t
           /\ events[m].type = "assistant/message" =>
                \A id \in ToSet(events[m].calls) : Asked(t, id)'
           /\ events[m].type = "tool/result" => Asked(t, events[m].id)'
  BY AskedGrows DEF Speaks
<1> DEFINE Fine(e) == /\ e.type = "tool/result" => Asked(e.turn, e.id)'
                      /\ e.type = "assistant/message" =>
                           \A id \in ToSet(e.calls) : Asked(e.turn, id)'
<1>3. ASSUME NEW i \in DOMAIN Journal, NEW e, e = Journal[i] PROVE Fine(e)
  <2>1. /\ e.type = "tool/result" => Asked(e.turn, e.id)
        /\ e.type = "assistant/message" => \A id \in ToSet(e.calls) : Asked(e.turn, id)
    BY <1>3 DEF AskedInJournal
  <2> QED BY <1>2, <2>1
<1>4. \A m \in DOMAIN events : Fine(events[m])
  BY <1>2
<1> HIDE DEF Fine
<1>5. ASSUME NEW i \in DOMAIN Journal', NEW e, e = Journal'[i] PROVE Fine(e)
  <2>1. CASE i \in DOMAIN Journal
    BY <1>1, <1>3, <1>5, <2>1
  <2>2. CASE i \notin DOMAIN Journal
    BY <1>1, <1>4, <1>5, <2>2
  <2> QED BY <2>1, <2>2
<1>6. \A i \in DOMAIN Journal' : \A e : e = Journal'[i] =>
         /\ e.type = "tool/result" => Asked(e.turn, e.id)'
         /\ e.type = "assistant/message" => \A id \in ToSet(e.calls) : Asked(e.turn, id)'
  BY <1>5 DEF Fine
<1> QED BY <1>6 DEF AskedInJournal

(* A barrier stays behind the messages that name its call, as long as no    *)
(* other message does.                                                      *)
LEMMA BarredKept ==
    ASSUME TypeInv, NEW events, NEW t, Speaks(events, t), NEW u, NEW id, Barred(u, id),
           \A m \in DOMAIN events : ~Names(events[m], u, id)
    PROVE  Barred(u, id)'
<1>1. PICK j \in DOMAIN log :
         /\ log[j].type = "tool/call" /\ log[j].turn = u /\ log[j].id = id
         /\ \A i \in DOMAIN Journal : Names(Journal[i], u, id) => i < j
  BY DEF Barred
<1>2. j \in DOMAIN log' /\ log'[j] = log[j]
  BY WritesJournal
<1>3. ASSUME NEW i \in DOMAIN Journal', Names(Journal'[i], u, id) PROVE i < j
  <2>1. i \in DOMAIN Journal
    BY <1>3, WritesJournal
  <2>2. Journal'[i] = Journal[i]
    BY <2>1, WritesJournal
  <2> QED BY <1>1, <1>3, <2>1, <2>2
<1> QED BY <1>1, <1>2, <1>3 DEF Barred, Names

LEMMA BarrierKept ==
    ASSUME TypeInv, NEW events, NEW t, Speaks(events, t), NEW u, NEW id,
           Ran(u, id), Unique(u, id)', Barred(u, id)
    PROVE  Barred(u, id)'
<1>1. ASSUME NEW m \in DOMAIN events, Names(events[m], u, id) PROVE FALSE
  BY <1>1 DEF Speaks, Names
<1> QED BY <1>1, BarredKept

(* The calls a step executes: the one at the head of the queue.             *)
Executes ==
  \/ ran' = ran
  \/ /\ pc = "invoke" /\ UNCHANGED <<log, buffer, blind, offered>>
     /\ ran' = ran \cup {[turn |-> rec.turn, id |-> todo[1].id]}

LEMMA RanKept ==
    ASSUME TypeInv, ShapeInv, AskedLocal, BarrierInv,
           NEW events, NEW t, Speaks(events, t), Executes
    PROVE  RanBehindBarrier'
<1>0. offered \subseteq offered' /\ blind \subseteq blind'
  BY DEF Speaks
<1>1. ASSUME NEW x \in ran
      PROVE  /\ x = [turn |-> x.turn, id |-> x.id] /\ Asked(x.turn, x.id)'
             /\ Unique(x.turn, x.id)' /\ x \notin blind' => Barred(x.turn, x.id)'
  <2>1. /\ x = [turn |-> x.turn, id |-> x.id] /\ Asked(x.turn, x.id)
        /\ Unique(x.turn, x.id) /\ x \notin blind => Barred(x.turn, x.id)
    BY DEF BarrierInv, RanBehindBarrier
  <2>2. ASSUME Unique(x.turn, x.id)', x \notin blind' PROVE Barred(x.turn, x.id)'
    <3>1. Barred(x.turn, x.id)
      BY <1>0, <2>1, <2>2, AskedGrows
    <3>2. Ran(x.turn, x.id)
      BY <2>1 DEF Ran
    <3> QED BY <2>2, <3>1, <3>2, BarrierKept
  <2>3. Asked(x.turn, x.id)'
    BY <1>0, <2>1, AskedGrows
  <2> QED BY <2>1, <2>2, <2>3
<1>2. CASE ran' = ran
  BY <1>1, <1>2 DEF RanBehindBarrier
<1>3. CASE /\ pc = "invoke" /\ UNCHANGED <<log, buffer, blind, offered>>
           /\ ran' = ran \cup {[turn |-> rec.turn, id |-> todo[1].id]}
  <2>0. PICK x : x = [turn |-> rec.turn, id |-> todo[1].id]
    OBVIOUS
  <2>1. todo # <<>> /\ todo \in Seq(ToolCall)
    BY <1>3 DEF ShapeInv, TypeInv
  <2>2. 1 \in DOMAIN todo
    BY <2>1
  <2>3. Asked(rec.turn, todo[1].id)
    BY <2>2 DEF AskedLocal, Asked
  <2>4. Unique(rec.turn, todo[1].id) /\ ~Blind(rec.turn, todo[1].id) => Barred(rec.turn, todo[1].id)
    BY <1>3 DEF BarrierInv, BarrierLocal
  <2>5. /\ x.turn = rec.turn /\ x.id = todo[1].id
        /\ x = [turn |-> x.turn, id |-> x.id] /\ Asked(x.turn, x.id)'
        /\ Unique(x.turn, x.id)' /\ x \notin blind' => Barred(x.turn, x.id)'
    <3>1. x.turn = rec.turn /\ x.id = todo[1].id /\ x = [turn |-> x.turn, id |-> x.id]
      BY <2>0
    <3>2. Asked(x.turn, x.id)'
      BY <1>3, <2>3, <3>1 DEF Asked
    <3>3. Unique(x.turn, x.id)' => Unique(x.turn, x.id)
      BY <1>0, AskedGrows
    <3>4. x \notin blind' => ~Blind(rec.turn, todo[1].id)
      BY <1>3, <2>0 DEF Blind
    <3>5. Barred(x.turn, x.id) => Barred(x.turn, x.id)'
      BY <1>3 DEF Barred, Names, Journal
    <3> QED BY <2>4, <3>1, <3>2, <3>3, <3>4, <3>5
  <2> QED BY <1>1, <1>3, <2>0, <2>5 DEF RanBehindBarrier
<1> QED BY <1>2, <1>3 DEF Executes

LEMMA OnlyUseFacts ==
    /\ \A call : OnlyUse(call) <=>
                   \A c \in offered : c.turn = call.turn /\ c.tool = call.tool => c = call
    /\ \A call : OnlyUse(call)' <=>
                   \A c \in offered' : c.turn = call.turn /\ c.tool = call.tool => c = call
    /\ \A call : Lone(call) <=>
                   \A c \in offered : c.turn = call.turn /\ c.id = call.id => c = call
<1>1. ASSUME NEW call
      PROVE  OnlyUse(call) <=>
               \A c \in offered : c.turn = call.turn /\ c.tool = call.tool => c = call
  BY DEF OnlyUse, Rivals
<1>2. ASSUME NEW call
      PROVE  OnlyUse(call)' <=>
               \A c \in offered' : c.turn = call.turn /\ c.tool = call.tool => c = call
  BY DEF OnlyUse, Rivals
<1>3. ASSUME NEW call
      PROVE  Lone(call) <=>
               \A c \in offered : c.turn = call.turn /\ c.id = call.id => c = call
  BY DEF Lone, Rivals
<1> QED BY <1>1, <1>2, <1>3

LEMMA DeniesKept ==
    ASSUME offered \subseteq offered'
    PROVE  \A e, call : Denies(e, call)' => Denies(e, call)
<1> SUFFICES ASSUME NEW e, NEW call, Denies(e, call)' PROVE Denies(e, call)
  OBVIOUS
<1>1. OnlyUse(call)' => OnlyUse(call)
  BY OnlyUseFacts
<1>2. Unique(call.turn, call.id)' => Unique(call.turn, call.id)
  BY AskedGrows
<1> QED BY <1>1, <1>2 DEF Denies, AnswerOf

(* The answers a step writes are true, and what it leaves to be executed    *)
(* was to be executed before, or shares its id with another call.           *)
True(e) ==
  \A call \in offered' : Denies(e, call)' =>
     /\ Ran(call.turn, call.id)' => Blind(call.turn, call.id)'
     /\ call.turn = rec'.turn => \A i \in Upcoming' : todo'[i].id # call.id

Leaves ==
  \A i \in Upcoming' :
     \/ rec'.turn = rec.turn /\ \E j \in Upcoming : todo[j].id = todo'[i].id
     \/ \A u, id : u = rec'.turn /\ id = todo'[i].id /\ Asked(u, id) => ~Unique(u, id)'

LEMMA AnswersKept ==
    ASSUME TypeInv, ShapeInv, AskedInJournal, AnswerInv,
           NEW events, NEW t, Speaks(events, t), Executes, Leaves,
           \A m \in DOMAIN events : True(events[m])
    PROVE  AnswerInv'
<1>0. offered \subseteq offered' /\ blind \subseteq blind'
  BY DEF Speaks
<1>1. ASSUME NEW k \in DOMAIN Journal', NEW e, e = Journal'[k], NEW call \in offered',
             Denies(e, call)'
      PROVE  /\ Ran(call.turn, call.id)' => Blind(call.turn, call.id)'
             /\ call.turn = rec'.turn => \A i \in Upcoming' : todo'[i].id # call.id
  <2>1. CASE k \notin DOMAIN Journal
    <3>1. PICK m \in DOMAIN events : e = events[m]
      BY <1>1, <2>1, WritesJournal
    <3> QED BY <1>1, <3>1 DEF True
  <2>2. CASE k \in DOMAIN Journal /\ call \notin offered
    <3>1. Journal[k] = e
      BY <1>1, <2>2, WritesJournal
    <3>2. e.type = "tool/result" /\ e.turn = call.turn /\ e.id = call.id
          /\ Unique(call.turn, call.id)'
      BY <1>1 DEF Denies, AnswerOf
    <3>3. PICK c \in offered : c.turn = call.turn /\ c.id = call.id
      BY <2>2, <3>1, <3>2 DEF AskedInJournal, Asked
    <3>4. c = call
      BY <1>0, <3>2, <3>3 DEF Unique
    <3> QED BY <2>2, <3>3, <3>4
  <2>3. CASE k \in DOMAIN Journal /\ call \in offered
    <3>1. Journal[k] = e
      BY <1>1, <2>3, WritesJournal
    <3>2. Denies(e, call)
      BY <1>0, <1>1, DeniesKept
    <3>3. /\ Ran(call.turn, call.id) => Blind(call.turn, call.id)
          /\ call.turn = rec.turn => \A i \in Upcoming : todo[i].id # call.id
      BY <2>3, <3>1, <3>2 DEF AnswerInv
    <3>4. Ran(call.turn, call.id)' => Blind(call.turn, call.id)'
      <4>1. CASE ran' = ran
        BY <1>0, <3>3, <4>1 DEF Ran, Blind
      <4>2. CASE /\ pc = "invoke" /\ ran' = ran \cup {[turn |-> rec.turn, id |-> todo[1].id]}
        <5>1. todo \in Seq(ToolCall) /\ todo # <<>>
          BY <4>2 DEF TypeInv, ShapeInv
        <5>2. 1 \in Upcoming
          BY <4>2, <5>1 DEF Upcoming
        <5>3. [turn |-> call.turn, id |-> call.id] # [turn |-> rec.turn, id |-> todo[1].id]
          <6>1. SUFFICES ASSUME [turn |-> call.turn, id |-> call.id]
                                  = [turn |-> rec.turn, id |-> todo[1].id]
                         PROVE  FALSE
            OBVIOUS
          <6>2. call.turn = rec.turn /\ call.id = todo[1].id
            BY <6>1
          <6> QED BY <3>3, <5>2, <6>2
        <5> QED BY <1>0, <3>3, <4>2, <5>3 DEF Ran, Blind
      <4> QED BY <4>1, <4>2 DEF Executes
    <3>5. ASSUME call.turn = rec'.turn, NEW i \in Upcoming', todo'[i].id = call.id PROVE FALSE
      <4>1. CASE rec'.turn = rec.turn /\ \E j \in Upcoming : todo[j].id = todo'[i].id
        BY <3>3, <3>5, <4>1
      <4>2. CASE \A u, id : u = rec'.turn /\ id = todo'[i].id /\ Asked(u, id) => ~Unique(u, id)'
        <5>1. Asked(call.turn, call.id)
          BY <2>3 DEF Asked
        <5>2. Unique(call.turn, call.id)'
          BY <1>1 DEF Denies
        <5> QED BY <3>5, <4>2, <5>1, <5>2
      <4> QED BY <3>5, <4>1, <4>2 DEF Leaves
    <3> QED BY <3>4, <3>5
  <2> QED BY <2>1, <2>2, <2>3
<1>2. ASSUME NEW k \in DOMAIN Journal', NEW call \in offered', Denies(Journal[k], call)'
      PROVE  /\ Ran(call.turn, call.id)' => Blind(call.turn, call.id)'
             /\ call.turn = rec'.turn => \A i \in Upcoming' : todo'[i].id # call.id
  <2>1. PICK e : e = Journal'[k]
    OBVIOUS
  <2>2. Denies(e, call)'
    BY <1>2, <2>1 DEF Denies, AnswerOf
  <2> QED BY <1>1, <2>1, <2>2
<1> QED BY <1>2 DEF AnswerInv

Step(events, t) ==
  /\ Writes(events, t) /\ Executes /\ Leaves
  /\ \A m \in DOMAIN events : True(events[m])

(* What is left to show of a step: the shape of the state behind it.        *)
LEMMA StepKeeps ==
    ASSUME IInv, NEW events, NEW t, Step(events, t),
           TypeInv', ShapeInv', AskedLocal', BarrierLocal', ReportInv',
           Running' => Running /\ rec'.turn = rec.turn
    PROVE  IInv'
<1>1. /\ TypeInv /\ ShapeInv /\ TurnOrder /\ AskedLocal /\ AskedInJournal
      /\ BarrierInv /\ AnswerInv /\ Writes(events, t) /\ Speaks(events, t) /\ Executes /\ Leaves
      /\ \A m \in DOMAIN events : True(events[m])
  BY DEF IInv, TurnInv, AskedInv, Step, Writes
<1>2. TurnOrder'
  BY <1>1, TurnsKept
<1>3. AskedInJournal'
  BY <1>1, AskedKept
<1>4. RanBehindBarrier'
  BY <1>1, RanKept
<1>5. AnswerInv'
  BY <1>1, AnswersKept
<1>6. Running' => Begun(rec.turn) /\ rec'.turn = rec.turn
  BY DEF IInv, TurnInv
<1>7. \A u : Begun(u) => Begun(u)'
  <2>1. Grown(events)
    BY <1>1 DEF Writes, Speaks
  <2> QED BY <1>1, <2>1, BegunKept
<1>8. Running' => Begun(rec.turn)'
  <2>1. ASSUME Running' PROVE Begun(rec.turn)'
    <3>1. PICK u : u = rec.turn /\ u = rec'.turn
      BY <1>6, <2>1
    <3>2. Begun(u)'
      BY <1>6, <1>7, <2>1, <3>1
    <3> QED BY <3>1, <3>2 DEF Begun
  <2> QED BY <2>1
<1> QED BY <1>2, <1>3, <1>4, <1>5, <1>8 DEF IInv, TurnInv, AskedInv, BarrierInv

LEMMA WritesNothing ==
    ASSUME TypeInv, Grown(<<>>), turns' = turns, offered \subseteq offered', blind \subseteq blind'
    PROVE  Writes(<<>>, 0)
<1>1. <<>> \in Seq(Event) /\ DOMAIN <<>> = {}
  BY NoEvents
<1> QED BY <1>1 DEF Writes, Speaks

LEMMA StepWritesNothing ==
    ASSUME TypeInv, Grown(<<>>), turns' = turns, offered \subseteq offered', blind \subseteq blind',
           Executes, Leaves
    PROVE  Step(<<>>, 0)
<1>1. DOMAIN <<>> = {}
  OBVIOUS
<1> QED BY <1>1, WritesNothing DEF Step

(* Nothing is left to be executed.                                          *)
LEMMA LeavesNothing ==
    ASSUME todo' = <<>>
    PROVE  Leaves
<1>1. DOMAIN todo' = {}
  OBVIOUS
<1>2. Upcoming' = {}
  BY <1>1 DEF Upcoming
<1> QED BY <1>2 DEF Leaves

(* Outside of a run nothing is known of calls but that they were asked for. *)
LEMMA LocalOutside ==
    ASSUME IInv, ~Running', rec' = NewRecorder(0), todo' = <<>>, offered' = offered,
           turns' \in Nat, turns <= turns'
    PROVE  AskedLocal' /\ BarrierLocal'
<1>1. /\ rec'.text = FALSE /\ rec'.stashed = <<>> /\ rec'.journaled = {}
      /\ ToSet(rec'.stashed) = {} /\ DOMAIN todo' = {}
  BY ToSetFacts DEF NewRecorder
<1>2. pc' \in {"idle", "down"}
  BY DEF Running
<1>3. turns \in Nat /\ \A c \in offered : c.turn \in 1 .. turns
  BY DEF IInv, TypeInv, AskedInv, AskedLocal
<1>4. \A c \in offered : c.turn \in 1 .. turns'
  BY <1>3
<1>5. AskedLocal'
  BY <1>1, <1>2, <1>4 DEF AskedLocal, Running
<1>6. Upcoming' = {}
  BY <1>1 DEF Upcoming
<1>7. BarrierLocal'
  BY <1>1, <1>2, <1>6 DEF BarrierLocal, Running
<1> QED BY <1>5, <1>7

LEMMA QueueAsked ==
    ASSUME IInv
    PROVE  \A s \in ToSet(rec.stashed) \cup ToSet(todo) : \E c \in offered :
              c.turn = rec.turn /\ c.id = s.id /\ c.tool = s.tool
<1>1. AskedLocal /\ todo \in Seq(ToolCall)
  BY DEF IInv, AskedInv, TypeInv
<1>2. ASSUME NEW s \in ToSet(todo)
      PROVE  \E c \in offered : c.turn = rec.turn /\ c.id = s.id /\ c.tool = s.tool
  <2>1. PICK i \in DOMAIN todo : s = todo[i]
    BY DEF ToSet
  <2>2. [turn |-> rec.turn, step |-> rec.step, id |-> todo[i].id, tool |-> todo[i].tool] \in offered
    BY <1>1 DEF AskedLocal
  <2> QED BY <2>1, <2>2
<1> QED BY <1>1, <1>2 DEF AskedLocal

(* Between responses there are no calls in the queue.                       *)
LEMMA LocalBetween ==
    ASSUME IInv, Running, Running', todo' = <<>>, offered' = offered, turns' = turns,
           rec'.turn = rec.turn,
           ToSet(rec'.stashed) \subseteq ToSet(rec.stashed) \cup ToSet(todo),
           rec'.journaled = rec.journaled, ~rec'.text, rec' \in Recorder,
           \/ rec'.step = rec.step /\ rec'.open = rec.open /\ pc' # "stream"
           \/ rec'.step = StepClosed(rec).step,
           pc' = "stream" => rec'.open /\ rec'.step \in DOMAIN Responses[rec'.turn],
           pc' \in {"request", "retry", "stream", "tools", "finish"},
           pc' = "tools" => rec'.open
    PROVE  AskedLocal' /\ BarrierLocal'
<1>1. DOMAIN todo' = {} /\ AskedLocal /\ rec \in Recorder /\ offered \subseteq Request
  BY DEF IInv, AskedInv, TypeInv
<1>2. Upcoming' = {}
  BY <1>1 DEF Upcoming
<1>3. ASSUME NEW c \in offered, c.turn = rec.turn
      PROVE  /\ c.step <= rec'.step
             /\ pc' = "stream" \/ ~rec'.open => c.step < rec'.step
  <2>1. c.step \in Nat /\ rec.step \in Nat /\ rec'.step \in Nat /\ rec.open \in BOOLEAN
    BY <1>1, <1>3 DEF Request, Recorder
  <2>2. c.step <= rec.step /\ (~rec.open => c.step < rec.step)
    BY <1>1, <1>3 DEF AskedLocal
  <2>3. CASE rec'.step = rec.step /\ rec'.open = rec.open /\ pc' # "stream"
    BY <2>1, <2>2, <2>3
  <2>4. CASE rec'.step = StepClosed(rec).step
    <3>1. rec'.step = IF rec.open THEN rec.step + 1 ELSE rec.step
      BY <1>1, <2>4 DEF StepClosed, Recorder
    <3> QED BY <2>1, <2>2, <3>1
  <2> QED BY <2>3, <2>4
<1>4. AskedLocal'
  <2>1. \A c \in offered' : c.turn \in 1 .. turns'
    BY <1>1 DEF AskedLocal
  <2>2. Running' => \A c \in offered' : c.turn = rec'.turn =>
           /\ c.step <= rec'.step
           /\ pc' = "stream" \/ ~rec'.open => c.step < rec'.step
    BY <1>3
  <2>3. Running' /\ pc' \notin {"request", "retry", "finish"} => rec'.open
    OBVIOUS
  <2>4. \A s \in ToSet(rec'.stashed) : \E c \in offered' :
           c.turn = rec'.turn /\ c.id = s.id /\ c.tool = s.tool
    BY QueueAsked
  <2>5. \A id \in rec'.journaled : \A u : u = rec'.turn => Asked(u, id)'
    BY <1>1 DEF AskedLocal, Asked
  <2> QED BY <1>1, <2>1, <2>2, <2>3, <2>4, <2>5 DEF AskedLocal, Asked
<1>5. BarrierLocal'
  BY <1>1, <1>2 DEF BarrierLocal
<1> QED BY <1>4, <1>5

LEMMA TodoFacts ==
    ASSUME TypeInv, todo # <<>>
    PROVE  /\ todo \in Seq(ToolCall) /\ DOMAIN todo = 1 .. Len(todo) /\ Len(todo) \in Nat
           /\ 1 \in DOMAIN todo /\ Head(todo) = todo[1] /\ Head(todo) \in ToolCall
           /\ Head(todo) \in ToSet(todo) /\ todo[1].id \in Ids
           /\ \A i \in DOMAIN todo : todo[i].id \in Ids
           /\ Tail(todo) \in Seq(ToolCall) /\ DOMAIN Tail(todo) = 1 .. Len(todo) - 1
           /\ \A i \in DOMAIN Tail(todo) :
                 i + 1 \in DOMAIN todo /\ i + 1 # 1 /\ Tail(todo)[i] = todo[i + 1]
<1>1. todo \in Seq(ToolCall)
  BY DEF TypeInv
<1>2. /\ DOMAIN todo = 1 .. Len(todo) /\ Len(todo) \in Nat /\ Len(todo) # 0
      /\ Head(todo) = todo[1] /\ Tail(todo) \in Seq(ToolCall)
      /\ DOMAIN Tail(todo) = 1 .. Len(todo) - 1
      /\ \A i \in 1 .. Len(todo) - 1 : Tail(todo)[i] = todo[i + 1]
  BY <1>1
<1>3. 1 \in DOMAIN todo /\ \A i \in DOMAIN todo : todo[i] \in ToolCall
  BY <1>1, <1>2
<1>4. Head(todo) \in ToSet(todo)
  BY <1>2, <1>3 DEF ToSet
<1>5. \A c \in ToolCall : c.id \in Ids
  BY DEF ToolCall
<1> QED BY <1>1, <1>2, <1>3, <1>4, <1>5

LEMMA HeadDistinct ==
    ASSUME IInv
    PROVE  \A i, j \in DOMAIN todo : todo[i].id = todo[j].id => i = j
  BY DEF IInv, AskedInv, AskedLocal

(* Along the queue of a response.                                           *)
Queued == {"tools", "ask", "denied", "start", "invoke", "running"}

LEMMA AskedAlong ==
    ASSUME IInv, todo # <<>>, pc \in Queued, pc' \in Queued,
           todo' = todo \/ todo' = Tail(todo), offered' = offered, turns' = turns,
           rec'.turn = rec.turn, rec'.step = rec.step, rec'.open = rec.open, ~rec'.text,
           ToSet(rec'.stashed) \subseteq ToSet(rec.stashed) \cup ToSet(todo),
           rec'.journaled \subseteq rec.journaled \cup {todo[1].id}
    PROVE  AskedLocal'
<1>0. AskedLocal /\ TypeInv /\ Running /\ rec.open
  BY DEF IInv, AskedInv, AskedLocal, Running, Queued
<1>1. \A c \in offered' : c.turn \in 1 .. turns'
  BY <1>0 DEF AskedLocal
<1>2. \A c \in offered' : c.turn = rec'.turn => c.step <= rec'.step
  BY <1>0 DEF AskedLocal
<1>3. pc' # "stream" /\ rec'.open
  BY <1>0 DEF Queued
<1>4. \A i \in DOMAIN todo' :
        /\ [turn |-> rec'.turn, step |-> rec'.step, id |-> todo'[i].id,
            tool |-> todo'[i].tool] \in offered'
        /\ \A j \in DOMAIN todo' : todo'[i].id = todo'[j].id => i = j
  <2>1. CASE todo' = todo
    BY <1>0, <2>1 DEF AskedLocal
  <2>2. CASE todo' = Tail(todo)
    <3>1. ASSUME NEW i \in DOMAIN todo'
          PROVE  i + 1 \in DOMAIN todo /\ todo'[i] = todo[i + 1] /\ i \in Int
      BY <1>0, <2>2, <3>1, TodoFacts
    <3>2. ASSUME NEW i \in DOMAIN todo'
          PROVE  [turn |-> rec'.turn, step |-> rec'.step, id |-> todo'[i].id,
                  tool |-> todo'[i].tool] \in offered'
      BY <1>0, <3>1 DEF AskedLocal
    <3>3. ASSUME NEW i \in DOMAIN todo', NEW j \in DOMAIN todo', todo'[i].id = todo'[j].id
          PROVE  i = j
      <4>1. /\ i + 1 \in DOMAIN todo /\ todo'[i] = todo[i + 1] /\ i \in Int
            /\ j + 1 \in DOMAIN todo /\ todo'[j] = todo[j + 1] /\ j \in Int
        BY <3>1
      <4>2. todo[i + 1].id = todo[j + 1].id
        BY <3>3, <4>1
      <4>3. i + 1 = j + 1
        BY <4>1, <4>2, HeadDistinct
      <4> QED BY <4>1, <4>3
    <3> QED BY <3>2, <3>3
  <2> QED BY <2>1, <2>2
<1>5. \A s \in ToSet(rec'.stashed) : \E c \in offered' :
         c.turn = rec'.turn /\ c.id = s.id /\ c.tool = s.tool
  BY QueueAsked
<1>6. \A id \in rec'.journaled : \E c \in offered' : c.turn = rec'.turn /\ c.id = id
  <2>1. \E c \in offered : c.turn = rec.turn /\ c.id = todo[1].id
    BY <1>0, TodoFacts, QueueAsked
  <2> QED BY <1>0, <2>1 DEF AskedLocal, Asked
<1> QED BY <1>1, <1>2, <1>3, <1>4, <1>5, <1>6 DEF AskedLocal, Asked

(* The answer to the call at the head.                                      *)
LEMMA HeadAsked ==
    ASSUME IInv, todo # <<>>
    PROVE  \A i \in DOMAIN todo : Asked(rec.turn, todo[i].id)
<1>1. AskedLocal
  BY DEF IInv, AskedInv
<1> QED BY <1>1 DEF AskedLocal, Asked

-----------------------------------------------------------------------------
(* The steps that leave the calls alone *)

LEMMA BarredBehindNothing ==
    ASSUME TypeInv, Writes(<<>>, 0)
    PROVE  \A u, id : Barred(u, id) => Barred(u, id)'
<1>1. DOMAIN <<>> = {}
  OBVIOUS
<1>2. Speaks(<<>>, 0)
  BY DEF Writes
<1> QED BY <1>1, <1>2, BarredKept

LEMMA LocalSame ==
    ASSUME IInv, Writes(<<>>, 0), UNCHANGED <<pc, rec, todo, offered, turns, ran, blind>>
    PROVE  AskedLocal' /\ BarrierLocal' /\ Leaves
<1>1. AskedLocal /\ BarrierLocal /\ TypeInv
  BY DEF IInv, AskedInv, BarrierInv
<1>2. AskedLocal'
  BY <1>1 DEF AskedLocal, Asked, Running
<1>3. \A u, id : Barred(u, id) => Barred(u, id)'
  BY <1>1, BarredBehindNothing
<1>4. /\ \A u, id : Unique(u, id)' <=> Unique(u, id)
      /\ \A u, id : Ran(u, id)' <=> Ran(u, id)
      /\ \A u, id : Blind(u, id)' <=> Blind(u, id)
  BY DEF Unique, Ran, Blind
<1>5. \A u, id : u = rec.turn /\ id = todo[1].id =>
        /\ pc = "start" => (id \in rec.journaled /\ Unique(u, id)' => Barred(u, id)')
        /\ pc \in {"invoke", "running"} => (Unique(u, id)' /\ ~Blind(u, id)' => Barred(u, id)')
  BY <1>1, <1>3, <1>4 DEF BarrierLocal
<1>6. BarrierLocal'
  BY <1>1, <1>5 DEF BarrierLocal, Unique, Ran, Blind, Running, Barred
<1>7. Leaves
  BY DEF Leaves, Upcoming
<1> QED BY <1>2, <1>6, <1>7

LEMMA CancelKeeps ==
    ASSUME IInv, Cancel
    PROVE  IInv'
<1> USE DEF Cancel, journal, history
<1>1. TypeInv /\ ShapeInv /\ ReportInv /\ <<>> \in Seq(Event)
  BY NoEvents DEF IInv
<1>2. Grown(<<>>)
  BY <1>1, GrownByNothing
<1>3. Writes(<<>>, 0)
  BY <1>1, <1>2, WritesNothing
<1>4. AskedLocal' /\ BarrierLocal' /\ Leaves
  BY <1>3, LocalSame
<1>5. Step(<<>>, 0)
  BY <1>1, <1>2, <1>4, StepWritesNothing DEF Executes
<1>6. TypeInv' /\ ShapeInv' /\ ReportInv'
  BY <1>1 DEF TypeInv, ShapeInv, ReportInv, Running, Journal
<1> QED BY <1>4, <1>5, <1>6, StepKeeps DEF Running

LEMMA DrainKeeps ==
    ASSUME IInv, Drain
    PROVE  IInv'
<1> USE DEF Drain, history
<1>1. TypeInv /\ ShapeInv /\ ReportInv
  BY DEF IInv
<1>2. Grown(<<>>) /\ Journal' = Journal
  BY <1>1, DrainFacts
<1>3. Writes(<<>>, 0)
  BY <1>1, <1>2, WritesNothing
<1>4. AskedLocal' /\ BarrierLocal' /\ Leaves
  BY <1>3, LocalSame
<1>5. Step(<<>>, 0)
  BY <1>1, <1>2, <1>4, StepWritesNothing DEF Executes
<1>6. TypeInv'
  BY <1>1, <1>2 DEF TypeInv, Grown
<1>7. ShapeInv'
  BY <1>1 DEF ShapeInv, Running
<1>8. ToSet(log) \subseteq ToSet(log')
  BY <1>2, GrownKeepsLog
<1>9. ReportInv'
  BY <1>1, <1>2, <1>8 DEF ReportInv, Running
<1> QED BY <1>4, <1>5, <1>6, <1>7, <1>9, StepKeeps DEF Running

(* The recorder keeps its place: only what was stashed, written or reported *)
(* differs.                                                                 *)
SamePlace(r) ==
  /\ r \in Recorder /\ r.turn = rec.turn /\ r.step = rec.step /\ r.open = rec.open
  /\ r.text = rec.text /\ r.completed = rec.completed /\ r.emitted = rec.emitted

LEMMA SamePlaceFacts ==
    ASSUME TypeInv
    PROVE  /\ SamePlace(rec) /\ ToSet(rec.stashed) \subseteq ToSet(rec.stashed) \cup ToSet(todo)
           /\ \A c \in ToSet(todo) :
                /\ SamePlace(Stash(rec, c)) /\ Stash(rec, c).journaled = rec.journaled
                /\ Stash(rec, c).error = rec.error
                /\ ToSet(Stash(rec, c).stashed) \subseteq ToSet(rec.stashed) \cup ToSet(todo)
           /\ \A r, e : SamePlace(r) /\ e \in BOOLEAN => SamePlace([r EXCEPT !.error = e])
           /\ \A r, t : SamePlace(r) /\ t \in Terminals => SamePlace([r EXCEPT !.terminal = t])
<1>1. rec \in Recorder /\ ToSet(todo) \subseteq ToolCall
  BY ToSetFacts DEF TypeInv
<1>2. ASSUME NEW c \in ToSet(todo)
      PROVE  /\ SamePlace(Stash(rec, c)) /\ Stash(rec, c).journaled = rec.journaled
             /\ Stash(rec, c).error = rec.error
             /\ ToSet(Stash(rec, c).stashed) \subseteq ToSet(rec.stashed) \cup ToSet(todo)
  <2>1. /\ Stash(rec, c) = [rec EXCEPT !.stashed = Stash(rec, c).stashed]
        /\ Stash(rec, c) \in Recorder
        /\ ToSet(Stash(rec, c).stashed) \subseteq ToSet(rec.stashed) \cup {c}
    BY <1>1, <1>2, StashFacts
  <2>2. \A s : LET q == [rec EXCEPT !.stashed = s] IN
          /\ q.turn = rec.turn /\ q.step = rec.step /\ q.open = rec.open /\ q.text = rec.text
          /\ q.completed = rec.completed /\ q.emitted = rec.emitted
          /\ q.journaled = rec.journaled /\ q.error = rec.error
    BY <1>1 DEF Recorder
  <2> QED BY <1>2, <2>1, <2>2 DEF SamePlace
<1>3. \A r, e : SamePlace(r) /\ e \in BOOLEAN => SamePlace([r EXCEPT !.error = e])
  BY RecorderTyped DEF SamePlace, Recorder
<1>4. \A r, t : SamePlace(r) /\ t \in Terminals => SamePlace([r EXCEPT !.terminal = t])
  BY RecorderTyped DEF SamePlace, Recorder
<1> QED BY <1>1, <1>2, <1>3, <1>4 DEF SamePlace

LEMMA StopsKeeps ==
    ASSUME IInv, pc \in {"request", "retry", "tools", "running"},
           NEW r, SamePlace(r), r.journaled = rec.journaled, r.error = rec.error,
           ToSet(r.stashed) \subseteq ToSet(rec.stashed) \cup ToSet(todo),
           NEW terminal \in Terminals, Stops(r, terminal)
    PROVE  IInv'
<1> USE DEF Stops, Ends, journal
<1>1. TypeInv /\ ShapeInv /\ ReportInv /\ <<>> \in Seq(Event)
  BY NoEvents DEF IInv
<1>2. Grown(<<>>) /\ Journal' = Journal
  BY <1>1, GrownByNothing DEF Journal
<1>3. Leaves
  BY LeavesNothing
<1>4. Step(<<>>, 0)
  BY <1>1, <1>2, <1>3, StepWritesNothing DEF Executes
<1>5. Running /\ Running' /\ pc' = "finish" /\ todo' = <<>>
  BY DEF Running
<1>6. /\ SamePlace(rec') /\ rec'.journaled = rec.journaled /\ rec'.error = rec.error
      /\ rec'.stashed = r.stashed /\ rec'.terminal = terminal
  BY <1>1, SamePlaceFacts DEF SamePlace, Recorder
<1>7. rec'.turn = rec.turn /\ rec'.step = rec.step /\ rec'.open = rec.open /\ ~rec'.text
      /\ rec' \in Recorder
  BY <1>1, <1>6 DEF SamePlace, ShapeInv
<1>8. AskedLocal' /\ BarrierLocal'
  <2> HIDE DEF Stops, Ends, journal
  <2>1. offered' = offered /\ turns' = turns
    BY DEF Stops, Ends
  <2> QED BY <1>5, <1>6, <1>7, <2>1, LocalBetween
<1>9. TypeInv'
  <2>1. rec.turn \in 1 .. turns
    BY <1>1, <1>5 DEF ShapeInv, TypeInv
  <2>3. todo' \in Seq(ToolCall)
    OBVIOUS
  <2> QED BY <1>1, <1>5, <1>7, <2>1, <2>3 DEF TypeInv
<1>10. ShapeInv'
  BY <1>1, <1>5, <1>7 DEF ShapeInv, Running
<1>11. ReportInv'
  BY <1>1, <1>2, <1>5, <1>6 DEF ReportInv
<1> QED BY <1>4, <1>5, <1>7, <1>8, <1>9, <1>10, <1>11, StepKeeps

LEMMA StopBeforeRequestKeeps ==
    ASSUME IInv, StopBeforeRequest
    PROVE  IInv'
<1>1. SamePlace(rec) /\ ToSet(rec.stashed) \subseteq ToSet(rec.stashed) \cup ToSet(todo)
  BY SamePlaceFacts DEF IInv
<1>2. /\ pc \in {"request", "retry"}
      /\ \E terminal \in Terminals : Stops(rec, terminal)
  BY DEF StopBeforeRequest, Terminals
<1>3. PICK terminal \in Terminals : Stops(rec, terminal)
  BY <1>2
<1>4. PICK r : r = rec
  OBVIOUS
<1>5. Stops(r, terminal)
  BY <1>3, <1>4 DEF Stops
<1> QED BY <1>1, <1>2, <1>4, <1>5, StopsKeeps

LEMMA StopBeforeToolKeeps ==
    ASSUME IInv, StopBeforeTool
    PROVE  IInv'
<1>1. SamePlace(rec) /\ ToSet(rec.stashed) \subseteq ToSet(rec.stashed) \cup ToSet(todo)
  BY SamePlaceFacts DEF IInv
<1>2. pc = "tools" /\ Stops(rec, "cancelled") /\ "cancelled" \in Terminals
  BY DEF StopBeforeTool, Terminals
<1>3. PICK r : r = rec
  OBVIOUS
<1>4. Stops(r, "cancelled")
  BY <1>2, <1>3 DEF Stops
<1> QED BY <1>1, <1>2, <1>3, <1>4, StopsKeeps

-----------------------------------------------------------------------------
(* The steps that close and open a step of the run *)

LEMMA RunningBegun ==
    ASSUME IInv, Running
    PROVE  /\ Begun(rec.turn) /\ rec.turn \in 1 .. turns /\ rec.turn \in Nat /\ rec.step \in Nat
           /\ \A i \in DOMAIN Journal : Journal[i].turn <= rec.turn
<1>1. rec.turn = turns /\ turns > 0 /\ turns \in Nat /\ rec \in Recorder
  BY DEF IInv, ShapeInv, TypeInv
<1>2. \A i \in DOMAIN Journal : Journal[i].turn \in 1 .. turns
  BY DEF IInv, TurnInv, TurnOrder
<1> QED BY <1>1, <1>2 DEF IInv, TurnInv, Recorder

LEMMA WritesPlain ==
    ASSUME IInv, Running, NEW events \in Seq(Event), Grown(events), turns' = turns,
           offered \subseteq offered', blind \subseteq blind', NEW t, t = rec.turn,
           \A e \in ToSet(events) : e.turn = t
              /\ e.type \notin {"turn/start", "assistant/message", "tool/result"}
    PROVE  Writes(events, t) /\ \A m \in DOMAIN events : True(events[m])
<1>1. /\ Begun(t) /\ t \in 1 .. turns /\ \A i \in DOMAIN Journal : Journal[i].turn <= t
  <2>1. \A u : u = rec.turn => Begun(u)
    BY RunningBegun DEF Begun
  <2> QED BY <2>1, RunningBegun
<1>2. \A m \in DOMAIN events : events[m].turn = t
        /\ events[m].type \notin {"turn/start", "assistant/message", "tool/result"}
  BY DEF ToSet
<1> QED BY <1>1, <1>2 DEF Writes, Speaks, True, Denies, AnswerOf

LEMMA ReportAfter ==
    ASSUME IInv, Running, NEW r \in Recorder, r.error = rec.error,
           NEW events \in Seq(Event), Record(r, events) \/ RecordFlush(r, events),
           published' = published, receipts' \subseteq ToSet(log')
    PROVE  ReportInv'
<1>1. /\ published' \notin Successes /\ TypeInv
      /\ ~rec.error /\ ~fatal => wanted \subseteq ToSet(Journal)
  BY DEF IInv, ShapeInv, ReportInv, Successes
<1>2. ASSUME ~rec'.error, ~fatal' PROVE wanted' \subseteq ToSet(Journal')
  <2>1. CASE Record(r, events)
    <3>1. /\ fatal' = fatal /\ ~r.error /\ wanted' = wanted \cup ToSet(events)
          /\ ToSet(Journal) \subseteq ToSet(Journal') /\ ToSet(events) \subseteq ToSet(Journal')
      BY <1>1, <1>2, <2>1, RecordFacts
    <3> QED BY <1>1, <1>2, <3>1
  <2>2. CASE RecordFlush(r, events)
    <3>1. /\ ~r.error /\ ~fatal /\ Journal' = log' /\ log' = Journal \o events
          /\ wanted' = wanted \cup ToSet(events)
      BY <1>1, <1>2, <2>2, RecordFlushFacts
    <3>2. ToSet(log') = ToSet(Journal) \cup ToSet(events)
      BY <1>1, <3>1, JournalTyped, EventsConcat
    <3> QED BY <1>1, <3>1, <3>2
  <2> QED BY <2>1, <2>2
<1> QED BY <1>1, <1>2 DEF ReportInv

LEMMA ReceiptsKept ==
    ASSUME IInv, NEW events, Grown(events), receipts' = receipts
    PROVE  receipts' \subseteq ToSet(log')
  BY GrownKeepsLog DEF IInv, ReportInv

LEMMA ClosedFacts ==
    ASSUME IInv, Running, pc # "finish"
    PROVE  /\ StepClosed(rec) \in Recorder /\ StepClosed(rec).turn = rec.turn
           /\ StepClosed(rec).step \in Nat /\ StepClosed(rec).open = FALSE
           /\ ~StepClosed(rec).text /\ StepClosed(rec).error = rec.error
           /\ StepClosed(rec).stashed = rec.stashed /\ StepClosed(rec).journaled = rec.journaled
           /\ StepClosers(rec) \in Seq(Event)
           /\ \A e \in ToSet(StepClosers(rec)) : e = StepEnd(rec.turn, rec.step)
<1>1. rec \in Recorder /\ ~rec.text
  BY DEF IInv, TypeInv, ShapeInv
<1>2. StepClosed(rec) \in Recorder
  BY <1>1, RecorderTyped
<1>3. /\ StepClosed(rec).turn = rec.turn /\ StepClosed(rec).open = FALSE
      /\ StepClosed(rec).text = rec.text /\ StepClosed(rec).error = rec.error
      /\ StepClosed(rec).stashed = rec.stashed /\ StepClosed(rec).journaled = rec.journaled
  BY <1>1 DEF StepClosed, Recorder
<1>4. StepClosed(rec).step \in Nat
  BY <1>2 DEF Recorder
<1> QED BY <1>1, <1>2, <1>3, <1>4, StepClosersFacts

(* The recorder behind a write: as it was given to it, but for the error.   *)
LEMMA RecorderBehind ==
    ASSUME NEW r \in Recorder, rec' = [r EXCEPT !.error = rec'.error]
    PROVE  /\ rec'.turn = r.turn /\ rec'.step = r.step /\ rec'.open = r.open
           /\ rec'.text = r.text /\ rec'.completed = r.completed
           /\ rec'.stashed = r.stashed /\ rec'.journaled = r.journaled
           /\ rec'.emitted = r.emitted /\ rec'.terminal = r.terminal
<1>1. \A x : LET q == [r EXCEPT !.error = x] IN
        /\ q.turn = r.turn /\ q.step = r.step /\ q.open = r.open
        /\ q.text = r.text /\ q.completed = r.completed
        /\ q.stashed = r.stashed /\ q.journaled = r.journaled
        /\ q.emitted = r.emitted /\ q.terminal = r.terminal
  BY DEF Recorder
<1> QED BY <1>1

(* A step between two responses that writes only what brackets a step.      *)
LEMMA BetweenKeeps ==
    ASSUME IInv, pc \in {"request", "retry", "stream"},
           pc' \in {"request", "retry", "stream"},
           NEW r \in Recorder, r.turn = rec.turn, r.error = rec.error, ~r.text,
           r.stashed = rec.stashed, r.journaled = rec.journaled,
           r.step = StepClosed(rec).step,
           pc' = "stream" => r.open /\ r.step \in DOMAIN Responses[r.turn],
           NEW events \in Seq(Event), Record(r, events) \/ RecordFlush(r, events),
           \A e \in ToSet(events) : e.turn = rec.turn
              /\ e.type \notin {"turn/start", "assistant/message", "tool/result"},
           receipts' \subseteq ToSet(log'),
           UNCHANGED <<todo, cancelled, turns, offered, ran, blind, gaveUp, spoiled, published>>
    PROVE  IInv'
<1>1. TypeInv /\ ShapeInv
  BY DEF IInv
<1>2. Running /\ Running' /\ todo = <<>> /\ todo' = <<>>
  BY <1>1 DEF Running, ShapeInv
<1>3. /\ Grown(events) /\ fatal' \in BOOLEAN
      /\ rec' = [r EXCEPT !.error = rec'.error] /\ rec' \in Recorder
  <2>1. CASE Record(r, events)
    BY <1>1, <2>1, RecordFacts DEF TypeInv
  <2>2. CASE RecordFlush(r, events)
    BY <1>1, <2>2, RecordFlushFacts
  <2> QED BY <2>1, <2>2
<1>4. /\ rec'.turn = rec.turn /\ rec'.step = StepClosed(rec).step /\ rec'.open = r.open
      /\ ~rec'.text /\ rec'.stashed = rec.stashed /\ rec'.journaled = rec.journaled
  BY <1>3, RecorderBehind
<1>5. PICK t : t = rec.turn
  OBVIOUS
<1>6. Writes(events, t) /\ \A m \in DOMAIN events : True(events[m])
  BY <1>2, <1>3, <1>5, WritesPlain
<1>7. Leaves /\ Executes
  BY <1>2, LeavesNothing DEF Executes
<1>8. Step(events, t)
  BY <1>6, <1>7 DEF Step
<1>9. AskedLocal' /\ BarrierLocal'
  <2>1. pc' = "stream" => rec'.open /\ rec'.step \in DOMAIN Responses[rec'.turn]
    BY <1>3, RecorderBehind
  <2>2. ToSet(rec'.stashed) \subseteq ToSet(rec.stashed) \cup ToSet(todo)
    BY <1>4
  <2> QED BY <1>2, <1>3, <1>4, <2>1, <2>2, LocalBetween
<1>10. TypeInv'
  BY <1>1, <1>3 DEF TypeInv, Grown
<1>11. ShapeInv'
  BY <1>1, <1>2, <1>4 DEF ShapeInv, Running
<1>12. ReportInv'
  BY <1>2, ReportAfter
<1> QED BY <1>2, <1>4, <1>8, <1>9, <1>10, <1>11, <1>12, StepKeeps

LEMMA ApplySteeringKeeps ==
    ASSUME IInv, ApplySteering
    PROVE  IInv'
<1> USE DEF ApplySteering
<1>1. Running /\ TypeInv
  BY DEF Running, IInv
<1>2. PICK message : message = User(rec.turn, StepClosed(rec).step)
  OBVIOUS
<1>3. PICK r : r = StepClosed(rec)
  OBVIOUS
<1>4. PICK events : events = StepClosers(rec) \o <<message>>
  OBVIOUS
<1>5. /\ r \in Recorder /\ r.turn = rec.turn /\ r.error = rec.error /\ ~r.text
      /\ r.stashed = rec.stashed /\ r.journaled = rec.journaled
      /\ r.step = StepClosed(rec).step /\ r.step \in Nat
  BY <1>1, <1>3, ClosedFacts
<1>6. message \in Event /\ message.turn = rec.turn /\ message.type = "user/message"
  <2>1. message \in Event
    BY <1>1, <1>2, <1>3, <1>5, RunningBegun, EventTyped
  <2> QED BY <1>2, <2>1 DEF User
<1>7. /\ events \in Seq(Event)
      /\ \A e \in ToSet(events) : e = StepEnd(rec.turn, rec.step) \/ e = message
      /\ message \in ToSet(events)
  <2>1. <<message>> \in Seq(Event) /\ ToSet(<<message>>) = {message}
    BY <1>6, ToSetFacts
  <2>2. StepClosers(rec) \in Seq(Event)
    BY <1>1, ClosedFacts
  <2>3. events \in Seq(Event) /\ ToSet(events) = ToSet(StepClosers(rec)) \cup {message}
    BY <1>4, <2>1, <2>2, EventsConcat
  <2> QED BY <1>1, <2>3, ClosedFacts
<1>8. \A e \in ToSet(events) : e.turn = rec.turn
         /\ e.type \notin {"turn/start", "assistant/message", "tool/result"}
  BY <1>6, <1>7 DEF StepEnd
<1>9. RecordFlush(r, events)
  BY <1>2, <1>3, <1>4
<1>10. receipts' \subseteq ToSet(log')
  <2>1. CASE rec'.error
    <3>1. receipts' = receipts
      BY <2>1
    <3>2. Grown(events)
      BY <1>1, <1>5, <1>7, <1>9, RecordFlushFacts
    <3> QED BY <3>1, <3>2, ReceiptsKept
  <2>2. CASE ~rec'.error
    <3>1. receipts' = receipts \cup {message}
      BY <1>2, <2>2
    <3>2. log' = Journal \o events /\ ToSet(log) \subseteq ToSet(log')
      BY <1>1, <1>5, <1>7, <1>9, <2>2, RecordFlushFacts
    <3>3. ToSet(log') = ToSet(Journal) \cup ToSet(events)
      BY <1>1, <1>7, <3>2, JournalTyped, EventsConcat
    <3> QED BY <1>7, <3>1, <3>2, <3>3 DEF IInv, ReportInv
  <2> QED BY <2>1, <2>2
<1>11. pc = "request" /\ pc' = "request"
       /\ UNCHANGED <<todo, cancelled, turns, offered, ran, blind, gaveUp, spoiled, published>>
  OBVIOUS
<1> HIDE DEF ApplySteering
<1> QED BY <1>5, <1>7, <1>8, <1>9, <1>10, <1>11, BetweenKeeps

LEMMA ContextBoundaryKeeps ==
    ASSUME IInv, ContextBoundary
    PROVE  IInv'
<1> USE DEF ContextBoundary, history
<1>1. Running /\ TypeInv /\ pc \in {"request", "retry", "stream"}
      /\ pc' \in {"request", "retry"}
  BY DEF Running, IInv
<1>2. PICK r : r = StepClosed(rec)
  OBVIOUS
<1>3. PICK events : events = StepClosers(rec)
  OBVIOUS
<1>4. /\ r \in Recorder /\ r.turn = rec.turn /\ r.error = rec.error /\ ~r.text
      /\ r.stashed = rec.stashed /\ r.journaled = rec.journaled
      /\ r.step = StepClosed(rec).step
  BY <1>1, <1>2, ClosedFacts
<1>5. events \in Seq(Event) /\ \A e \in ToSet(events) : e.turn = rec.turn
         /\ e.type \notin {"turn/start", "assistant/message", "tool/result"}
  <2> HIDE DEF ContextBoundary, history
  <2>1. pc # "finish"
    BY <1>1
  <2>2. StepClosers(rec) \in Seq(Event)
        /\ \A e \in ToSet(StepClosers(rec)) : e = StepEnd(rec.turn, rec.step)
    BY <1>1, <2>1, ClosedFacts
  <2> QED BY <1>3, <2>2 DEF StepEnd
<1>6. RecordFlush(r, events)
  BY <1>2, <1>3
<1>7. Grown(events)
  BY <1>1, <1>4, <1>5, <1>6, RecordFlushFacts
<1>8. receipts' \subseteq ToSet(log')
  BY <1>7, ReceiptsKept
<1>9. UNCHANGED <<todo, cancelled, turns, offered, ran, blind, gaveUp, spoiled, published>>
  OBVIOUS
<1> HIDE DEF ContextBoundary
<1> QED BY <1>1, <1>4, <1>5, <1>6, <1>8, <1>9, BetweenKeeps

LEMMA ModelRequestedKeeps ==
    ASSUME IInv, ModelRequested
    PROVE  IInv'
<1> USE DEF ModelRequested, history
<1>1. Running /\ TypeInv /\ pc \in {"request", "retry", "stream"} /\ pc # "finish"
      /\ pc' = "stream"
  BY DEF Running, IInv
<1>2. PICK r : r = StepOpened(StepClosed(rec))
  OBVIOUS
<1>3. PICK e : e = StepStart(rec.turn, StepClosed(rec).step)
  OBVIOUS
<1>4. PICK events : events = StepClosers(rec) \o <<e>>
  OBVIOUS
<1>5. /\ r \in Recorder /\ r.turn = rec.turn /\ r.error = rec.error /\ ~r.text
      /\ r.stashed = rec.stashed /\ r.journaled = rec.journaled
      /\ r.step = StepClosed(rec).step /\ r.open
  <2>1. /\ StepClosed(rec) \in Recorder /\ StepClosed(rec).turn = rec.turn
        /\ StepClosed(rec).error = rec.error
        /\ StepClosed(rec).stashed = rec.stashed /\ StepClosed(rec).journaled = rec.journaled
    BY <1>1, ClosedFacts
  <2>2. PICK q : q = StepClosed(rec)
    OBVIOUS
  <2>3. q \in Recorder /\ r = StepOpened(q)
    BY <1>2, <2>1, <2>2
  <2>4. /\ r.turn = q.turn /\ r.error = q.error /\ ~r.text /\ r.stashed = q.stashed
        /\ r.journaled = q.journaled /\ r.step = q.step /\ r.open
    BY <2>3 DEF StepOpened, Recorder
  <2>5. r \in Recorder
    BY <2>3, RecorderTyped
  <2> QED BY <2>1, <2>2, <2>4, <2>5
<1>6. e \in Event /\ e.turn = rec.turn /\ e.type = "step/start"
  <2>1. StepClosed(rec).step \in Nat
    BY <1>1, ClosedFacts
  <2>2. e \in Event
    BY <1>1, <1>3, <2>1, RunningBegun, EventTyped
  <2> QED BY <1>3, <2>2 DEF StepStart
<1>7. events \in Seq(Event) /\ \A d \in ToSet(events) : d.turn = rec.turn
         /\ d.type \notin {"turn/start", "assistant/message", "tool/result"}
  <2>1. <<e>> \in Seq(Event) /\ ToSet(<<e>>) = {e}
    BY <1>6, ToSetFacts
  <2>2. StepClosers(rec) \in Seq(Event)
    BY <1>1, ClosedFacts
  <2>3. events \in Seq(Event) /\ ToSet(events) = ToSet(StepClosers(rec)) \cup {e}
    BY <1>4, <2>1, <2>2, EventsConcat
  <2>4. \A d \in ToSet(StepClosers(rec)) : d.turn = rec.turn /\ d.type = "step/end"
    BY <1>1, ClosedFacts DEF StepEnd
  <2> QED BY <1>6, <2>3, <2>4
<1>8. Record(r, events)
  BY <1>2, <1>3, <1>4
<1>9. Grown(events)
  BY <1>1, <1>5, <1>7, <1>8, RecordFacts
<1>10. receipts' \subseteq ToSet(log')
  BY <1>9, ReceiptsKept
<1>11. UNCHANGED <<todo, cancelled, turns, offered, ran, blind, gaveUp, spoiled, published>>
  OBVIOUS
<1>12. r.step \in DOMAIN Responses[r.turn]
  BY <1>5
<1> HIDE DEF ModelRequested
<1> QED BY <1>1, <1>5, <1>7, <1>8, <1>10, <1>11, <1>12, BetweenKeeps

LEMMA NextStepKeeps ==
    ASSUME IInv, NextStep
    PROVE  IInv'
<1> USE DEF NextStep, journal, ToolVars, history
<1>1. TypeInv /\ ShapeInv /\ ReportInv /\ <<>> \in Seq(Event) /\ Running /\ Running'
  BY NoEvents DEF IInv, Running
<1>2. Grown(<<>>) /\ Journal' = Journal
  BY <1>1, GrownByNothing DEF Journal
<1>3. Leaves
  BY LeavesNothing
<1>4. Step(<<>>, 0)
  BY <1>1, <1>2, <1>3, StepWritesNothing DEF Executes
<1>5. AskedLocal' /\ BarrierLocal'
  <2>1. ~rec'.text /\ rec' \in Recorder /\ rec' = rec /\ pc' = "request" /\ todo' = <<>>
        /\ offered' = offered /\ turns' = turns
    BY <1>1 DEF ShapeInv, TypeInv
  <2> HIDE DEF NextStep
  <2> QED BY <1>1, <2>1, LocalBetween
<1>6. TypeInv' /\ ShapeInv' /\ ReportInv'
  BY <1>1, <1>2 DEF TypeInv, ShapeInv, ReportInv, Running
<1> QED BY <1>1, <1>4, <1>5, <1>6, StepKeeps

-----------------------------------------------------------------------------
(* The response *)

LEMMA ResponseFacts ==
    ASSUME IInv, pc = "stream", NEW calls \in Responses[rec.turn][rec.step]
    PROVE  /\ calls \in Seq(ToolCall) /\ IdsOf(calls) \in Seq(Ids)
           /\ \A i, j \in DOMAIN calls : calls[i].id = calls[j].id => i = j
           /\ \A c \in ToSet(calls) : c.id \in Ids /\ c.tool \in Tools
           /\ ToSet(calls) = {calls[i] : i \in DOMAIN calls}
           /\ ToSet(IdsOf(calls)) = {calls[i].id : i \in DOMAIN calls}
<1>1. rec.turn \in 1 .. MaxTurns /\ rec.step \in DOMAIN Responses[rec.turn]
  <2>1. rec.turn \in 1 .. turns /\ turns \in 0 .. MaxTurns
    BY RunningBegun DEF IInv, TypeInv, Running
  <2>2. rec.step \in DOMAIN Responses[rec.turn]
    BY DEF IInv, AskedInv, AskedLocal
  <2> QED BY <2>1, <2>2, BoundsAssumption
<1>2. calls \in Seq(ToolCall) /\ \A i, j \in DOMAIN calls : calls[i].id = calls[j].id => i = j
  BY <1>1, ResponsesAssumption
<1>3. \A c \in ToSet(calls) : c.id \in Ids /\ c.tool \in Tools
  <2>1. ToSet(calls) \subseteq ToolCall
    BY <1>2, ToSetFacts
  <2> QED BY <2>1 DEF ToolCall
<1>4. ToSet(calls) = {calls[i] : i \in DOMAIN calls}
  BY DEF ToSet
<1>5. IdsOf(calls) \in Seq(Ids) /\ ToSet(IdsOf(calls)) = {calls[i].id : i \in DOMAIN calls}
  <2>1. /\ IdsOf(calls) \in Seq(Ids) /\ DOMAIN IdsOf(calls) = DOMAIN calls
        /\ \A i \in DOMAIN calls : IdsOf(calls)[i] = calls[i].id
    BY <1>2, IdsOfFacts
  <2> QED BY <2>1 DEF ToSet
<1> QED BY <1>2, <1>3, <1>4, <1>5

(* What a response asks for was not asked for in this step: an id that was  *)
(* used before is used twice.                                               *)
LEMMA OfferFacts ==
    ASSUME IInv, pc = "stream", NEW calls \in Responses[rec.turn][rec.step], Offer(calls),
           NEW t, t = rec.turn
    PROVE  /\ offered \subseteq offered' /\ offered' \subseteq Request
           /\ \A c \in offered' : c.turn \in 1 .. turns
           /\ \A c \in offered' : c.turn = t => c.step <= rec.step
           /\ \A i \in DOMAIN calls :
                [turn |-> rec.turn, step |-> rec.step, id |-> calls[i].id,
                 tool |-> calls[i].tool] \in offered'
           /\ \A c \in offered' : c.turn = t /\ c.step = rec.step =>
                /\ Asked(t, c.id)' /\ (Asked(t, c.id) => ~Unique(t, c.id)')
                /\ (Unique(t, c.id)' => ~Ran(t, c.id))
<1> DEFINE New(c) == [turn |-> rec.turn, step |-> rec.step, id |-> c.id, tool |-> c.tool]
<1>1. offered' = offered \cup {New(c) : c \in ToSet(calls)}
  BY DEF Offer
<1>2. rec.turn \in 1 .. turns /\ rec.turn \in Nat /\ rec.step \in Nat
  BY RunningBegun DEF Running
<1>3. \A c \in ToSet(calls) : New(c) \in Request
  BY <1>2, ResponseFacts DEF Request
<1>4. /\ offered \subseteq Request /\ \A c \in offered : c.turn \in 1 .. turns
      /\ \A c \in offered : c.turn = rec.turn => c.step < rec.step
      /\ \A c \in offered : c.step \in Nat
  <2>1. Running /\ AskedLocal /\ offered \subseteq Request
    BY DEF IInv, AskedInv, TypeInv, Running
  <2> QED BY <2>1 DEF AskedLocal, Request
<1>5. \A c \in ToSet(calls) : New(c).turn = rec.turn /\ New(c).step = rec.step
         /\ New(c).id = c.id
  OBVIOUS
<1> HIDE DEF New
<1>6. ASSUME NEW c \in offered', c.turn = t, c.step = rec.step
      PROVE  /\ Asked(t, c.id)' /\ (Asked(t, c.id) => ~Unique(t, c.id)')
             /\ (Unique(t, c.id)' => ~Ran(t, c.id))
  <2>1. Asked(t, c.id)'
    BY <1>6 DEF Asked
  <2>2. ASSUME Asked(t, c.id), Unique(t, c.id)' PROVE FALSE
    <3>1. PICK d \in offered : d.turn = t /\ d.id = c.id
      BY <2>2 DEF Asked
    <3>2. d.step < rec.step /\ d \in offered'
      BY <1>1, <1>4, <3>1
    <3>3. d = c
      BY <1>6, <2>2, <3>1, <3>2 DEF Unique
    <3> QED BY <1>2, <1>4, <1>6, <3>2, <3>3
  <2>3. Ran(t, c.id) => Asked(t, c.id)
    <3>1. SUFFICES ASSUME Ran(t, c.id) PROVE Asked(t, c.id)
      OBVIOUS
    <3>2. PICK x \in ran : x = [turn |-> t, id |-> c.id]
      BY <3>1 DEF Ran
    <3>3. Asked(x.turn, x.id)
      BY DEF IInv, BarrierInv, RanBehindBarrier
    <3> QED BY <3>2, <3>3
  <2> QED BY <2>1, <2>2, <2>3
<1>7. \A i \in DOMAIN calls : New(calls[i]) \in offered'
  BY <1>1, ResponseFacts
<1>8. \A c \in offered' : c.turn = t => c.step <= rec.step
  BY <1>1, <1>2, <1>4, <1>5
<1>9. \A c \in offered' : c.turn \in 1 .. turns
  BY <1>1, <1>2, <1>4, <1>5
<1>10. offered \subseteq offered' /\ offered' \subseteq Request
  BY <1>1, <1>3, <1>4
<1> QED BY <1>6, <1>7, <1>8, <1>9, <1>10 DEF New

LEMMA StreamedFacts ==
    ASSUME IInv, pc = "stream", NEW calls \in Responses[rec.turn][rec.step],
           NEW r \in Streamed(calls)
    PROVE  /\ SamePlace(r) /\ r.journaled = rec.journaled /\ r.error = rec.error
           /\ ToSet(r.stashed) \subseteq ToSet(rec.stashed) \cup ToSet(calls)
<1>1. rec \in Recorder /\ calls \in Seq(ToolCall)
  BY ResponseFacts DEF IInv, TypeInv
<1>2. CASE r = rec
  BY <1>1, <1>2 DEF SamePlace
<1>3. CASE r = StashAll(rec, calls)
  <2>1. /\ r = [rec EXCEPT !.stashed = r.stashed] /\ r \in Recorder
        /\ ToSet(r.stashed) \subseteq ToSet(rec.stashed) \cup ToSet(calls)
    BY <1>1, <1>3, StashAllFacts
  <2>2. \A s : LET q == [rec EXCEPT !.stashed = s] IN
          /\ q.turn = rec.turn /\ q.step = rec.step /\ q.open = rec.open /\ q.text = rec.text
          /\ q.completed = rec.completed /\ q.emitted = rec.emitted
          /\ q.journaled = rec.journaled /\ q.error = rec.error
    BY <1>1 DEF Recorder
  <2> QED BY <2>1, <2>2 DEF SamePlace
<1> QED BY <1>2, <1>3 DEF Streamed

LEMMA ModelRespondedKeeps ==
    ASSUME IInv, ModelResponded
    PROVE  IInv'
<1>0. PICK calls \in Responses[rec.turn][rec.step] :
         \E q \in Streamed(calls) : \E terminal \in {"none", "completed", "cancelled", "failed"} :
         /\ calls # <<>> => terminal = "none"
         /\ Record([q EXCEPT !.emitted = TRUE, !.completed = calls, !.terminal = terminal],
                   <<Message(rec.turn, rec.step, IdsOf(calls))>>)
         /\ Offer(calls)
         /\ todo' = calls
         /\ pc' = CASE terminal # "none" -> "finish"
                    [] calls = <<>>      -> "request"
                    [] OTHER             -> "tools"
         /\ gaveUp' = gaveUp \cup
               IF terminal \in {"cancelled", "failed"} THEN {rec.turn} ELSE {}
  BY DEF ModelResponded
<1>1. PICK q \in Streamed(calls), terminal \in {"none", "completed", "cancelled", "failed"} :
         /\ calls # <<>> => terminal = "none"
         /\ Record([q EXCEPT !.emitted = TRUE, !.completed = calls, !.terminal = terminal],
                   <<Message(rec.turn, rec.step, IdsOf(calls))>>)
         /\ Offer(calls)
         /\ todo' = calls
         /\ pc' = CASE terminal # "none" -> "finish"
                    [] calls = <<>>      -> "request"
                    [] OTHER             -> "tools"
         /\ gaveUp' = gaveUp \cup
               IF terminal \in {"cancelled", "failed"} THEN {rec.turn} ELSE {}
  BY <1>0
<1>2. pc = "stream" /\ UNCHANGED <<cancelled, crashes, turns, ran, blind, spoiled, receipts,
                                   published>>
  BY DEF ModelResponded
<1>3. /\ TypeInv /\ ShapeInv /\ AskedLocal /\ BarrierLocal /\ Running
      /\ rec.turn \in 1 .. turns /\ rec.turn \in Nat /\ rec.step \in Nat
  BY <1>2, RunningBegun DEF IInv, AskedInv, BarrierInv, Running
<1>4. /\ calls \in Seq(ToolCall) /\ IdsOf(calls) \in Seq(Ids)
      /\ \A i, j \in DOMAIN calls : calls[i].id = calls[j].id => i = j
      /\ ToSet(calls) = {calls[i] : i \in DOMAIN calls}
      /\ ToSet(IdsOf(calls)) = {calls[i].id : i \in DOMAIN calls}
  BY <1>2, ResponseFacts
<1>5. PICK t : t = rec.turn
  OBVIOUS
<1>6. PICK e : e = Message(rec.turn, rec.step, IdsOf(calls))
  OBVIOUS
<1>7. PICK r : r = [q EXCEPT !.emitted = TRUE, !.completed = calls, !.terminal = terminal]
  OBVIOUS
<1>8. /\ offered \subseteq offered' /\ offered' \subseteq Request
      /\ \A c \in offered' : c.turn \in 1 .. turns
      /\ \A c \in offered' : c.turn = t => c.step <= rec.step
      /\ \A i \in DOMAIN calls :
           [turn |-> rec.turn, step |-> rec.step, id |-> calls[i].id,
            tool |-> calls[i].tool] \in offered'
      /\ \A c \in offered' : c.turn = t /\ c.step = rec.step =>
           /\ Asked(t, c.id)' /\ (Asked(t, c.id) => ~Unique(t, c.id)')
           /\ (Unique(t, c.id)' => ~Ran(t, c.id))
  <2>1. Offer(calls)
    BY <1>1
  <2> QED BY <1>2, <1>5, <2>1, OfferFacts
<1>9. \A i \in DOMAIN calls : \A id : id = calls[i].id =>
         /\ Asked(t, id)' /\ (Asked(t, id) => ~Unique(t, id)')
         /\ (Unique(t, id)' => ~Ran(t, id))
  <2> TAKE i \in DOMAIN calls
  <2>1. PICK c \in offered' : c = [turn |-> rec.turn, step |-> rec.step, id |-> calls[i].id,
                                   tool |-> calls[i].tool]
    BY <1>8
  <2>2. c.turn = t /\ c.step = rec.step /\ c.id = calls[i].id
    BY <1>5, <2>1
  <2> QED BY <1>8, <2>2
<1>10. /\ r \in Recorder /\ r.turn = rec.turn /\ r.step = rec.step /\ r.open = rec.open
       /\ ~r.text /\ r.journaled = rec.journaled /\ r.error = rec.error
       /\ ToSet(r.stashed) \subseteq ToSet(rec.stashed) \cup ToSet(calls)
  <2>1. /\ SamePlace(q) /\ q.journaled = rec.journaled /\ q.error = rec.error
        /\ ToSet(q.stashed) \subseteq ToSet(rec.stashed) \cup ToSet(calls)
    BY <1>2, StreamedFacts
  <2>2. ~rec.text
    BY <1>2, <1>3 DEF ShapeInv
  <2>3. /\ r.turn = q.turn /\ r.step = q.step /\ r.open = q.open /\ r.text = q.text
        /\ r.journaled = q.journaled /\ r.error = q.error /\ r.stashed = q.stashed
    BY <1>7, <2>1 DEF SamePlace, Recorder
  <2>4. r \in Recorder
    BY <1>4, <1>7, <2>1 DEF SamePlace, Recorder, Terminals
  <2> QED BY <2>1, <2>2, <2>3, <2>4 DEF SamePlace
<1>11. /\ e \in Event /\ <<e>> \in Seq(Event) /\ ToSet(<<e>>) = {e} /\ <<e>> # <<>>
       /\ DOMAIN <<e>> = {1} /\ <<e>>[1] = e
       /\ e.turn = t /\ e.type = "assistant/message" /\ e.calls = IdsOf(calls)
  <2>1. e \in Event
    BY <1>3, <1>4, <1>6, EventTyped
  <2>2. e.turn = t /\ e.type = "assistant/message" /\ e.calls = IdsOf(calls)
    BY <1>5, <1>6 DEF Message
  <2> QED BY <2>1, <2>2, ToSetFacts
<1>12. Record(r, <<e>>)
  BY <1>1, <1>6, <1>7
<1>13. /\ Grown(<<e>>) /\ fatal' = fatal /\ rec' \in Recorder
       /\ rec' = [r EXCEPT !.error = rec'.error]
  BY <1>3, <1>10, <1>11, <1>12, RecordFacts
<1>14. /\ rec'.turn = rec.turn /\ rec'.step = rec.step /\ rec'.open = rec.open
       /\ ~rec'.text /\ rec'.stashed = r.stashed /\ rec'.journaled = rec.journaled
  BY <1>10, <1>13, RecorderBehind
<1>15. Writes(<<e>>, t)
  <2>1. \A u : u = rec.turn => Begun(u)
    BY <1>3, RunningBegun DEF Begun
  <2>2. /\ Begun(t) /\ t \in 1 .. turns
        /\ \A i \in DOMAIN Journal : Journal[i].turn <= t
    BY <1>3, <1>5, <2>1, RunningBegun
  <2>3. \A id \in ToSet(e.calls) : Asked(t, id)' /\ (Unique(t, id)' => ~Ran(t, id))
    BY <1>4, <1>9, <1>11
  <2> QED BY <1>2, <1>8, <1>11, <1>13, <2>2, <2>3 DEF Writes, Speaks
<1>16. True(e)
  BY <1>11 DEF True, Denies, AnswerOf
<1>17. Leaves
  <2>1. ASSUME NEW i \in Upcoming', NEW u, NEW id, u = rec'.turn, id = todo'[i].id,
               Asked(u, id)
        PROVE  ~Unique(u, id)'
    <3>1. i \in DOMAIN calls /\ id = calls[i].id /\ u = t
      BY <1>1, <1>5, <1>14, <2>1 DEF Upcoming
    <3> QED BY <1>9, <2>1, <3>1
  <2> QED BY <2>1 DEF Leaves
<1>18. Step(<<e>>, t)
  BY <1>2, <1>11, <1>15, <1>16, <1>17 DEF Step, Executes
<1>19. /\ pc' \in {"finish", "request", "tools"} /\ (calls # <<>> => pc' = "tools")
       /\ Running' /\ terminal \in Terminals
  BY <1>1 DEF Running, Terminals
<1>20. TypeInv'
  <2>1. gaveUp' \subseteq 1 .. turns
    BY <1>1, <1>3 DEF TypeInv
  <2> QED BY <1>1, <1>2, <1>3, <1>4, <1>8, <1>13, <1>19, <2>1 DEF TypeInv, Grown
<1>21. ShapeInv'
  BY <1>1, <1>2, <1>3, <1>14, <1>19 DEF ShapeInv, Running
<1>22. AskedLocal'
  <2>1. \A c \in offered' : c.turn = rec'.turn =>
           /\ c.step <= rec'.step
           /\ pc' = "stream" \/ ~rec'.open => c.step < rec'.step
    BY <1>2, <1>3, <1>5, <1>8, <1>14, <1>19 DEF AskedLocal
  <2>2. \A c \in offered' : c.turn \in 1 .. turns'
    BY <1>2, <1>8
  <2>3. rec'.open
    BY <1>2, <1>3, <1>14 DEF AskedLocal
  <2>4. \A i \in DOMAIN todo' :
        /\ [turn |-> rec'.turn, step |-> rec'.step, id |-> todo'[i].id,
            tool |-> todo'[i].tool] \in offered'
        /\ \A j \in DOMAIN todo' : todo'[i].id = todo'[j].id => i = j
    BY <1>1, <1>4, <1>8, <1>14
  <2>5. \A s \in ToSet(rec'.stashed) : \E c \in offered' :
           c.turn = rec'.turn /\ c.id = s.id /\ c.tool = s.tool
    <3>1. ASSUME NEW s \in ToSet(calls)
          PROVE  \E c \in offered' : c.turn = rec.turn /\ c.id = s.id /\ c.tool = s.tool
      <4>1. PICK i \in DOMAIN calls : s = calls[i]
        BY <1>4
      <4>2. PICK c \in offered' : c = [turn |-> rec.turn, step |-> rec.step,
                                       id |-> calls[i].id, tool |-> calls[i].tool]
        BY <1>8
      <4> QED BY <4>1, <4>2
    <3>2. ASSUME NEW s \in ToSet(rec.stashed)
          PROVE  \E c \in offered' : c.turn = rec.turn /\ c.id = s.id /\ c.tool = s.tool
      BY <1>8, QueueAsked
    <3> QED BY <1>10, <1>14, <3>1, <3>2
  <2>6. \A id \in rec'.journaled : \E c \in offered' : c.turn = rec'.turn /\ c.id = id
    BY <1>3, <1>8, <1>14 DEF AskedLocal, Asked
  <2> QED BY <1>14, <1>19, <2>1, <2>2, <2>3, <2>4, <2>5, <2>6 DEF AskedLocal, Asked
<1>23. BarrierLocal'
  <2>1. \A i \in DOMAIN todo' : \A u, id : u = rec'.turn /\ id = todo'[i].id =>
           /\ Unique(u, id)' => ~Ran(u, id)'
           /\ id \in rec'.journaled => ~Unique(u, id)'
    <3> SUFFICES ASSUME NEW i \in DOMAIN todo', NEW u, NEW id, u = rec'.turn, id = todo'[i].id
                 PROVE  /\ Unique(u, id)' => ~Ran(u, id)'
                        /\ id \in rec'.journaled => ~Unique(u, id)'
      OBVIOUS
    <3>1. i \in DOMAIN calls /\ id = calls[i].id /\ u = t
      BY <1>1, <1>5, <1>14
    <3>2. id \in rec'.journaled => Asked(u, id)
      BY <1>3, <1>5, <1>14, <3>1 DEF AskedLocal
    <3> QED BY <1>2, <1>9, <3>1, <3>2 DEF Ran
  <2>2. ASSUME NEW i \in DOMAIN todo'
        PROVE  /\ Unique(rec.turn, todo[i].id)' => ~Ran(rec.turn, todo[i].id)'
               /\ todo'[i].id \in rec'.journaled => ~Unique(rec.turn, todo[i].id)'
    <3>1. PICK u, id : u = rec'.turn /\ id = todo'[i].id
      OBVIOUS
    <3>2. /\ Unique(u, id)' => ~Ran(u, id)'
          /\ id \in rec'.journaled => ~Unique(u, id)'
      BY <2>1, <3>1
    <3> QED BY <3>1, <3>2 DEF Unique, Ran
  <2> QED BY <1>14, <1>19, <2>2 DEF BarrierLocal
<1>24. ReportInv'
  <2>1. receipts' \subseteq ToSet(log')
    BY <1>2, <1>13, ReceiptsKept
  <2> QED BY <1>2, <1>3, <1>10, <1>11, <1>12, <2>1, ReportAfter
<1> QED BY <1>3, <1>14, <1>18, <1>19, <1>20, <1>21, <1>22, <1>23, <1>24, StepKeeps

LEMMA StreamCutKeeps ==
    ASSUME IInv, StreamCut
    PROVE  IInv'
<1>0. PICK calls \in Responses[rec.turn][rec.step] :
         \E q \in Streamed(calls) : \E text \in BOOLEAN :
            /\ rec' = [q EXCEPT !.text = text, !.completed = calls, !.terminal = "failed"]
            /\ Offer(calls)
  BY DEF StreamCut
<1>1. PICK q \in Streamed(calls), text \in BOOLEAN :
         /\ rec' = [q EXCEPT !.text = text, !.completed = calls, !.terminal = "failed"]
         /\ Offer(calls)
  BY <1>0
<1>2. /\ pc = "stream" /\ pc' = "finish" /\ gaveUp' = gaveUp \cup {rec.turn}
      /\ UNCHANGED <<log, buffer, fatal, todo, cancelled, wanted, turns, ran, blind,
                     spoiled, receipts, published>>
  BY DEF StreamCut, journal
<1>3. /\ TypeInv /\ ShapeInv /\ AskedLocal /\ BarrierLocal /\ ReportInv /\ Running
      /\ rec.turn \in 1 .. turns /\ rec.turn \in Nat /\ rec.step \in Nat /\ Running'
      /\ todo = <<>> /\ todo' = <<>> /\ DOMAIN todo' = {}
  BY <1>2, RunningBegun DEF IInv, AskedInv, BarrierInv, Running, ShapeInv
<1>4. /\ calls \in Seq(ToolCall) /\ ToSet(calls) = {calls[i] : i \in DOMAIN calls}
  BY <1>2, ResponseFacts
<1>5. PICK t : t = rec.turn
  OBVIOUS
<1>6. /\ offered \subseteq offered' /\ offered' \subseteq Request
      /\ \A c \in offered' : c.turn \in 1 .. turns
      /\ \A c \in offered' : c.turn = t => c.step <= rec.step
      /\ \A i \in DOMAIN calls :
           [turn |-> rec.turn, step |-> rec.step, id |-> calls[i].id,
            tool |-> calls[i].tool] \in offered'
      /\ \A c \in offered' : c.turn = t /\ c.step = rec.step =>
           (Unique(t, c.id)' => ~Ran(t, c.id))
  <2>1. Offer(calls)
    BY <1>1
  <2> QED BY <1>2, <1>5, <2>1, OfferFacts
<1>7. /\ rec' \in Recorder /\ rec'.turn = rec.turn /\ rec'.step = rec.step
      /\ rec'.open = rec.open /\ rec'.completed = calls
      /\ rec'.journaled = rec.journaled /\ rec'.error = rec.error
      /\ ToSet(rec'.stashed) \subseteq ToSet(rec.stashed) \cup ToSet(calls)
  <2>1. /\ SamePlace(q) /\ q.journaled = rec.journaled /\ q.error = rec.error
        /\ ToSet(q.stashed) \subseteq ToSet(rec.stashed) \cup ToSet(calls)
    BY <1>2, StreamedFacts
  <2>2. /\ rec'.turn = q.turn /\ rec'.step = q.step /\ rec'.open = q.open
        /\ rec'.journaled = q.journaled /\ rec'.error = q.error /\ rec'.stashed = q.stashed
        /\ rec'.completed = calls
    BY <1>1, <2>1 DEF SamePlace, Recorder
  <2>3. rec' \in Recorder
    BY <1>1, <1>4, <2>1 DEF SamePlace, Recorder, Terminals
  <2> QED BY <2>1, <2>2, <2>3 DEF SamePlace
<1>8. Grown(<<>>) /\ Journal' = Journal
  BY <1>2, <1>3, NoEvents, GrownByNothing DEF Journal
<1>9. Step(<<>>, 0)
  BY <1>2, <1>3, <1>6, <1>8, LeavesNothing, StepWritesNothing DEF Executes
<1>10. TypeInv'
  <2>1. gaveUp' \subseteq 1 .. turns /\ offered' \subseteq Request
    BY <1>2, <1>3, <1>6 DEF TypeInv
  <2> QED BY <1>2, <1>3, <1>7, <2>1 DEF TypeInv
<1>11. ShapeInv'
  BY <1>2, <1>3, <1>7 DEF ShapeInv, Running
<1>12. AskedLocal'
  <2>1. \A c \in offered' : c.turn = rec'.turn =>
           /\ c.step <= rec'.step
           /\ pc' = "stream" \/ ~rec'.open => c.step < rec'.step
    BY <1>2, <1>3, <1>5, <1>6, <1>7 DEF AskedLocal
  <2>2. \A c \in offered' : c.turn \in 1 .. turns'
    BY <1>2, <1>6
  <2>3. \A i \in DOMAIN rec'.completed :
          [turn |-> rec'.turn, step |-> rec'.step, id |-> rec'.completed[i].id,
           tool |-> rec'.completed[i].tool] \in offered'
    BY <1>6, <1>7
  <2>4. \A s \in ToSet(rec'.stashed) : \E c \in offered' :
           c.turn = rec'.turn /\ c.id = s.id /\ c.tool = s.tool
    <3>1. ASSUME NEW s \in ToSet(calls)
          PROVE  \E c \in offered' : c.turn = rec.turn /\ c.id = s.id /\ c.tool = s.tool
      <4>1. PICK i \in DOMAIN calls : s = calls[i]
        BY <1>4
      <4>2. PICK c \in offered' : c = [turn |-> rec.turn, step |-> rec.step,
                                       id |-> calls[i].id, tool |-> calls[i].tool]
        BY <1>6
      <4> QED BY <4>1, <4>2
    <3>2. ASSUME NEW s \in ToSet(rec.stashed)
          PROVE  \E c \in offered' : c.turn = rec.turn /\ c.id = s.id /\ c.tool = s.tool
      BY <1>6, QueueAsked
    <3> QED BY <1>7, <3>1, <3>2
  <2>5. \A id \in rec'.journaled : \E c \in offered' : c.turn = rec'.turn /\ c.id = id
    BY <1>3, <1>6, <1>7 DEF AskedLocal, Asked
  <2> QED BY <1>2, <1>3, <2>1, <2>2, <2>3, <2>4, <2>5 DEF AskedLocal, Asked
<1>13. BarrierLocal'
  <2>1. ASSUME NEW c \in offered', c.turn = rec'.turn, c.step = rec'.step,
               Unique(c.turn, c.id)'
        PROVE  ~Ran(c.turn, c.id)'
    BY <1>2, <1>5, <1>6, <1>7, <2>1 DEF Ran
  <2> QED BY <1>2, <1>3, <2>1 DEF BarrierLocal
<1>14. ReportInv'
  BY <1>2, <1>3, <1>7, <1>8 DEF ReportInv
<1> QED BY <1>3, <1>7, <1>9, <1>10, <1>11, <1>12, <1>13, <1>14, StepKeeps

-----------------------------------------------------------------------------
(* Tools *)

LEMMA LeavesAlong ==
    ASSUME TypeInv, todo # <<>>, rec'.turn = rec.turn,
           \/ todo' = todo /\ pc \notin {"denied", "running"}
           \/ todo' = Tail(todo)
    PROVE  Leaves
<1>1. CASE todo' = todo /\ pc \notin {"denied", "running"}
  BY <1>1 DEF Leaves, Upcoming
<1>2. CASE todo' = Tail(todo)
  <2>1. ASSUME NEW i \in DOMAIN todo' PROVE i + 1 \in Upcoming /\ todo[i + 1].id = todo'[i].id
    BY <1>2, <2>1, TodoFacts DEF Upcoming
  <2> QED BY <2>1 DEF Leaves, Upcoming
<1> QED BY <1>1, <1>2

LEMMA BarrierAlong ==
    ASSUME IInv, todo # <<>>, pc \in Queued, pc' \in Queued,
           ran' = ran, offered' = offered, rec'.turn = rec.turn, ~rec'.text,
           \/ /\ todo' = todo /\ pc # "running"
              /\ rec'.journaled \subseteq rec.journaled \cup {todo[1].id}
              /\ \/ pc' \in {"start", "invoke", "denied"}
                 \/ pc = "tools" /\ pc' = "ask" /\ rec'.journaled = rec.journaled
           \/ todo' = Tail(todo) /\ pc' = "tools" /\ rec'.journaled = rec.journaled,
           \A u, id : u = rec.turn /\ id = todo[1].id /\ Unique(u, id) =>
              /\ pc' = "start" /\ id \in rec'.journaled => Barred(u, id)'
              /\ pc' = "invoke" /\ ~Blind(u, id)' => Barred(u, id)'
    PROVE  BarrierLocal'
<1>1. BarrierLocal /\ TypeInv
  BY DEF IInv, BarrierInv
<1>2. /\ \A u, id : Unique(u, id)' <=> Unique(u, id)
      /\ \A u, id : Ran(u, id)' <=> Ran(u, id)
  BY DEF Unique, Ran
<1>3. \A i \in DOMAIN todo' : \A u, id : u = rec'.turn /\ id = todo'[i].id =>
        /\ Unique(u, id)' /\ (pc' = "running" => i # 1) => ~Ran(u, id)'
        /\ id \in rec'.journaled /\ Unique(u, id)'
             => i = 1 /\ pc' \in {"start", "invoke", "running", "denied"}
  <2> SUFFICES ASSUME NEW i \in DOMAIN todo', NEW u, NEW id, u = rec'.turn, id = todo'[i].id,
                      Unique(u, id)
               PROVE  /\ ~Ran(u, id)
                      /\ id \in rec'.journaled
                           => i = 1 /\ pc' \in {"start", "invoke", "running", "denied"}
    BY <1>2
  <2>1. CASE /\ todo' = todo /\ pc # "running"
             /\ rec'.journaled \subseteq rec.journaled \cup {todo[1].id}
             /\ \/ pc' \in {"start", "invoke", "denied"}
                \/ pc = "tools" /\ pc' = "ask" /\ rec'.journaled = rec.journaled
    <3>1. ~Ran(u, id)
      BY <1>1, <2>1 DEF BarrierLocal
    <3>2. id \in rec.journaled => i = 1 /\ pc \in {"start", "invoke", "running", "denied"}
      BY <1>1, <2>1 DEF BarrierLocal
    <3>3. id = todo[1].id => i = 1
      BY <1>1, <2>1, HeadDistinct, TodoFacts
    <3> QED BY <2>1, <3>1, <3>2, <3>3
  <2>2. CASE todo' = Tail(todo) /\ pc' = "tools" /\ rec'.journaled = rec.journaled
    <3>1. i + 1 \in DOMAIN todo /\ i + 1 # 1 /\ todo'[i] = todo[i + 1]
      BY <1>1, <2>2, TodoFacts
    <3>2. ~Ran(u, id) /\ id \notin rec.journaled
      BY <1>1, <3>1 DEF BarrierLocal
    <3> QED BY <2>2, <3>2
  <2> QED BY <2>1, <2>2
<1>4. ASSUME NEW i \in DOMAIN todo'
      PROVE  /\ Unique(rec.turn, todo[i].id)' /\ (pc' = "running" => i # 1)
                => ~Ran(rec.turn, todo[i].id)'
             /\ todo'[i].id \in rec'.journaled /\ Unique(rec.turn, todo[i].id)'
                => i = 1 /\ pc' \in {"start", "invoke", "running", "denied"}
  <2>1. PICK u, id : u = rec'.turn /\ id = todo'[i].id
    OBVIOUS
  <2>2. /\ Unique(u, id)' /\ (pc' = "running" => i # 1) => ~Ran(u, id)'
        /\ id \in rec'.journaled /\ Unique(u, id)'
             => i = 1 /\ pc' \in {"start", "invoke", "running", "denied"}
    BY <1>3, <2>1
  <2> QED BY <2>1, <2>2 DEF Unique, Ran
<1>5. PICK u, id : u = rec.turn /\ id = todo[1].id
  OBVIOUS
<1>6. pc' \in {"start", "invoke"} => todo' = todo
  OBVIOUS
<1>7. /\ pc' = "start" /\ id \in rec'.journaled /\ Unique(u, id)' => Barred(u, id)'
      /\ pc' = "invoke" /\ Unique(u, id)' /\ ~Blind(u, id)' => Barred(u, id)'
  BY <1>2, <1>5
<1>8. pc' # "running"
  OBVIOUS
<1>9. /\ pc' = "start" => (todo'[1].id \in rec'.journaled /\ Unique(rec.turn, todo[1].id)'
                             => Barred(rec.turn, todo[1].id)')
      /\ pc' \in {"invoke", "running"} =>
            (Unique(rec.turn, todo[1].id)' /\ ~Blind(rec.turn, todo[1].id)'
               => Barred(rec.turn, todo[1].id)')
  <2>1. ASSUME pc' \in {"start", "invoke"} PROVE u = rec'.turn /\ id = todo'[1].id
    BY <1>5, <1>6, <2>1
  <2> QED BY <1>7, <1>8, <2>1 DEF Unique, Blind, Barred, Names
<1> QED BY <1>4, <1>9 DEF BarrierLocal

LEMMA AlongKeeps ==
    ASSUME IInv, todo # <<>>, pc \in Queued, pc' \in Queued,
           NEW events, NEW t, Writes(events, t), \A m \in DOMAIN events : True(events[m]),
           fatal' \in BOOLEAN, ReportInv', SamePlace(rec'),
           ToSet(rec'.stashed) \subseteq ToSet(rec.stashed) \cup ToSet(todo),
           UNCHANGED <<cancelled, turns, offered, ran, gaveUp, spoiled, published>>,
           \/ /\ todo' = todo /\ pc \notin {"denied", "running"}
              /\ rec'.journaled \subseteq rec.journaled \cup {todo[1].id}
              /\ \/ pc' \in {"start", "invoke", "denied"}
                 \/ pc = "tools" /\ pc' = "ask" /\ rec'.journaled = rec.journaled
           \/ todo' = Tail(todo) /\ pc' = "tools" /\ rec'.journaled = rec.journaled,
           \A u, id : u = rec.turn /\ id = todo[1].id /\ Unique(u, id) =>
              /\ pc' = "start" /\ id \in rec'.journaled => Barred(u, id)'
              /\ pc' = "invoke" /\ ~Blind(u, id)' => Barred(u, id)'
    PROVE  IInv'
<1>1. TypeInv /\ ShapeInv /\ Running /\ Running'
  BY DEF IInv, Running, Queued
<1>2. /\ rec' \in Recorder /\ rec'.turn = rec.turn /\ rec'.step = rec.step
      /\ rec'.open = rec.open /\ ~rec'.text
  BY <1>1 DEF SamePlace, ShapeInv, Queued
<1>3. Leaves
  BY <1>1, <1>2, LeavesAlong
<1>4. Step(events, t)
  BY <1>3 DEF Step, Executes
<1>5. AskedLocal'
  <2>1. /\ todo' = todo \/ todo' = Tail(todo)
        /\ rec'.journaled \subseteq rec.journaled \cup {todo[1].id}
    OBVIOUS
  <2> QED BY <1>2, <2>1, AskedAlong
<1>6. BarrierLocal'
  BY <1>2, BarrierAlong
<1>7. TypeInv'
  <2>1. todo' \in Seq(ToolCall) /\ log' \in Seq(Event) /\ buffer' \in Seq(Event)
    BY <1>1, TodoFacts DEF Writes, Speaks, Grown
  <2>2. pc' \in {"tools", "ask", "denied", "start", "invoke", "running"}
    BY DEF Queued
  <2> QED BY <1>1, <1>2, <2>1, <2>2 DEF TypeInv
<1>8. ShapeInv'
  <2>1. todo' # <<>> \/ pc' = "tools"
    OBVIOUS
  <2> QED BY <1>1, <1>2, <2>1 DEF ShapeInv, Running, Queued
<1> QED BY <1>1, <1>2, <1>4, <1>5, <1>6, <1>7, <1>8, StepKeeps

(* A step of the queue that writes nothing.                                 *)
LEMMA ReportSame ==
    ASSUME IInv, log' = log, buffer' = buffer, fatal' = fatal, wanted' = wanted,
           rec'.error = rec.error, receipts' = receipts, published' = published, Running
    PROVE  ReportInv' /\ Grown(<<>>) /\ Journal' = Journal
<1>1. Grown(<<>>) /\ Journal' = Journal
  BY NoEvents, GrownByNothing DEF IInv, Journal
<1> QED BY <1>1 DEF IInv, ReportInv, Journal

LEMMA ToolRequestedKeeps ==
    ASSUME IInv, ToolRequested
    PROVE  IInv'
<1>1. pc = "tools" /\ todo # <<>> /\ TypeInv /\ ShapeInv /\ Running /\ pc \in Queued
  BY DEF ToolRequested, IInv, Running, Queued
<1>2. PICK r : r = Stash(rec, Head(todo))
  OBVIOUS
<1>3. /\ SamePlace(r) /\ r.journaled = rec.journaled /\ r.error = rec.error /\ r \in Recorder
      /\ ToSet(r.stashed) \subseteq ToSet(rec.stashed) \cup ToSet(todo)
  BY <1>1, <1>2, TodoFacts, SamePlaceFacts DEF SamePlace
<1>4. CASE Stops(r, "failed")
  <2>1. "failed" \in Terminals
    BY DEF Terminals
  <2> QED BY <1>1, <1>3, <1>4, <2>1, StopsKeeps
<1>b. todo[1].id \in rec.journaled => ~Unique(rec.turn, todo[1].id)
  BY <1>1, TodoFacts DEF IInv, BarrierInv, BarrierLocal
<1>5. CASE pc' \in {"denied", "start"} /\ rec' = r /\ UNCHANGED <<journal, ToolVars>>
  <2>1. /\ UNCHANGED <<log, buffer, fatal, todo, wanted, cancelled, turns, offered, ran, blind,
                       gaveUp, spoiled, receipts, published>>
    BY <1>5 DEF journal, ToolVars, history
  <2>2. ReportInv' /\ Grown(<<>>)
    BY <1>1, <1>3, <1>5, <2>1, ReportSame
  <2>3. Writes(<<>>, 0) /\ \A m \in DOMAIN <<>> : True(<<>>[m])
    BY <1>1, <2>1, <2>2, WritesNothing
  <2>4. \A u, id : u = rec.turn /\ id = todo[1].id /\ Unique(u, id) =>
              /\ pc' = "start" /\ id \in rec'.journaled => Barred(u, id)'
              /\ pc' = "invoke" /\ ~Blind(u, id)' => Barred(u, id)'
    BY <1>3, <1>5, <1>b
  <2>5. /\ todo' = todo /\ pc \notin {"denied", "running"}
        /\ rec'.journaled \subseteq rec.journaled \cup {todo[1].id}
        /\ pc' \in {"start", "invoke", "denied"} /\ pc' \in Queued
        /\ SamePlace(rec') /\ fatal' \in BOOLEAN
        /\ ToSet(rec'.stashed) \subseteq ToSet(rec.stashed) \cup ToSet(todo)
    BY <1>1, <1>3, <1>5, <2>1 DEF TypeInv, Queued
  <2> QED BY <1>1, <2>1, <2>2, <2>3, <2>4, <2>5, AlongKeeps
<1>6. CASE /\ \E ok \in BOOLEAN :
                 Durably(<<>>, ok) /\ pc' = IF ok THEN "ask" ELSE "denied"
           /\ rec' = r /\ UNCHANGED ToolVars
  <2>1. PICK ok \in BOOLEAN : Durably(<<>>, ok) /\ pc' = IF ok THEN "ask" ELSE "denied"
    BY <1>6
  <2>2. /\ UNCHANGED <<todo, wanted, cancelled, turns, offered, ran, blind,
                       gaveUp, spoiled, receipts, published>>
    BY <1>6 DEF ToolVars, history
  <2>3. /\ Grown(<<>>) /\ fatal' \in BOOLEAN
        /\ ~fatal' => Journal' = Journal \o <<>> /\ ~fatal
    BY <1>1, <2>1, NoEvents, DurablyFacts
  <2>4. Writes(<<>>, 0) /\ \A m \in DOMAIN <<>> : True(<<>>[m])
    BY <1>1, <2>2, <2>3, WritesNothing
  <2>5. ReportInv'
    <3>1. Journal \o <<>> = Journal
      BY <1>1, JournalTyped, EventsConcat
    <3>2. ToSet(log) \subseteq ToSet(log')
      BY <2>3, GrownKeepsLog
    <3>3. published' \notin Successes
      BY <1>1, <2>2 DEF ShapeInv, Successes
    <3> QED BY <1>1, <1>3, <1>6, <2>2, <2>3, <3>1, <3>2, <3>3 DEF IInv, ReportInv
  <2>6. \A u, id : u = rec.turn /\ id = todo[1].id /\ Unique(u, id) =>
              /\ pc' = "start" /\ id \in rec'.journaled => Barred(u, id)'
              /\ pc' = "invoke" /\ ~Blind(u, id)' => Barred(u, id)'
    BY <2>1
  <2>7. /\ todo' = todo /\ pc \notin {"denied", "running"} /\ pc' \in Queued
        /\ rec'.journaled = rec.journaled /\ pc' \in {"ask", "denied"}
        /\ SamePlace(rec')
        /\ ToSet(rec'.stashed) \subseteq ToSet(rec.stashed) \cup ToSet(todo)
    BY <1>1, <1>3, <1>6, <2>1, <2>2 DEF Queued
  <2> QED BY <1>1, <2>2, <2>3, <2>4, <2>5, <2>6, <2>7, AlongKeeps
<1> QED BY <1>2, <1>4, <1>5, <1>6 DEF ToolRequested

(* A tool/call that is committed is behind everything else.                 *)
LEMMA BarrierLaid ==
    ASSUME TypeInv, NEW e \in Event, e.type = "tool/call",
           log' = Journal \o <<e>>, Journal' = log'
    PROVE  Barred(e.turn, e.id)'
<1>1. Journal \in Seq(Event) /\ Len(Journal) \in Nat /\ DOMAIN Journal = 1 .. Len(Journal)
  BY JournalTyped
<1>2. \A s \in Seq(Event) :
        /\ DOMAIN (s \o <<e>>) = 1 .. Len(s) + 1 /\ (s \o <<e>>)[Len(s) + 1] = e
        /\ \A i \in 1 .. Len(s) : (s \o <<e>>)[i] = s[i]
  OBVIOUS
<1>3. PICK n \in Nat : n = Len(Journal)
  BY <1>1
<1>4. DOMAIN log' = 1 .. n + 1 /\ log'[n + 1] = e /\ DOMAIN Journal' = 1 .. n + 1
      /\ Journal'[n + 1] = e
  BY <1>1, <1>2, <1>3
<1>5. ~Names(e, e.turn, e.id)
  BY DEF Names
<1>6. \A i \in DOMAIN Journal' : Names(Journal'[i], e.turn, e.id) => i < n + 1
  BY <1>4, <1>5
<1>7. n + 1 \in DOMAIN log'
  BY <1>4
<1> QED BY <1>4, <1>6, <1>7 DEF Barred, Names

LEMMA Singleton ==
    ASSUME NEW e \in Event
    PROVE  /\ <<e>> \in Seq(Event) /\ ToSet(<<e>>) = {e} /\ <<e>> # <<>>
           /\ DOMAIN <<e>> = {1} /\ <<e>>[1] = e
  BY ToSetFacts

(* A tool/call or a result of the run in progress.                          *)
LEMMA WritesAbout ==
    ASSUME IInv, Running, turns' = turns, offered' = offered, blind \subseteq blind',
           NEW t, t = rec.turn, NEW events \in Seq(Event), Grown(events),
           \A m \in DOMAIN events :
              /\ events[m].turn = t /\ events[m].type \in {"tool/call", "tool/result"}
              /\ events[m].type = "tool/result" => Asked(t, events[m].id)
    PROVE  Writes(events, t)
<1>1. /\ Begun(t) /\ t \in 1 .. turns /\ \A i \in DOMAIN Journal : Journal[i].turn <= t
  <2>1. \A u : u = rec.turn => Begun(u)
    BY RunningBegun DEF Begun
  <2> QED BY <2>1, RunningBegun
<1>2. \A u, id : Asked(u, id) => Asked(u, id)'
  BY AskedGrows
<1> QED BY <1>1, <1>2 DEF Writes, Speaks

(* An answer to the call at the head that says it was not executed.         *)
LEMMA TrueOfHead ==
    ASSUME IInv, todo # <<>>, pc \in Queued, pc # "running", NEW e, e.type = "tool/result",
           e.turn = rec.turn, e.id = todo[1].id,
           ran' = ran, offered' = offered, rec'.turn = rec.turn,
           \/ todo' = todo /\ pc' = "denied"
           \/ todo' = Tail(todo)
    PROVE  True(e)
<1>1. TypeInv /\ BarrierLocal
  BY DEF IInv, BarrierInv
<1>2. 1 \in DOMAIN todo
  BY <1>1, TodoFacts
<1> SUFFICES ASSUME NEW call \in offered', Denies(e, call)'
             PROVE  /\ ~Ran(call.turn, call.id)'
                    /\ \A i \in Upcoming' : todo'[i].id # call.id
  BY DEF True
<1>3. call.turn = rec.turn /\ call.id = todo[1].id /\ Unique(call.turn, call.id)
  BY DEF Denies, AnswerOf, Unique
<1>4. ~Ran(call.turn, call.id)'
  BY <1>1, <1>2, <1>3 DEF BarrierLocal, Ran
<1>5. ASSUME NEW i \in Upcoming', todo'[i].id = call.id PROVE FALSE
  <2>1. CASE todo' = todo /\ pc' = "denied"
    <3>1. i \in DOMAIN todo /\ i # 1
      BY <2>1 DEF Upcoming
    <3> QED BY <1>2, <1>3, <1>5, <2>1, <3>1, HeadDistinct
  <2>2. CASE todo' = Tail(todo)
    <3>1. i + 1 \in DOMAIN todo /\ i + 1 # 1 /\ todo'[i] = todo[i + 1]
      BY <1>1, <2>2, TodoFacts DEF Upcoming
    <3> QED BY <1>2, <1>3, <1>5, <3>1, HeadDistinct
  <2> QED BY <2>1, <2>2
<1> QED BY <1>4, <1>5

LEMMA DecideKeeps ==
    ASSUME IInv, Decide
    PROVE  IInv'
<1>1. pc = "ask" /\ TypeInv /\ ShapeInv /\ Running /\ pc \in Queued /\ todo # <<>>
  BY DEF Decide, IInv, Running, Queued, ShapeInv
<1>2. PICK id : id = todo[1].id
  OBVIOUS
<1>3. Head(todo).id = id /\ id \in Ids /\ rec.turn \in Nat /\ rec.step \in Nat
  BY <1>1, <1>2, TodoFacts, RunningBegun
<1>4. PICK t : t = rec.turn
  OBVIOUS
<1>5. \E allow, ok \in BOOLEAN :
          /\ Durably(IF allow THEN <<Called(rec.turn, rec.step, id)>>
                     ELSE <<Result(rec.turn, rec.step, id, "denied")>>, ok)
          /\ rec' = IF ok THEN [rec EXCEPT !.journaled = @ \cup {id}] ELSE rec
          /\ pc' = IF allow /\ ok THEN "start" ELSE "denied"
  BY <1>3 DEF Decide
<1>6. PICK allow \in BOOLEAN, ok \in BOOLEAN :
          /\ Durably(IF allow THEN <<Called(rec.turn, rec.step, id)>>
                     ELSE <<Result(rec.turn, rec.step, id, "denied")>>, ok)
          /\ rec' = IF ok THEN [rec EXCEPT !.journaled = @ \cup {id}] ELSE rec
          /\ pc' = IF allow /\ ok THEN "start" ELSE "denied"
  BY <1>5
<1>7. PICK e : e = IF allow THEN Called(rec.turn, rec.step, id)
                   ELSE Result(rec.turn, rec.step, id, "denied")
  OBVIOUS
<1>8. /\ e \in Event /\ e.turn = t /\ e.id = id
      /\ e.type = IF allow THEN "tool/call" ELSE "tool/result"
  <2>1. e \in Event
    BY <1>3, <1>7, EventTyped DEF Answers
  <2>2. e.turn = rec.turn /\ e.id = id /\ e.type = IF allow THEN "tool/call" ELSE "tool/result"
    BY <1>7 DEF Called, Result
  <2> QED BY <1>4, <2>1, <2>2
<1>9. Durably(<<e>>, ok)
  BY <1>6, <1>7
<1>10. UNCHANGED <<todo, wanted, cancelled, turns, offered, ran, blind, gaveUp, spoiled,
                   receipts, published>>
  BY DEF Decide, ToolVars, history
<1>11. /\ <<e>> \in Seq(Event) /\ DOMAIN <<e>> = {1} /\ <<e>>[1] = e /\ ToSet(<<e>>) = {e}
  BY <1>8, Singleton
<1>12. /\ Grown(<<e>>) /\ fatal' \in BOOLEAN
       /\ ok => log' = Journal \o <<e>> /\ Journal' = log'
       /\ ~fatal' => Journal' = Journal \o <<e>> /\ ~fatal
  BY <1>1, <1>9, <1>11, DurablyFacts
<1>13. Asked(t, id)
  BY <1>1, <1>2, <1>4, HeadAsked, TodoFacts
<1>14. Writes(<<e>>, t)
  BY <1>1, <1>4, <1>8, <1>10, <1>11, <1>12, <1>13, WritesAbout
<1>15. SamePlace(rec') /\ rec'.stashed = rec.stashed /\ rec'.error = rec.error
       /\ rec'.journaled = IF ok THEN rec.journaled \cup {id} ELSE rec.journaled
  <2>1. rec \in Recorder /\ rec.journaled \in SUBSET Ids
    BY <1>1 DEF TypeInv, Recorder
  <2>2. \A s \in SUBSET Ids : LET q == [rec EXCEPT !.journaled = s] IN
           SamePlace(q) /\ q.stashed = rec.stashed /\ q.error = rec.error /\ q.journaled = s
    BY <2>1, RecorderTyped DEF SamePlace, Recorder
  <2>3. rec' = IF ok THEN [rec EXCEPT !.journaled = rec.journaled \cup {id}] ELSE rec
    BY <1>6
  <2>4. rec.journaled \cup {id} \in SUBSET Ids
    BY <1>3, <2>1
  <2> QED BY <1>1, <2>2, <2>3, <2>4, SamePlaceFacts
<1>16. \A m \in DOMAIN <<e>> : True(<<e>>[m])
  <2>1. CASE allow
    BY <1>8, <1>11, <2>1 DEF True, Denies, AnswerOf
  <2>2. CASE ~allow
    <3>1. rec'.turn = rec.turn /\ pc' = "denied"
      BY <1>6, <1>15, <2>2 DEF SamePlace
    <3>2. True(e)
      BY <1>1, <1>2, <1>4, <1>8, <1>10, <2>2, <3>1, TrueOfHead
    <3> QED BY <1>11, <3>2
  <2> QED BY <2>1, <2>2
<1>17. ReportInv'
  <2>1. ToSet(log) \subseteq ToSet(log')
    BY <1>12, GrownKeepsLog
  <2>2. published' \notin Successes
    BY <1>1, <1>10 DEF ShapeInv, Successes
  <2>3. ~fatal' => ToSet(Journal) \subseteq ToSet(Journal')
    <3>1. Journal \in Seq(Event)
      BY <1>1, JournalTyped
    <3>2. ToSet(Journal \o <<e>>) = ToSet(Journal) \cup {e}
      BY <1>11, <3>1, EventsConcat
    <3> QED BY <1>12, <3>2
  <2> QED BY <1>1, <1>10, <1>12, <1>15, <2>1, <2>2, <2>3 DEF IInv, ReportInv
<1>18. \A v, w : v = rec.turn /\ w = todo[1].id /\ Unique(v, w) =>
              /\ pc' = "start" /\ w \in rec'.journaled => Barred(v, w)'
              /\ pc' = "invoke" /\ ~Blind(v, w)' => Barred(v, w)'
  <2>1. pc' # "invoke" /\ (pc' = "start" => allow /\ ok)
    BY <1>6
  <2>2. ASSUME allow, ok PROVE Barred(e.turn, e.id)'
    BY <1>1, <1>8, <1>12, <2>2, BarrierLaid
  <2> QED BY <1>2, <1>4, <1>8, <2>1, <2>2
<1>19. /\ todo' = todo /\ pc \notin {"denied", "running"} /\ pc' \in {"start", "denied"}
       /\ rec'.journaled \subseteq rec.journaled \cup {todo[1].id} /\ pc' \in Queued
       /\ ToSet(rec'.stashed) \subseteq ToSet(rec.stashed) \cup ToSet(todo)
  BY <1>1, <1>2, <1>6, <1>10, <1>15 DEF Queued
<1> QED BY <1>1, <1>10, <1>12, <1>14, <1>15, <1>16, <1>17, <1>18, <1>19, AlongKeeps

LEMMA PermissionDeniedKeeps ==
    ASSUME IInv, PermissionDenied
    PROVE  IInv'
<1>1. pc = "denied" /\ TypeInv /\ ShapeInv /\ Running /\ pc \in Queued /\ todo # <<>>
      /\ pc' = "tools" /\ todo' = Tail(todo) /\ pc' \in Queued
  BY DEF PermissionDenied, IInv, Running, Queued, ShapeInv
<1>2. UNCHANGED <<cancelled, turns, offered, ran, blind, gaveUp, spoiled, receipts, published>>
  BY DEF PermissionDenied, history
<1>3. PICK at : at = UnjournaledByName(rec, Head(todo).tool)
  OBVIOUS
<1>4. rec \in Recorder /\ rec.stashed \in Seq(ToolCall)
  BY <1>1 DEF TypeInv, Recorder
<1>5. CASE at = 0 /\ UNCHANGED <<journal, rec, wanted>>
  <2>1. UNCHANGED <<log, buffer, fatal, rec, wanted>>
    BY <1>5 DEF journal
  <2>2. ReportInv' /\ Grown(<<>>)
    BY <1>1, <1>2, <2>1, ReportSame
  <2>3. Writes(<<>>, 0) /\ \A m \in DOMAIN <<>> : True(<<>>[m])
    BY <1>1, <1>2, <2>2, WritesNothing
  <2>4. SamePlace(rec')
        /\ ToSet(rec'.stashed) \subseteq ToSet(rec.stashed) \cup ToSet(todo)
        /\ rec'.journaled = rec.journaled /\ fatal' \in BOOLEAN
    BY <1>1, <2>1, SamePlaceFacts DEF TypeInv
  <2> QED BY <1>1, <1>2, <2>2, <2>3, <2>4, AlongKeeps
<1>6. CASE /\ at # 0
           /\ RecordFlush([rec EXCEPT !.stashed = RemoveAt(@, at)],
                 <<Result(rec.turn, rec.step, rec.stashed[at].id, "denied")>>)
  <2>1. /\ at \in 1 .. Len(rec.stashed) /\ rec.stashed[at].tool = Head(todo).tool
    BY <1>3, <1>4, <1>6, UnjournaledFacts
  <2>2. PICK s : s = rec.stashed[at]
    OBVIOUS
  <2>3. s \in ToSet(rec.stashed) /\ s.id \in Ids /\ s.tool = Head(todo).tool
    <3>1. at \in DOMAIN rec.stashed /\ s \in ToolCall
      BY <1>4, <2>1, <2>2
    <3> QED BY <2>1, <2>2, <3>1 DEF ToSet, ToolCall
  <2>4. PICK kept : kept = RemoveAt(rec.stashed, at)
    OBVIOUS
  <2>5. kept \in Seq(ToolCall) /\ ToSet(kept) \subseteq ToSet(rec.stashed)
    BY <1>4, <2>1, <2>4, RemoveAtFacts
  <2>6. PICK r : r = [rec EXCEPT !.stashed = kept]
    OBVIOUS
  <2>7. /\ r \in Recorder /\ SamePlace(r) /\ r.stashed = kept
        /\ r.journaled = rec.journaled /\ r.error = rec.error
    <3>1. r \in Recorder
      BY <1>4, <2>5, <2>6, RecorderTyped
    <3> QED BY <1>4, <2>6, <3>1 DEF SamePlace, Recorder
  <2>8. PICK e : e = Result(rec.turn, rec.step, s.id, "denied")
    OBVIOUS
  <2>9. PICK t : t = rec.turn
    OBVIOUS
  <2>10. /\ e \in Event /\ e.turn = t /\ e.type = "tool/result" /\ e.id = s.id
         /\ e.answer = "denied"
    <3>1. e \in Event
      BY <1>1, <2>3, <2>8, RunningBegun, EventTyped DEF Answers
    <3> QED BY <2>8, <2>9, <3>1 DEF Result
  <2>11. RecordFlush(r, <<e>>)
    BY <1>6, <2>2, <2>4, <2>6, <2>8
  <2>12. /\ <<e>> \in Seq(Event) /\ DOMAIN <<e>> = {1} /\ <<e>>[1] = e
    BY <2>10, Singleton
  <2>13. /\ Grown(<<e>>) /\ fatal' \in BOOLEAN
         /\ rec' = [r EXCEPT !.error = rec'.error] /\ rec' \in Recorder
    BY <1>1, <2>7, <2>11, <2>12, RecordFlushFacts
  <2>14. SamePlace(rec') /\ rec'.stashed = kept /\ rec'.journaled = rec.journaled
    BY <2>7, <2>13, RecorderBehind DEF SamePlace
  <2>15. PICK c \in offered : c.turn = rec.turn /\ c.id = s.id /\ c.tool = s.tool
    BY <2>3, QueueAsked
  <2>16. PICK h \in offered : h.turn = rec.turn /\ h.id = todo[1].id /\ h.tool = s.tool
    BY <1>1, <2>3, QueueAsked, TodoFacts
  <2>17. Writes(<<e>>, t)
    <3>1. Asked(t, e.id)
      BY <2>9, <2>10, <2>15 DEF Asked
    <3> QED BY <1>1, <1>2, <2>9, <2>10, <2>12, <2>13, <3>1, WritesAbout
  <2>18. True(e)
    <3>1. CASE s.id = todo[1].id
      <4>1. rec'.turn = rec.turn /\ e.turn = rec.turn /\ e.id = todo[1].id
            /\ e.type = "tool/result"
        BY <2>9, <2>10, <2>14, <3>1 DEF SamePlace
      <4> QED BY <1>1, <1>2, <4>1, TrueOfHead
    <3>2. CASE s.id # todo[1].id
      <4>1. ASSUME NEW call \in offered', Denies(e, call)' PROVE FALSE
        <5>1. Denies(e, call)
          BY <1>2, <4>1, DeniesKept
        <5>2. /\ call.turn = rec.turn /\ call.id = s.id /\ Unique(call.turn, call.id)
              /\ OnlyUse(call) /\ call \in offered
          BY <1>2, <2>9, <2>10, <4>1, <5>1 DEF Denies, AnswerOf
        <5>3. c = call
          BY <2>15, <5>2 DEF Unique
        <5>4. h = call
          BY <2>15, <2>16, <5>2, <5>3, OnlyUseFacts
        <5> QED BY <2>16, <3>2, <5>2, <5>4
      <4> QED BY <4>1 DEF True
    <3> QED BY <3>1, <3>2
  <2>19. ReportInv'
    <3>1. receipts' \subseteq ToSet(log')
      BY <1>2, <2>13, ReceiptsKept
    <3> QED BY <1>1, <1>2, <2>7, <2>11, <2>12, <3>1, ReportAfter
  <2>20. ToSet(rec'.stashed) \subseteq ToSet(rec.stashed) \cup ToSet(todo)
    BY <2>5, <2>14
  <2>21. \A m \in DOMAIN <<e>> : True(<<e>>[m])
    BY <2>12, <2>18
  <2> QED BY <1>1, <1>2, <2>13, <2>14, <2>17, <2>19, <2>20, <2>21, AlongKeeps
<1> QED BY <1>3, <1>5, <1>6 DEF PermissionDenied

LEMMA ToolStartedKeeps ==
    ASSUME IInv, ToolStarted
    PROVE  IInv'
<1>1. pc = "start" /\ TypeInv /\ ShapeInv /\ Running /\ pc \in Queued /\ todo # <<>>
      /\ pc' = "invoke" /\ todo' = todo /\ pc' \in Queued
  BY DEF ToolStarted, IInv, Running, Queued, ShapeInv
<1>2. UNCHANGED <<cancelled, turns, offered, ran, gaveUp, spoiled, receipts, published>>
  BY DEF ToolStarted
<1>3. PICK id, t : id = todo[1].id /\ t = rec.turn
  OBVIOUS
<1>4. Head(todo).id = id /\ id \in Ids /\ rec.turn \in Nat /\ rec.step \in Nat
      /\ rec \in Recorder
  BY <1>1, <1>3, TodoFacts, RunningBegun DEF TypeInv
<1>5. CASE id \in rec.journaled
  <2>1. UNCHANGED <<log, buffer, fatal, rec, wanted, blind>>
    BY <1>4, <1>5 DEF ToolStarted, journal
  <2>2. ReportInv' /\ Grown(<<>>)
    BY <1>1, <1>2, <2>1, ReportSame
  <2>3. Writes(<<>>, 0) /\ \A m \in DOMAIN <<>> : True(<<>>[m])
    BY <1>1, <1>2, <2>1, <2>2, WritesNothing
  <2>4. SamePlace(rec')
        /\ ToSet(rec'.stashed) \subseteq ToSet(rec.stashed) \cup ToSet(todo)
        /\ rec'.journaled = rec.journaled /\ fatal' \in BOOLEAN
    BY <1>1, <2>1, SamePlaceFacts DEF TypeInv
  <2>5. Unique(t, id) => Barred(t, id)'
    <3>1. Unique(t, id) => Barred(t, id)
      BY <1>1, <1>3, <1>5 DEF IInv, BarrierInv, BarrierLocal
    <3> QED BY <1>1, <2>3, <3>1, BarredBehindNothing
  <2>6. \A v, w : v = rec.turn /\ w = todo[1].id /\ Unique(v, w) =>
              /\ pc' = "start" /\ w \in rec'.journaled => Barred(v, w)'
              /\ pc' = "invoke" /\ ~Blind(v, w)' => Barred(v, w)'
    BY <1>1, <1>3, <2>5
  <2> QED BY <1>1, <1>2, <2>2, <2>3, <2>4, <2>6, AlongKeeps
<1>6. CASE id \notin rec.journaled
  <2>1. PICK e : e = Called(rec.turn, rec.step, id)
    OBVIOUS
  <2>2. /\ e \in Event /\ e.turn = t /\ e.type = "tool/call" /\ e.id = id
    <3>1. e \in Event
      BY <1>4, <2>1, EventTyped
    <3> QED BY <1>3, <2>1, <3>1 DEF Called
  <2>3. /\ RecordFlush(rec, <<e>>)
        /\ blind' = IF rec'.error THEN blind \cup {[turn |-> t, id |-> id]} ELSE blind
    BY <1>3, <1>4, <1>6, <2>1 DEF ToolStarted
  <2>4. /\ <<e>> \in Seq(Event) /\ DOMAIN <<e>> = {1} /\ <<e>>[1] = e
    BY <2>2, Singleton
  <2>5. /\ Grown(<<e>>) /\ fatal' \in BOOLEAN
        /\ rec' = [rec EXCEPT !.error = rec'.error] /\ rec' \in Recorder
        /\ ~rec'.error => Journal' = log' /\ log' = Journal \o <<e>>
    BY <1>1, <1>4, <2>3, <2>4, RecordFlushFacts
  <2>6. SamePlace(rec') /\ rec'.stashed = rec.stashed /\ rec'.journaled = rec.journaled
    BY <1>4, <2>5, RecorderBehind DEF SamePlace
  <2>7. Writes(<<e>>, t)
    BY <1>1, <1>2, <1>3, <2>2, <2>3, <2>4, <2>5, WritesAbout
  <2>8. \A m \in DOMAIN <<e>> : True(<<e>>[m])
    BY <2>2, <2>4 DEF True, Denies, AnswerOf
  <2>9. ReportInv'
    <3>1. receipts' \subseteq ToSet(log')
      BY <1>2, <2>5, ReceiptsKept
    <3> QED BY <1>1, <1>2, <1>4, <2>3, <2>4, <3>1, ReportAfter
  <2>10. ~Blind(t, id)' => Barred(t, id)'
    <3>1. rec'.error => Blind(t, id)'
      BY <2>3 DEF Blind
    <3>2. ~rec'.error => Barred(e.turn, e.id)'
      BY <1>1, <2>2, <2>5, BarrierLaid
    <3> QED BY <2>2, <3>1, <3>2
  <2>11. \A v, w : v = rec.turn /\ w = todo[1].id /\ Unique(v, w) =>
              /\ pc' = "start" /\ w \in rec'.journaled => Barred(v, w)'
              /\ pc' = "invoke" /\ ~Blind(v, w)' => Barred(v, w)'
    BY <1>1, <1>3, <2>10
  <2>12. ToSet(rec'.stashed) \subseteq ToSet(rec.stashed) \cup ToSet(todo)
    BY <2>6
  <2> QED BY <1>1, <1>2, <2>5, <2>6, <2>7, <2>8, <2>9, <2>11, <2>12, AlongKeeps
<1> QED BY <1>5, <1>6

LEMMA InvokeKeeps ==
    ASSUME IInv, Invoke
    PROVE  IInv'
<1>1. pc = "invoke" /\ TypeInv /\ ShapeInv /\ Running /\ pc \in Queued /\ todo # <<>>
      /\ pc' = "running" /\ pc' \in Queued /\ Running'
  BY DEF Invoke, IInv, Running, Queued, ShapeInv
<1>2. /\ UNCHANGED <<log, buffer, fatal, rec, todo, cancelled, wanted, turns, offered, blind,
                     gaveUp, spoiled, receipts, published>>
      /\ ran' = ran \cup {[turn |-> rec.turn, id |-> todo[1].id]}
  BY <1>1, TodoFacts DEF Invoke, journal
<1>3. ReportInv' /\ Grown(<<>>) /\ Journal' = Journal
  BY <1>1, <1>2, ReportSame
<1>4. Executes /\ Leaves
  BY <1>1, <1>2, LeavesAlong DEF Executes
<1>5. Step(<<>>, 0)
  BY <1>1, <1>2, <1>3, <1>4, StepWritesNothing
<1>6. TypeInv' /\ ShapeInv' /\ ~rec'.text
  BY <1>1, <1>2 DEF TypeInv, ShapeInv, Running
<1>7. AskedLocal'
  BY <1>1, <1>2, <1>6, AskedAlong
<1>8. BarrierLocal'
  <2>1. BarrierLocal
    BY DEF IInv, BarrierInv
  <2>2. \A i \in DOMAIN todo : \A u, id : u = rec.turn /\ id = todo[i].id =>
           (Unique(u, id)' /\ i # 1 => ~Ran(u, id)')
    <3> SUFFICES ASSUME NEW i \in DOMAIN todo, NEW u, NEW id,
                        u = rec.turn, id = todo[i].id, Unique(u, id)', i # 1, Ran(u, id)'
                 PROVE  FALSE
      OBVIOUS
    <3>1. ~Ran(u, id)
      BY <1>1, <1>2, <2>1 DEF BarrierLocal, Unique
    <3>2. [turn |-> u, id |-> id] = [turn |-> rec.turn, id |-> todo[1].id]
      BY <1>2, <3>1 DEF Ran
    <3>3. id = todo[1].id
      BY <3>2
    <3> QED BY <1>1, <3>3, HeadDistinct, TodoFacts
  <2>3. ASSUME NEW i \in DOMAIN todo'
        PROVE  Unique(rec.turn, todo[i].id)' /\ i # 1 => ~Ran(rec.turn, todo[i].id)'
    <3>1. PICK u, id : u = rec'.turn /\ id = todo'[i].id
      OBVIOUS
    <3>2. Unique(u, id)' /\ i # 1 => ~Ran(u, id)'
      BY <1>2, <2>2, <3>1
    <3> QED BY <3>1, <3>2 DEF Unique, Ran
  <2>4. \A i \in DOMAIN todo' :
          todo'[i].id \in rec'.journaled /\ Unique(rec.turn, todo[i].id)'
          => i = 1 /\ pc' \in {"start", "invoke", "running", "denied"}
    BY <1>1, <1>2, <2>1 DEF BarrierLocal, Unique
  <2>5. Unique(rec.turn, todo[1].id)' /\ ~Blind(rec.turn, todo[1].id)'
           => Barred(rec.turn, todo[1].id)'
    BY <1>1, <1>2, <1>3, <2>1 DEF BarrierLocal, Unique, Blind, Barred, Names
  <2> QED BY <1>1, <1>6, <2>3, <2>4, <2>5 DEF BarrierLocal
<1> QED BY <1>1, <1>2, <1>3, <1>5, <1>6, <1>7, <1>8, StepKeeps

LEMMA ToolFinishedKeeps ==
    ASSUME IInv, ToolFinished
    PROVE  IInv'
<1>1. pc = "running" /\ TypeInv /\ ShapeInv /\ Running /\ pc \in Queued /\ todo # <<>>
  BY DEF ToolFinished, IInv, Running, Queued, ShapeInv
<1>2. SamePlace(rec) /\ ToSet(rec.stashed) \subseteq ToSet(rec.stashed) \cup ToSet(todo)
      /\ rec \in Recorder
  BY <1>1, SamePlaceFacts DEF TypeInv
<1>3. PICK id, t : id = todo[1].id /\ t = rec.turn
  OBVIOUS
<1>4. Head(todo).id = id /\ id \in Ids /\ rec.turn \in Nat /\ rec.step \in Nat
  BY <1>1, <1>3, TodoFacts, RunningBegun
<1>5. ASSUME NEW terminal \in Terminals, Stops(rec, terminal) PROVE IInv'
  <2>1. PICK r : r = rec
    OBVIOUS
  <2>2. Stops(r, terminal)
    BY <1>5, <2>1 DEF Stops
  <2> QED BY <1>1, <1>2, <2>1, <2>2, StopsKeeps
<1>6. CASE \E terminal \in {"cancelled", "failed", "none"} : Stops(rec, terminal)
  BY <1>5, <1>6 DEF Terminals
<1>7. CASE /\ Record(rec, <<Output(Head(todo).id)>>)
           /\ pc' = "tools" /\ todo' = Tail(todo)
           /\ UNCHANGED <<cancelled, crashes, history>>
  <2>1. PICK e : e = Output(id)
    OBVIOUS
  <2>2. /\ e \in Event /\ e.turn = t /\ e.type = "tool/result" /\ e.id = id
        /\ e.answer = "output"
    <3>1. e \in Event
      BY <1>4, <2>1, EventTyped DEF Answers, Output
    <3> QED BY <1>3, <2>1, <3>1 DEF Output, Result
  <2>3. Record(rec, <<e>>)
    BY <1>4, <1>7, <2>1
  <2>4. /\ <<e>> \in Seq(Event) /\ DOMAIN <<e>> = {1} /\ <<e>>[1] = e
    BY <2>2, Singleton
  <2>5. /\ Grown(<<e>>) /\ fatal' = fatal
        /\ rec' = [rec EXCEPT !.error = rec'.error] /\ rec' \in Recorder
    BY <1>1, <1>2, <2>3, <2>4, RecordFacts
  <2>6. SamePlace(rec') /\ rec'.stashed = rec.stashed /\ rec'.journaled = rec.journaled
    BY <1>2, <2>5, RecorderBehind DEF SamePlace
  <2>7. UNCHANGED <<cancelled, turns, offered, ran, blind, gaveUp, spoiled, receipts, published>>
    BY <1>7 DEF history
  <2>8. Writes(<<e>>, t)
    <3>1. Asked(t, e.id)
      BY <1>1, <1>3, <2>2, HeadAsked, TodoFacts
    <3> QED BY <1>1, <1>3, <2>2, <2>4, <2>5, <2>7, <3>1, WritesAbout, ZenonT(40)
  <2>9. \A m \in DOMAIN <<e>> : True(<<e>>[m])
    BY <2>2, <2>4 DEF True, Denies, AnswerOf
  <2>10. ReportInv'
    <3>1. receipts' \subseteq ToSet(log')
      BY <2>5, <2>7, ReceiptsKept
    <3> QED BY <1>1, <1>2, <2>3, <2>4, <2>7, <3>1, ReportAfter
  <2>11. pc' = "tools" /\ todo' = Tail(todo) /\ pc' \in Queued /\ fatal' \in BOOLEAN
         /\ ToSet(rec'.stashed) \subseteq ToSet(rec.stashed) \cup ToSet(todo)
    BY <1>1, <1>7, <2>5, <2>6 DEF Queued, TypeInv
  <2> QED BY <1>1, <2>6, <2>7, <2>8, <2>9, <2>10, <2>11, AlongKeeps
<1> QED BY <1>6, <1>7 DEF ToolFinished

(* A workflow transition: the calls behind the head are skipped.            *)
LEMMA ToolBoundaryKeeps ==
    ASSUME IInv, ToolBoundary
    PROVE  IInv'
<1>1. /\ pc = "running" /\ TypeInv /\ ShapeInv /\ Running /\ todo # <<>>
      /\ pc' = "finish" /\ todo' = <<>> /\ Running' /\ gaveUp' = gaveUp
      /\ UNCHANGED <<cancelled, turns, offered, ran, blind, spoiled, receipts, published>>
  BY DEF ToolBoundary, Ends, IInv, Running, ShapeInv
<1>2. rec \in Recorder /\ rec.turn \in Nat /\ rec.step \in Nat
  BY <1>1, RunningBegun DEF TypeInv
<1>3. PICK t, s : t = rec.turn /\ s = rec.step
  OBVIOUS
<1>4. PICK calls : calls = todo
  OBVIOUS
<1>5. /\ calls \in Seq(ToolCall) /\ DOMAIN calls = 1 .. Len(calls) /\ Len(calls) \in Nat
      /\ 1 \in DOMAIN calls /\ Head(calls) = calls[1] /\ \A i \in DOMAIN calls : calls[i].id \in Ids
  BY <1>1, <1>4, TodoFacts
<1> DEFINE rest == [i \in 1 .. Len(calls) - 1 |-> Result(t, s, calls[i + 1].id, "skipped")]
           first == <<Result(t, s, calls[1].id, "output")>>
<1>6. /\ first \in Seq(Event) /\ rest \in Seq(Event)
      /\ DOMAIN first = {1} /\ DOMAIN rest = 1 .. Len(calls) - 1
  <2>1. \A i \in 1 .. Len(calls) - 1 : Result(t, s, calls[i + 1].id, "skipped") \in Event
    <3>1. \A i \in 1 .. Len(calls) - 1 : calls[i + 1].id \in Ids
      BY <1>5
    <3> QED BY <1>2, <1>3, <3>1, EventTyped DEF Answers
  <2>2. Result(t, s, calls[1].id, "output") \in Event
    BY <1>2, <1>3, <1>5, EventTyped DEF Answers
  <2>3. Len(calls) - 1 \in Nat
    BY <1>5
  <2> QED BY <2>1, <2>2, <2>3
<1>7. PICK r : r = [rec EXCEPT !.terminal = "completed"]
  OBVIOUS
<1>8. /\ r \in Recorder /\ SamePlace(r) /\ r.error = rec.error /\ r.stashed = rec.stashed
      /\ r.journaled = rec.journaled
  <2>1. r \in Recorder
    BY <1>2, <1>7, RecorderTyped DEF Terminals
  <2> QED BY <1>2, <1>7, <2>1 DEF SamePlace, Recorder
<1>9. PICK events : events = first \o rest
  OBVIOUS
<1>10. Record(r, events)
  <2>1. Head(todo).id = calls[1].id
    BY <1>4, <1>5
  <2>2. first = <<Output(Head(todo).id)>>
    BY <1>3, <2>1 DEF Output
  <2>3. rest = [i \in 1 .. Len(todo) - 1 |-> Result(rec.turn, rec.step, todo[i + 1].id, "skipped")]
    BY <1>3, <1>4
  <2> HIDE DEF first, rest
  <2> QED BY <1>7, <1>9, <2>2, <2>3 DEF ToolBoundary
<1>11. /\ events \in Seq(Event)
       /\ \A m \in DOMAIN events :
            \/ events[m] = Result(t, s, calls[1].id, "output")
            \/ \E i \in DOMAIN calls : i # 1 /\ events[m] = Result(t, s, calls[i].id, "skipped")
  <2>1. ASSUME NEW e \in ToSet(first) PROVE e = Result(t, s, calls[1].id, "output")
    BY <1>6, <2>1 DEF ToSet
  <2>2. ASSUME NEW e \in ToSet(rest)
        PROVE  \E i \in DOMAIN calls : i # 1 /\ e = Result(t, s, calls[i].id, "skipped")
    <3>1. PICK i \in 1 .. Len(calls) - 1 : e = Result(t, s, calls[i + 1].id, "skipped")
      BY <1>6, <2>2 DEF ToSet
    <3>2. i + 1 \in DOMAIN calls /\ i + 1 # 1
      BY <1>5
    <3> QED BY <3>1, <3>2
  <2> HIDE DEF first, rest
  <2>3. events \in Seq(Event) /\ ToSet(events) = ToSet(first) \cup ToSet(rest)
    BY <1>6, <1>9, EventsConcat
  <2>4. \A m \in DOMAIN events : events[m] \in ToSet(events)
    BY DEF ToSet
  <2> QED BY <2>1, <2>2, <2>3, <2>4
<1> HIDE DEF first, rest
<1>12. /\ Grown(events) /\ fatal' = fatal
       /\ rec' = [r EXCEPT !.error = rec'.error] /\ rec' \in Recorder
  BY <1>1, <1>8, <1>10, <1>11, RecordFacts
<1>13. /\ rec'.turn = rec.turn /\ rec'.step = rec.step /\ rec'.open = rec.open
       /\ ~rec'.text /\ rec'.stashed = rec.stashed /\ rec'.journaled = rec.journaled
  <2>1. ~rec.text
    BY <1>1 DEF ShapeInv
  <2> QED BY <1>8, <1>12, <2>1, RecorderBehind DEF SamePlace
<1>14. Writes(events, t)
  <2>1. \A i \in DOMAIN calls : Asked(t, calls[i].id)
    BY <1>1, <1>3, <1>4, HeadAsked
  <2>2. \A m \in DOMAIN events :
          /\ events[m].turn = t /\ events[m].type \in {"tool/call", "tool/result"}
          /\ events[m].type = "tool/result" => Asked(t, events[m].id)
    BY <1>5, <1>11, <2>1 DEF Result
  <2> QED BY <1>1, <1>3, <1>11, <1>12, <2>2, WritesAbout
<1>15. Upcoming' = {}
  BY <1>1 DEF Upcoming
<1>16. \A m \in DOMAIN events : True(events[m])
  <2> SUFFICES ASSUME NEW m \in DOMAIN events, NEW e, e = events[m],
                      NEW call \in offered', Denies(e, call)'
               PROVE  ~Ran(call.turn, call.id)'
    BY <1>15 DEF True
  <2>1. e.type = "tool/result" /\ e.turn = call.turn /\ e.id = call.id
        /\ e.answer \in {"skipped", "not started", "denied"} /\ Unique(call.turn, call.id)
    BY <1>1 DEF Denies, AnswerOf, Unique
  <2>2. PICK i \in DOMAIN calls : i # 1 /\ e = Result(t, s, calls[i].id, "skipped")
    <3>1. Result(t, s, calls[1].id, "output").answer = "output"
      BY DEF Result
    <3>2. e # Result(t, s, calls[1].id, "output")
      BY <2>1, <3>1
    <3> QED BY <1>11, <3>2
  <2>3. call.turn = t /\ call.id = calls[i].id
    BY <2>1, <2>2 DEF Result
  <2>4. BarrierLocal
    BY DEF IInv, BarrierInv
  <2>5. ~Ran(call.turn, call.id)
    BY <1>1, <1>3, <1>4, <2>1, <2>2, <2>3, <2>4 DEF BarrierLocal
  <2> QED BY <1>1, <2>5 DEF Ran
<1>17. Step(events, t)
  BY <1>1, <1>14, <1>16, LeavesNothing DEF Step, Executes
<1>18. AskedLocal' /\ BarrierLocal'
  <2>1. ToSet(rec'.stashed) \subseteq ToSet(rec.stashed) \cup ToSet(todo)
    BY <1>13
  <2> QED BY <1>1, <1>12, <1>13, <2>1, LocalBetween
<1>19. TypeInv'
  BY <1>1, <1>12 DEF TypeInv, Grown
<1>20. ShapeInv'
  BY <1>1, <1>13 DEF ShapeInv, Running
<1>21. ReportInv'
  <2>1. receipts' \subseteq ToSet(log')
    BY <1>1, <1>12, ReceiptsKept
  <2> QED BY <1>1, <1>8, <1>10, <1>11, <2>1, ReportAfter
<1> QED BY <1>1, <1>13, <1>17, <1>18, <1>19, <1>20, <1>21, StepKeeps

-----------------------------------------------------------------------------
(* The end of a round, and of a process *)

(* The partial message of a step that was cut short names calls that were   *)
(* never executed.                                                          *)
LEMMA ClosersWrite ==
    ASSUME IInv, pc = "finish", NEW t, t = rec.turn, offered' = offered
    PROVE  /\ StepClosers(rec) \in Seq(Event)
           /\ \A e \in ToSet(StepClosers(rec)) :
                /\ e.turn = t /\ e.type \in {"assistant/message", "step/end"}
                /\ e.type = "assistant/message" =>
                     \A id \in ToSet(e.calls) :
                        Asked(t, id)' /\ (Unique(t, id)' => ~Ran(t, id))
<1>1. /\ rec \in Recorder /\ Running /\ AskedLocal /\ BarrierLocal /\ rec.text \in BOOLEAN
      /\ rec.completed \in Seq(ToolCall)
  BY DEF IInv, TypeInv, AskedInv, BarrierInv, Running, Recorder
<1>2. PICK m : m = Message(rec.turn, rec.step, IdsOf(rec.completed))
  OBVIOUS
<1>3. /\ StepClosers(rec) \in Seq(Event)
      /\ ToSet(StepClosers(rec)) \subseteq {m, StepEnd(rec.turn, rec.step)}
      /\ ~rec.text => ToSet(StepClosers(rec)) \subseteq {StepEnd(rec.turn, rec.step)}
  BY <1>1, <1>2, StepClosersFacts
<1>4. m.turn = t /\ m.type = "assistant/message" /\ m.calls = IdsOf(rec.completed)
  BY <1>2 DEF Message
<1>5. ASSUME rec.text, NEW id \in ToSet(m.calls)
      PROVE  Asked(t, id)' /\ (Unique(t, id)' => ~Ran(t, id))
  <2>1. PICK i \in DOMAIN rec.completed : id = rec.completed[i].id
    BY <1>1, <1>4, <1>5, IdsOfFacts DEF ToSet
  <2>2. PICK c \in offered : c = [turn |-> rec.turn, step |-> rec.step,
                                  id |-> rec.completed[i].id, tool |-> rec.completed[i].tool]
    BY <1>1, <1>5, <2>1 DEF AskedLocal
  <2>3. c.turn = rec.turn /\ c.step = rec.step /\ c.id = id
    BY <2>1, <2>2
  <2>4. Unique(c.turn, c.id) => ~Ran(c.turn, c.id)
    BY <1>1, <1>5, <2>3 DEF BarrierLocal
  <2> QED BY <2>3, <2>4 DEF Asked, Unique
<1>6. StepEnd(rec.turn, rec.step).turn = t /\ StepEnd(rec.turn, rec.step).type = "step/end"
  BY DEF StepEnd
<1> QED BY <1>1, <1>3, <1>4, <1>5, <1>6

LEMMA OutsideKeeps ==
    ASSUME IInv, NEW events, NEW t, Writes(events, t), \A m \in DOMAIN events : True(events[m]),
           ~Running', rec' = NewRecorder(0), todo' = <<>>, offered' = offered, ran' = ran,
           TypeInv', ReportInv', pc' = "down" => buffer' = <<>>
    PROVE  IInv'
<1>1. turns' = turns /\ turns \in Nat
  BY DEF Writes, Speaks, IInv, TypeInv
<1>2. AskedLocal' /\ BarrierLocal'
  BY <1>1, LocalOutside
<1>3. Step(events, t)
  BY LeavesNothing DEF Step, Executes
<1>4. ShapeInv'
  BY DEF ShapeInv, Running, NewRecorder
<1> QED BY <1>2, <1>3, <1>4, StepKeeps

LEMMA FinishKeeps ==
    ASSUME IInv, Finish
    PROVE  IInv'
<1>1. pc = "finish" /\ TypeInv /\ ShapeInv /\ Running /\ rec \in Recorder
      /\ rec.turn \in 1 .. turns /\ todo = <<>>
  BY RunningBegun DEF Finish, IInv, Running, ShapeInv, TypeInv
<1>2. PICK broken \in BOOLEAN, ok \in BOOLEAN :
          LET events == StepClosers(rec) \o <<TurnEnd(rec.turn, Reason(broken))>>
              r == [StepClosed(rec) EXCEPT
                       !.terminal = IF broken THEN "failed" ELSE @,
                       !.error = @ \/ ~ok]
          IN  /\ Durably(IF rec.error THEN <<>> ELSE events, ok)
              /\ published' = Publish(r)
              /\ wanted' = IF published' \in Successes
                           THEN wanted \cup ToSet(events) ELSE {}
              /\ spoiled' = IF r.error THEN spoiled \cup {rec.turn} ELSE spoiled
  BY DEF Finish
<1>3. /\ pc' = "idle" /\ rec' = NewRecorder(0) /\ cancelled' = FALSE /\ ~Running'
      /\ UNCHANGED <<todo, crashes, turns, offered, ran, blind, gaveUp, receipts>>
  BY DEF Finish, Running
<1>4. PICK t, e : t = rec.turn /\ e = TurnEnd(rec.turn, Reason(broken))
  OBVIOUS
<1>5. PICK all : all = StepClosers(rec) \o <<e>>
  OBVIOUS
<1>6. PICK events : events = IF rec.error THEN <<>> ELSE all
  OBVIOUS
<1>7. e \in Event /\ e.turn = t /\ e.type = "turn/end"
  <2>1. Reason(broken) \in Reasons
    BY DEF Reason, Reasons
  <2>2. e \in Event
    BY <1>1, <1>4, <2>1, RunningBegun, EventTyped
  <2> QED BY <1>4, <2>2 DEF TurnEnd
<1>8. /\ all \in Seq(Event)
      /\ \A d \in ToSet(all) :
           /\ d.turn = t /\ d.type \notin {"turn/start", "tool/result"}
           /\ d.type = "assistant/message" =>
                \A id \in ToSet(d.calls) :
                   Asked(t, id)' /\ (Unique(t, id)' => ~Ran(t, id))
  <2>1. <<e>> \in Seq(Event) /\ ToSet(<<e>>) = {e}
    BY <1>7, Singleton
  <2>2. /\ StepClosers(rec) \in Seq(Event)
        /\ \A d \in ToSet(StepClosers(rec)) :
             /\ d.turn = t /\ d.type \in {"assistant/message", "step/end"}
             /\ d.type = "assistant/message" =>
                  \A id \in ToSet(d.calls) :
                     Asked(t, id)' /\ (Unique(t, id)' => ~Ran(t, id))
    BY <1>1, <1>3, <1>4, ClosersWrite
  <2>3. all \in Seq(Event) /\ ToSet(all) = ToSet(StepClosers(rec)) \cup {e}
    <3>1. PICK c, d : c = StepClosers(rec) /\ d = <<e>>
      OBVIOUS
    <3>2. c \in Seq(Event) /\ d \in Seq(Event) /\ ToSet(d) = {e} /\ all = c \o d
      BY <1>5, <2>1, <2>2, <3>1
    <3>3. c \o d \in Seq(Event) /\ ToSet(c \o d) = ToSet(c) \cup ToSet(d)
      BY <3>2, EventsConcat
    <3> QED BY <3>1, <3>2, <3>3
  <2> QED BY <1>7, <2>2, <2>3
<1>9. events \in Seq(Event) /\ \A m \in DOMAIN events : events[m] \in ToSet(all)
  BY <1>6, <1>8, NoEvents DEF ToSet
<1>10. PICK r : r = [StepClosed(rec) EXCEPT
                       !.terminal = IF broken THEN "failed" ELSE @,
                       !.error = @ \/ ~ok]
  OBVIOUS
<1>11. /\ Durably(events, ok) /\ published' = Publish(r)
       /\ wanted' = IF published' \in Successes THEN wanted \cup ToSet(all) ELSE {}
       /\ spoiled' = IF r.error THEN spoiled \cup {rec.turn} ELSE spoiled
  BY <1>2, <1>4, <1>5, <1>6, <1>10
<1>12. r.error = (rec.error \/ ~ok) /\ r.terminal \in Terminals
  <2>1. StepClosed(rec) \in Recorder
    BY <1>1, RecorderTyped
  <2>2. StepClosed(rec).error = rec.error
    BY <1>1 DEF StepClosed, Recorder
  <2>3. r.error = (StepClosed(rec).error \/ ~ok)
    BY <1>10, <2>1 DEF Recorder
  <2>4. r.terminal = IF broken THEN "failed" ELSE StepClosed(rec).terminal
    BY <1>10, <2>1 DEF Recorder
  <2>5. StepClosed(rec).terminal \in Terminals
    BY <2>1 DEF Recorder
  <2> QED BY <2>2, <2>3, <2>4, <2>5 DEF Terminals
<1>13. /\ Grown(events) /\ fatal' \in BOOLEAN
       /\ ok => ~fatal /\ log' = Journal \o events
  BY <1>1, <1>9, <1>11, DurablyFacts
<1>14. Writes(events, t)
  <2>1. \A u : u = rec.turn => Begun(u)
    BY <1>1, RunningBegun DEF Begun
  <2>2. /\ Begun(t) /\ t \in 1 .. turns
        /\ \A i \in DOMAIN Journal : Journal[i].turn <= t
    BY <1>1, <1>4, <2>1, RunningBegun
  <2>3. \A u, id : Asked(u, id) => Asked(u, id)'
    BY <1>3, AskedGrows
  <2> QED BY <1>3, <1>8, <1>9, <1>13, <2>2 DEF Writes, Speaks
<1>15. \A m \in DOMAIN events : True(events[m])
  BY <1>8, <1>9 DEF True, Denies, AnswerOf
<1>16. TypeInv'
  <2>1. published' \in Terminals
    BY <1>11, <1>12 DEF Publish, Terminals
  <2>2. spoiled' \subseteq 1 .. turns
    BY <1>1, <1>11 DEF TypeInv
  <2>3. rec' \in Recorder
    BY <1>3, NewRecorderTyped
  <2> QED BY <1>1, <1>3, <1>13, <2>1, <2>2, <2>3 DEF TypeInv, Grown
<1>17. ReportInv'
  <2>1. ASSUME published' \in Successes PROVE wanted' \subseteq ToSet(log')
    <3>1. ~rec.error /\ ok /\ rec.error \in BOOLEAN
      BY <1>1, <1>11, <1>12, <2>1 DEF Publish, Successes, Recorder
    <3>2. wanted' = wanted \cup ToSet(all) /\ events = all
      BY <1>6, <1>11, <2>1, <3>1
    <3>3. wanted \subseteq ToSet(Journal)
      BY <1>1, <1>13, <3>1 DEF IInv, ReportInv
    <3>4. ToSet(log') = ToSet(Journal) \cup ToSet(all)
      BY <1>1, <1>8, <1>13, <3>1, <3>2, JournalTyped, EventsConcat
    <3> QED BY <3>2, <3>3, <3>4
  <2>2. receipts' \subseteq ToSet(log')
    BY <1>3, <1>13, ReceiptsKept
  <2> QED BY <1>3, <2>1, <2>2 DEF ReportInv
<1>18. pc' # "down"
  BY <1>3
<1> QED BY <1>1, <1>3, <1>14, <1>15, <1>16, <1>17, <1>18, OutsideKeeps

LEMMA GoesDownKeeps ==
    ASSUME IInv, GoesDown
    PROVE  IInv'
<1>1. /\ TypeInv /\ ShapeInv /\ pc' = "down" /\ buffer' = <<>> /\ fatal' = FALSE
      /\ rec' = NewRecorder(0) /\ todo' = <<>> /\ cancelled' = FALSE
      /\ wanted' = (IF pc = "idle" THEN wanted ELSE {}) /\ spoiled' = Spoiled /\ ~Running'
      /\ UNCHANGED <<log, faults, turns, offered, ran, blind, gaveUp, receipts, published>>
  BY DEF GoesDown, IInv, Running
<1>2. Grown(<<>>)
  BY <1>1, NoEvents, GrownByNothing
<1>3. Writes(<<>>, 0) /\ \A m \in DOMAIN <<>> : True(<<>>[m])
  BY <1>1, <1>2, WritesNothing
<1>4. TypeInv'
  <2>1. Spoiled \subseteq 1 .. turns
    <3>1. CASE Running
      BY <1>1, <3>1, RunningBegun DEF Spoiled, TypeInv
    <3>2. CASE ~Running
      <4>1. rec = NewRecorder(0)
        BY <1>1, <3>2 DEF ShapeInv
      <4>2. ~rec.error
        BY <4>1 DEF NewRecorder
      <4> QED BY <1>1, <4>2 DEF Spoiled, TypeInv
    <3> QED BY <3>1, <3>2
  <2>2. rec' \in Recorder
    BY <1>1, NewRecorderTyped
  <2>3. buffer' \in Seq(Event) /\ todo' \in Seq(ToolCall)
    BY <1>1
  <2> QED BY <1>1, <2>1, <2>2, <2>3 DEF TypeInv
<1>5. ReportInv'
  BY <1>1 DEF IInv, ReportInv
<1> QED BY <1>1, <1>3, <1>4, <1>5, OutsideKeeps

LEMMA CrashKeeps == IInv /\ Crash => IInv'
  BY GoesDownKeeps DEF Crash

LEMMA RetireKeeps == IInv /\ Retire => IInv'
  BY GoesDownKeeps DEF Retire

(* A start that is given back leaves its turn/start in the journal: the     *)
(* next run stands behind it all the same.                                  *)
LEMMA AdmitKeeps ==
    ASSUME IInv, Admit
    PROVE  IInv'
<1>1. /\ pc = "idle" /\ TypeInv /\ ShapeInv /\ TurnOrder /\ AskedLocal /\ AskedInJournal
      /\ BarrierInv /\ AnswerInv /\ ReportInv
      /\ turns < MaxTurns /\ turns' = turns + 1 /\ todo = <<>> /\ todo' = <<>>
      /\ turns \in Nat /\ turns' \in Nat /\ rec = NewRecorder(0) /\ ~Running
      /\ UNCHANGED <<todo, crashes, offered, ran, blind, gaveUp, receipts>>
  BY BoundsAssumption DEF Admit, IInv, TurnInv, AskedInv, TypeInv, ShapeInv, Running
<1>2. PICK ok \in BOOLEAN :
          /\ Durably(<<TurnStart(turns + 1)>>, ok)
          /\ \/ /\ ok
                /\ pc' = "request" /\ rec' = NewRecorder(turns + 1)
                /\ cancelled' = FALSE /\ wanted' = {} /\ published' = "none"
                /\ UNCHANGED spoiled
             \/ /\ ~ok
                /\ spoiled' = spoiled \cup {turns + 1}
                /\ UNCHANGED <<pc, rec, cancelled, wanted, published>>
  BY DEF Admit
<1>3. PICK t, e : t = turns + 1 /\ e = TurnStart(turns + 1)
  OBVIOUS
<1>4. /\ e \in Event /\ e.turn = t /\ e.type = "turn/start" /\ e = TurnStart(t) /\ t \in Nat
  <2>1. e \in Event /\ t \in Nat
    BY <1>1, <1>3, EventTyped
  <2> QED BY <1>3, <2>1 DEF TurnStart
<1>5. /\ <<e>> \in Seq(Event) /\ DOMAIN <<e>> = {1} /\ <<e>>[1] = e
  BY <1>4, Singleton
<1>6. /\ Grown(<<e>>) /\ fatal' \in BOOLEAN
      /\ ok => log' = Journal \o <<e>>
  BY <1>1, <1>2, <1>3, <1>5, DurablyFacts
<1>7. Speaks(<<e>>, t)
  BY <1>1, <1>4, <1>5, <1>6 DEF Speaks
<1>8. /\ \A i \in DOMAIN Journal' : i \in DOMAIN Journal => Journal'[i] = Journal[i]
      /\ \A i \in DOMAIN Journal' : i \notin DOMAIN Journal => Journal'[i] = e /\ i > Len(Journal)
      /\ DOMAIN Journal = 1 .. Len(Journal) /\ DOMAIN Journal' = 1 .. Len(Journal')
      /\ Len(Journal) \in Nat /\ Len(Journal') \in Nat
  BY <1>1, <1>5, <1>7, WritesJournal
<1> DEFINE J == Journal
           K == Journal'
<1>t. \A i \in DOMAIN Journal' : Journal'[i].turn \in Nat /\ i \in Nat
        /\ (i \notin DOMAIN Journal => i = Len(Journal) + 1)
  <2>1. \A i \in DOMAIN Journal' : Journal'[i] \in Event
    BY <1>1, <1>7, WritesJournal
  <2>2. \A i \in DOMAIN Journal' : i \notin DOMAIN Journal => i = Len(Journal) + 1
    BY <1>5, <1>6, <1>8 DEF Grown
  <2> QED BY <1>8, <2>1, <2>2, EventFacts
<1>u. \A i \in DOMAIN Journal : Journal[i].turn \in 1 .. turns
  BY <1>1 DEF TurnOrder
<1>9. TurnOrder'
  <2> HIDE DEF J, K
  <2>1. ASSUME NEW i \in DOMAIN K
        PROVE  K[i].turn \in 1 .. turns' /\ \E j \in DOMAIN K : j <= i /\ K[j] = TurnStart(K[i].turn)
    <3>1. CASE i \in DOMAIN J
      <4>1. K[i] = J[i] /\ J[i].turn \in 1 .. turns
        BY <1>8, <1>u, <3>1 DEF J, K
      <4>2. PICK j \in DOMAIN J : j <= i /\ J[j] = TurnStart(J[i].turn)
        BY <1>1, <3>1 DEF TurnOrder, J
      <4>3. j \in DOMAIN K
        BY <1>8, <4>2 DEF J, K
      <4>4. K[j] = J[j]
        BY <1>8, <4>2, <4>3 DEF J, K
      <4> QED BY <1>1, <4>1, <4>2, <4>3, <4>4
    <3>2. CASE i \notin DOMAIN J
      <4>1. K[i] = e /\ i <= i /\ t \in 1 .. turns'
        BY <1>1, <1>3, <1>8, <1>t, <3>2 DEF J, K
      <4> QED BY <1>4, <4>1
    <3> QED BY <3>1, <3>2
  <2>2. ASSUME NEW i \in DOMAIN K, NEW j \in DOMAIN K, i <= j
        PROVE  K[i].turn <= K[j].turn
    <3>1. CASE j \in DOMAIN J
      <4>1. i \in DOMAIN J
        BY <1>8, <2>2, <3>1 DEF J, K
      <4>2. K[i] = J[i] /\ K[j] = J[j]
        BY <1>8, <3>1, <4>1 DEF J, K
      <4> QED BY <1>1, <2>2, <3>1, <4>1, <4>2 DEF TurnOrder, J
    <3>2. CASE j \notin DOMAIN J
      <4>1. K[j].turn = turns + 1
        BY <1>3, <1>4, <1>8, <3>2 DEF J, K
      <4>2. K[i].turn \in 1 .. turns'
        BY <2>1
      <4> QED BY <1>1, <4>1, <4>2
    <3> QED BY <3>1, <3>2
  <2>3. ASSUME NEW i \in DOMAIN K, NEW j \in DOMAIN K,
               K[i].type = "turn/start", K[j].turn = K[i].turn
        PROVE  i <= j
    <3>1. CASE i \in DOMAIN J /\ j \in DOMAIN J
      <4>1. K[i] = J[i] /\ K[j] = J[j]
        BY <1>8, <3>1 DEF J, K
      <4> QED BY <1>1, <2>3, <3>1, <4>1 DEF TurnOrder, J
    <3>2. CASE j \notin DOMAIN J
      <4>1. j = Len(J) + 1
        BY <1>t, <3>2 DEF J, K
      <4>2. i \in DOMAIN J \/ i = Len(J) + 1
        BY <1>t DEF J, K
      <4> QED BY <1>8, <4>1, <4>2 DEF J, K
    <3>3. CASE i \notin DOMAIN J /\ j \in DOMAIN J
      <4>1. K[i].turn = turns + 1
        BY <1>3, <1>4, <1>8, <3>3 DEF J, K
      <4>2. K[j] = J[j] /\ J[j].turn \in 1 .. turns
        BY <1>8, <1>u, <3>3 DEF J, K
      <4> QED BY <1>1, <2>3, <4>1, <4>2
    <3> QED BY <3>1, <3>2, <3>3
  <2> QED BY <2>1, <2>2, <2>3 DEF TurnOrder, K
<1>10. AskedInJournal'
  BY <1>1, <1>7, AskedKept
<1>11. Executes /\ Leaves
  BY <1>1, LeavesNothing DEF Executes
<1>12. RanBehindBarrier'
  BY <1>1, <1>7, <1>11, RanKept
<1>13. True(e)
  BY <1>4 DEF True, Denies, AnswerOf
<1>14. AnswerInv'
  BY <1>1, <1>5, <1>7, <1>11, <1>13, AnswersKept
<1>15. rec' \in Recorder /\ rec'.text = FALSE /\ rec'.stashed = <<>> /\ rec'.journaled = {}
       /\ ToSet(rec'.stashed) = {} /\ DOMAIN todo' = {}
  <2>1. \E n \in Nat : rec' = NewRecorder(n)
    BY <1>1, <1>2
  <2>2. PICK n \in Nat : rec' = NewRecorder(n)
    BY <2>1
  <2> QED BY <1>1, <2>2, NewRecorderTyped, ToSetFacts DEF NewRecorder
<1>16. TypeInv'
  <2>1. turns' \in 0 .. MaxTurns
    BY <1>1, BoundsAssumption
  <2>2. spoiled' \subseteq 1 .. turns' /\ gaveUp' \subseteq 1 .. turns'
    <3>1. 1 .. turns \subseteq 1 .. turns' /\ turns + 1 \in 1 .. turns'
      BY <1>1
    <3>2. spoiled \subseteq 1 .. turns /\ gaveUp \subseteq 1 .. turns
      BY <1>1 DEF TypeInv
    <3>3. spoiled' \subseteq spoiled \cup {turns + 1}
      BY <1>2
    <3> QED BY <1>1, <3>1, <3>2, <3>3
  <2>3. log' \in Seq(Event) /\ buffer' \in Seq(Event)
    BY <1>6 DEF Grown
  <2>4. cancelled' \in BOOLEAN /\ published' \in Terminals /\ pc' \in {"request", "idle"}
    BY <1>1, <1>2 DEF TypeInv, Terminals
  <2> QED BY <1>1, <1>6, <1>15, <2>1, <2>2, <2>3, <2>4 DEF TypeInv
<1>17. ReportInv'
  <2>1. ToSet(log) \subseteq ToSet(log')
    BY <1>6, GrownKeepsLog
  <2>2. CASE ok
    BY <1>1, <1>2, <2>1, <2>2 DEF ReportInv, Successes
  <2>3. CASE ~ok
    BY <1>1, <1>2, <2>1, <2>3 DEF ReportInv, Running
  <2> QED BY <2>2, <2>3
<1>18. CASE ok
  <2>1. pc' = "request" /\ rec' = NewRecorder(t) /\ published' = "none" /\ Running'
    BY <1>2, <1>3, <1>18 DEF Running
  <2>2. rec'.turn = t /\ ~rec'.open /\ rec'.step = 1
    BY <2>1 DEF NewRecorder
  <2>3. ShapeInv'
    BY <1>1, <1>3, <1>15, <2>1, <2>2 DEF ShapeInv, Running
  <2>4. Begun(rec.turn)'
    <3>1. Journal \in Seq(Event)
      BY <1>1, JournalTyped
    <3>2. \A s \in Seq(Event) : Len(s) + 1 \in DOMAIN (s \o <<e>>) /\ (s \o <<e>>)[Len(s) + 1] = e
      BY <1>4
    <3>3. \E i \in DOMAIN log' : log'[i] = TurnStart(t)
      BY <1>4, <1>6, <1>18, <3>1, <3>2
    <3> QED BY <2>2, <3>3 DEF Begun
  <2>5. \A c \in offered' : c.turn \in 1 .. turns' /\ c.turn # rec'.turn
    BY <1>1, <1>3, <2>2 DEF AskedLocal
  <2>6. AskedLocal'
    BY <1>15, <2>1, <2>5 DEF AskedLocal
  <2>7. BarrierLocal'
    BY <1>15, <2>1 DEF BarrierLocal
  <2> QED BY <1>9, <1>10, <1>12, <1>14, <1>16, <1>17, <2>3, <2>4, <2>6, <2>7
          DEF IInv, TurnInv, AskedInv, BarrierInv
<1>19. CASE ~ok
  <2>1. pc' = "idle" /\ rec' = NewRecorder(0) /\ ~Running'
    BY <1>1, <1>2, <1>19 DEF Running
  <2>2. ShapeInv'
    BY <1>1, <1>15, <2>1 DEF ShapeInv
  <2>3. AskedLocal' /\ BarrierLocal'
    BY <1>1, <2>1, LocalOutside
  <2> QED BY <1>9, <1>10, <1>12, <1>14, <1>16, <1>17, <2>1, <2>2, <2>3
          DEF IInv, TurnInv, AskedInv, BarrierInv
<1> QED BY <1>18, <1>19

(***************************************************************************)
(* What recovery knows of a log.  The turn that is open is the last that    *)
(* begun; a pending call was named by a message of that turn; and if the    *)
(* log has a barrier of the call behind those messages, it is called.       *)
(***************************************************************************)

Pending == [id : Ids, step : Nat, called : BOOLEAN]
TrackerState == [turn : Nat, step : Nat, pending : Seq(Pending)]

LEMMA NoTurnFacts == NoTurn \in TrackerState /\ NoTurn.turn = 0 /\ NoTurn.pending = <<>>
  BY DEF NoTurn, TrackerState

LEMMA ObserveTurn ==
    ASSUME NEW tr \in TrackerState, NEW e \in Event
    PROVE  /\ e.type = "turn/start" => Observe(tr, e).turn = e.turn
           /\ e.type = "turn/end" => Observe(tr, e).turn = 0
           /\ e.type \notin {"turn/start", "turn/end"} => Observe(tr, e).turn = tr.turn
<1>1. CASE e.type = "turn/start"
  BY <1>1 DEF Observe, NoTurn
<1>2. CASE e.type = "turn/end"
  BY <1>2 DEF Observe, NoTurn
<1>3. CASE e.type \notin {"turn/start", "turn/end"}
  BY <1>3 DEF Observe, TrackerState
<1> QED BY <1>1, <1>2, <1>3

(* The calls that are pending behind an event.                              *)
LEMMA ObserveTyped ==
    ASSUME NEW tr \in TrackerState, NEW e \in Event
    PROVE  /\ Observe(tr, e) \in TrackerState
           /\ e.type \in {"turn/start", "turn/end", "step/end"} =>
                ToSet(Observe(tr, e).pending) = {}
           /\ e.type \in {"step/start", "user/message", "tool/result"} =>
                ToSet(Observe(tr, e).pending) \subseteq ToSet(tr.pending)
           /\ e.type = "assistant/message" =>
                \A p \in ToSet(Observe(tr, e).pending) :
                   p.id \in ToSet(e.calls) \/ p \in ToSet(tr.pending)
           /\ e.type = "tool/call" =>
                \A p \in ToSet(Observe(tr, e).pending) :
                   \E q \in ToSet(tr.pending) :
                      q.id = p.id /\ (IF q.id = e.id THEN p.called ELSE p = q)
<1>1. tr.turn \in Nat /\ tr.step \in Nat /\ tr.pending \in Seq(Pending)
  BY DEF TrackerState
<1> DEFINE With(s) == [tr EXCEPT !.pending = s]
<1>2. \A s \in Seq(Pending) : With(s) \in TrackerState /\ With(s).pending = s
  BY DEF TrackerState
<1>3. <<>> \in Seq(Pending) /\ ToSet(<<>>) = {}
  BY ToSetFacts
<1>4. CASE e.type = "turn/start"
  <2>1. Observe(tr, e) = [NoTurn EXCEPT !.turn = e.turn]
    BY <1>4 DEF Observe
  <2>2. e.turn \in Nat
    BY EventFacts
  <2>3. \A x \in TrackerState, n \in Nat :
           [x EXCEPT !.turn = n] \in TrackerState /\ [x EXCEPT !.turn = n].pending = x.pending
    BY DEF TrackerState
  <2>4. Observe(tr, e) \in TrackerState /\ Observe(tr, e).pending = <<>>
    BY <2>1, <2>2, <2>3, NoTurnFacts
  <2> QED BY <1>3, <1>4, <2>4
<1>5. CASE e.type = "turn/end"
  <2>1. Observe(tr, e) = NoTurn
    BY <1>5 DEF Observe
  <2> QED BY <1>3, <1>5, <2>1, NoTurnFacts
<1>6. CASE e.type = "step/start"
  <2>1. Observe(tr, e) = [tr EXCEPT !.step = e.step]
    BY <1>6 DEF Observe
  <2>2. e.step \in Nat
    BY <1>6, EventFacts
  <2>3. Observe(tr, e) \in TrackerState /\ Observe(tr, e).pending = tr.pending
    BY <2>1, <2>2 DEF TrackerState
  <2> QED BY <1>6, <2>3
<1>7. CASE e.type = "step/end"
  <2>1. Observe(tr, e) = [tr EXCEPT !.step = 0, !.pending = <<>>]
    BY <1>7 DEF Observe
  <2>2. \A s \in Seq(Pending) : /\ [tr EXCEPT !.step = 0, !.pending = s] \in TrackerState
                                /\ [tr EXCEPT !.step = 0, !.pending = s].pending = s
    BY DEF TrackerState
  <2>3. Observe(tr, e) \in TrackerState /\ Observe(tr, e).pending = <<>>
    BY <1>3, <2>1, <2>2
  <2> QED BY <1>3, <1>7, <2>3
<1>8. CASE e.type = "user/message"
  <2>1. Observe(tr, e) = tr
    BY <1>8 DEF Observe
  <2> QED BY <1>8, <2>1
<1>9. CASE e.type = "tool/result"
  <2>1. PICK s : s = Retained(tr.pending, {e.id})
    OBVIOUS
  <2>2. s \in Seq(Pending) /\ ToSet(s) \subseteq {p \in ToSet(tr.pending) : p.id \notin {e.id}}
    BY <1>1, <2>1, RetainedFacts
  <2>3. Observe(tr, e) = With(s)
    BY <1>9, <2>1 DEF Observe
  <2>4. Observe(tr, e) \in TrackerState /\ Observe(tr, e).pending = s
    BY <1>2, <2>2, <2>3
  <2>5. ToSet(s) \subseteq ToSet(tr.pending)
    BY <2>2
  <2> QED BY <1>9, <2>4, <2>5
<1>10. CASE e.type = "tool/call"
  <2>1. PICK s : s = [i \in DOMAIN tr.pending |->
                        IF tr.pending[i].id = e.id THEN [tr.pending[i] EXCEPT !.called = TRUE]
                                                   ELSE tr.pending[i]]
    OBVIOUS
  <2>2. DOMAIN tr.pending = 1 .. Len(tr.pending) /\ Len(tr.pending) \in Nat
    BY <1>1
  <2>3. \A i \in 1 .. Len(tr.pending) :
           [tr.pending[i] EXCEPT !.called = TRUE] \in Pending /\ tr.pending[i] \in Pending
           /\ [tr.pending[i] EXCEPT !.called = TRUE].called = TRUE
           /\ [tr.pending[i] EXCEPT !.called = TRUE].id = tr.pending[i].id
    <3>1. \A i \in 1 .. Len(tr.pending) : tr.pending[i] \in Pending
      BY <1>1
    <3>2. \A p \in Pending : /\ [p EXCEPT !.called = TRUE] \in Pending
                             /\ [p EXCEPT !.called = TRUE].called = TRUE
                             /\ [p EXCEPT !.called = TRUE].id = p.id
      BY DEF Pending
    <3> QED BY <3>1, <3>2
  <2>4. /\ DOMAIN s = 1 .. Len(tr.pending)
        /\ \A i \in 1 .. Len(tr.pending) :
             s[i] = IF tr.pending[i].id = e.id THEN [tr.pending[i] EXCEPT !.called = TRUE]
                                               ELSE tr.pending[i]
    BY <2>1, <2>2
  <2>5. \A i \in 1 .. Len(tr.pending) : s[i] \in Pending
    BY <2>3, <2>4
  <2>6. s \in Seq(Pending)
    BY <2>1, <2>2, <2>5
  <2>7. \A p \in ToSet(s) : \E q \in ToSet(tr.pending) :
           q.id = p.id /\ (IF q.id = e.id THEN p.called ELSE p = q)
    <3> SUFFICES ASSUME NEW p \in ToSet(s)
                 PROVE  \E q \in ToSet(tr.pending) :
                           q.id = p.id /\ (IF q.id = e.id THEN p.called ELSE p = q)
      OBVIOUS
    <3>1. PICK i \in 1 .. Len(tr.pending) : p = s[i]
      BY <2>4 DEF ToSet
    <3>2. tr.pending[i] \in ToSet(tr.pending)
      BY <2>2 DEF ToSet
    <3>3. tr.pending[i].id = p.id
          /\ (IF tr.pending[i].id = e.id THEN p.called ELSE p = tr.pending[i])
      BY <2>3, <2>4, <3>1
    <3> QED BY <3>2, <3>3
  <2>8. Observe(tr, e) = With(s)
    BY <1>10, <2>1 DEF Observe
  <2>9. Observe(tr, e) \in TrackerState /\ Observe(tr, e).pending = s
    BY <1>2, <2>6, <2>8
  <2> QED BY <1>10, <2>7, <2>9
<1>11. CASE e.type = "assistant/message"
  <2>1. e.step \in Nat /\ e.calls \in Seq(Ids)
    BY <1>11, EventFacts
  <2>2. PICK c : c = e.calls
    OBVIOUS
  <2>3. PICK u, v : /\ u = Retained(tr.pending, ToSet(c))
                    /\ v = [i \in DOMAIN c |-> [id |-> c[i], step |-> e.step, called |-> FALSE]]
    OBVIOUS
  <2>4. u \in Seq(Pending) /\ ToSet(u) \subseteq {p \in ToSet(tr.pending) : p.id \notin ToSet(c)}
    BY <1>1, <2>3, RetainedFacts
  <2>5. DOMAIN c = 1 .. Len(c) /\ Len(c) \in Nat /\ \A i \in 1 .. Len(c) : c[i] \in Ids
    BY <2>1, <2>2
  <2>6. \A i \in 1 .. Len(c) : [id |-> c[i], step |-> e.step, called |-> FALSE] \in Pending
    BY <2>1, <2>5 DEF Pending
  <2>7. v \in Seq(Pending)
    BY <2>3, <2>5, <2>6
  <2>8. \A p \in ToSet(v) : p.id \in ToSet(c)
    BY <2>3 DEF ToSet
  <2>9. u \o v \in Seq(Pending) /\ ToSet(u \o v) = ToSet(u) \cup ToSet(v)
    BY <2>4, <2>7, ToSetConcat
  <2>10. Observe(tr, e) = With(u \o v)
    BY <1>11, <2>2, <2>3 DEF Observe
  <2>11. Observe(tr, e) \in TrackerState /\ Observe(tr, e).pending = u \o v
    BY <1>2, <2>9, <2>10
  <2>12. \A p \in ToSet(u \o v) : p.id \in ToSet(c) \/ p \in ToSet(tr.pending)
    BY <2>4, <2>8, <2>9
  <2> QED BY <1>11, <2>2, <2>11, <2>12
<1> QED BY <1>4, <1>5, <1>6, <1>7, <1>8, <1>9, <1>10, <1>11, EventFacts

\* The order of the turns in a log.
Ordered(L) ==
  /\ \A i \in DOMAIN L : \E j \in DOMAIN L : j <= i /\ L[j] = TurnStart(L[i].turn)
  /\ \A i, j \in DOMAIN L : i <= j => L[i].turn <= L[j].turn

IsCall(e, t, id) == e.type = "tool/call" /\ e.turn = t /\ e.id = id

\* Up to i, the log has a barrier of the call behind the messages that name it.
CallBehind(L, i, t, id) ==
  \E j \in 1 .. i : /\ IsCall(L[j], t, id)
                    /\ \A l \in 1 .. i : Names(L[l], t, id) => l < j

Open(L, i, tr) ==
  /\ tr \in TrackerState
  /\ tr.turn # 0 =>
       /\ \E j \in 1 .. i : L[j] = TurnStart(tr.turn)
       /\ \A l \in 1 .. i : L[l].turn <= tr.turn
       /\ \A p \in ToSet(tr.pending) :
            /\ \E j \in 1 .. i : Names(L[j], tr.turn, p.id)
            /\ CallBehind(L, i, tr.turn, p.id) => p.called

LEMMA OpenStep ==
    ASSUME NEW L \in Seq(Event), Ordered(L), NEW i \in 1 .. Len(L), NEW tr, Open(L, i - 1, tr)
    PROVE  Open(L, i, Observe(tr, L[i]))
<1>1. PICK e, t, new : e = L[i] /\ t = tr.turn /\ new = Observe(tr, e)
  OBVIOUS
<1>2. e \in Event /\ tr \in TrackerState /\ t \in Nat /\ i \in Nat /\ i - 1 \in Nat
      /\ DOMAIN L = 1 .. Len(L) /\ Len(L) \in Nat
      /\ 1 .. i = (1 .. i - 1) \cup {i} /\ 1 .. i \subseteq DOMAIN L
  <2>1. e \in Event
    BY <1>1
  <2>2. tr \in TrackerState /\ t \in Nat
    BY <1>1 DEF Open, TrackerState
  <2> QED BY <2>1, <2>2
<1>3. /\ new \in TrackerState
      /\ e.type = "turn/start" => new.turn = e.turn
      /\ e.type = "turn/end" => new.turn = 0
      /\ e.type \notin {"turn/start", "turn/end"} => new.turn = t
  BY <1>1, <1>2, ObserveTyped, ObserveTurn, SMTT(30)
<1>4. e.turn \in Nat /\ \A l \in 1 .. i : L[l].turn <= e.turn
  <2>1. \A l \in 1 .. i : l \in DOMAIN L /\ i \in DOMAIN L /\ l <= i
    BY <1>2
  <2> QED BY <1>1, <1>2, <2>1, EventFacts DEF Ordered
<1>5. CASE new.turn = 0
  BY <1>1, <1>3, <1>5 DEF Open
<1>6. CASE e.type = "turn/start"
  <2>1. e = TurnStart(e.turn) /\ new.turn = e.turn
    BY <1>2, <1>3, <1>6, EventFacts
  <2>2. ToSet(new.pending) = {}
    BY <1>1, <1>2, <1>6, ObserveTyped
  <2>3. i \in 1 .. i /\ L[i] = TurnStart(new.turn)
    BY <1>1, <1>2, <2>1
  <2>4. \A l \in 1 .. i : L[l].turn <= new.turn
    BY <1>4, <2>1
  <2> QED BY <1>1, <1>3, <2>2, <2>3, <2>4 DEF Open
<1>7. CASE e.type \notin {"turn/start", "turn/end"} /\ t # 0
  <2>1. /\ \E j \in 1 .. i - 1 : L[j] = TurnStart(t)
        /\ \A l \in 1 .. i - 1 : L[l].turn <= t
        /\ \A p \in ToSet(tr.pending) :
            /\ \E j \in 1 .. i - 1 : Names(L[j], t, p.id)
            /\ CallBehind(L, i - 1, t, p.id) => p.called
    BY <1>1, <1>7 DEF Open
  <2>2. e.turn = t /\ new.turn = t
    <3>1. PICK j \in DOMAIN L : j <= i /\ L[j] = TurnStart(e.turn)
      BY <1>1, <1>2 DEF Ordered
    <3>2. L[j].turn = e.turn /\ L[j].type = "turn/start"
      BY <3>1 DEF TurnStart
    <3>3. j \in 1 .. i - 1
      BY <1>1, <1>2, <1>7, <3>1, <3>2
    <3>4. e.turn <= t
      BY <2>1, <3>2, <3>3
    <3>5. PICK k \in 1 .. i - 1 : L[k] = TurnStart(t)
      BY <2>1
    <3>6. L[k].turn = t /\ L[k].turn <= e.turn
      BY <1>2, <1>4, <3>5 DEF TurnStart
    <3> QED BY <1>2, <1>3, <1>4, <1>7, <3>4, <3>6
  <2>3. /\ \E j \in 1 .. i : L[j] = TurnStart(t)
        /\ \A l \in 1 .. i : L[l].turn <= t
    BY <1>1, <1>2, <2>1, <2>2
  <2>4. ASSUME NEW q \in ToSet(tr.pending),
               ~(Names(e, t, q.id) \/ IsCall(e, t, q.id))
        PROVE  /\ \E j \in 1 .. i : Names(L[j], t, q.id)
               /\ CallBehind(L, i, t, q.id) => q.called
    <3>1. CallBehind(L, i, t, q.id) => CallBehind(L, i - 1, t, q.id)
      <4> SUFFICES ASSUME CallBehind(L, i, t, q.id) PROVE CallBehind(L, i - 1, t, q.id)
        OBVIOUS
      <4>1. PICK j \in 1 .. i : /\ IsCall(L[j], t, q.id)
                                /\ \A l \in 1 .. i : Names(L[l], t, q.id) => l < j
        BY DEF CallBehind
      <4>2. j \in 1 .. i - 1
        BY <1>1, <1>2, <2>4, <4>1
      <4> QED BY <1>2, <4>1, <4>2 DEF CallBehind
    <3>2. \E j \in 1 .. i : Names(L[j], t, q.id)
      BY <1>2, <2>1, <2>4
    <3> QED BY <2>1, <2>4, <3>1, <3>2
  <2>5. ASSUME NEW p \in ToSet(new.pending)
        PROVE  /\ \E j \in 1 .. i : Names(L[j], t, p.id)
               /\ CallBehind(L, i, t, p.id) => p.called
    <3>1. CASE e.type = "assistant/message"
      <4>1. ~IsCall(e, t, p.id)
        BY <3>1 DEF IsCall
      <4>2. p.id \in ToSet(e.calls) \/ p \in ToSet(tr.pending)
        BY <1>1, <1>2, <2>5, <3>1, ObserveTyped
      <4>3. CASE Names(e, t, p.id)
        <5>1. ~CallBehind(L, i, t, p.id)
          <6> SUFFICES ASSUME NEW j \in 1 .. i, \A l \in 1 .. i : Names(L[l], t, p.id) => l < j
                       PROVE  FALSE
            BY DEF CallBehind
          <6>1. i \in 1 .. i /\ Names(L[i], t, p.id)
            BY <1>1, <1>2, <4>3
          <6> QED BY <1>2, <6>1
        <5>2. \E j \in 1 .. i : Names(L[j], t, p.id)
          BY <1>1, <1>2, <4>3
        <5> QED BY <5>1, <5>2
      <4>4. CASE ~Names(e, t, p.id)
        <5>1. p \in ToSet(tr.pending)
          BY <2>2, <3>1, <4>2, <4>4 DEF Names
        <5> QED BY <2>4, <4>1, <4>4, <5>1
      <4> QED BY <4>3, <4>4
    <3>2. CASE e.type = "tool/call"
      <4>1. PICK q \in ToSet(tr.pending) :
               q.id = p.id /\ (IF q.id = e.id THEN p.called ELSE p = q)
        BY <1>1, <1>2, <2>5, <3>2, ObserveTyped
      <4>2. CASE q.id = e.id
        <5>1. PICK j \in 1 .. i - 1 : Names(L[j], t, q.id)
          BY <2>1
        <5> QED BY <1>2, <4>1, <4>2, <5>1
      <4>3. CASE q.id # e.id
        <5>1. ~Names(e, t, q.id) /\ ~IsCall(e, t, q.id)
          BY <3>2, <4>3 DEF Names, IsCall
        <5> QED BY <2>4, <4>1, <4>3, <5>1
      <4> QED BY <4>2, <4>3
    <3>3. CASE e.type \in {"step/start", "user/message", "tool/result"}
      <4>1. p \in ToSet(tr.pending)
        BY <1>1, <1>2, <2>5, <3>3, ObserveTyped
      <4>2. ~Names(e, t, p.id) /\ ~IsCall(e, t, p.id)
        BY <3>3 DEF Names, IsCall
      <4> QED BY <2>4, <4>1, <4>2
    <3>4. CASE e.type = "step/end"
      BY <1>1, <1>2, <2>5, <3>4, ObserveTyped
    <3> QED BY <1>2, <1>7, <3>1, <3>2, <3>3, <3>4, EventFacts
  <2> QED BY <1>1, <1>3, <2>2, <2>3, <2>5 DEF Open
<1> QED BY <1>3, <1>5, <1>6, <1>7

(* ... and so it is behind every event.                                     *)
LEMMA TrackFacts ==
    ASSUME NEW L \in Seq(Event), Ordered(L)
    PROVE  Open(L, Len(L), Track(L))
<1>1. Len(L) \in Nat
  OBVIOUS
<1> DEFINE Good == {i \in 0 .. Len(L) : Open(L, i, Tracker(L)[i])}
<1>2. /\ Tracker(L)[0] = NoTurn
      /\ \A i \in 1 .. Len(L) : Tracker(L)[i] = Observe(Tracker(L)[i - 1], L[i])
  BY TrackerStep
<1>3. 0 \in Good
  BY <1>1, <1>2, NoTurnFacts DEF Open
<1>4. ASSUME NEW i \in 0 .. Len(L) - 1, i \in Good PROVE i + 1 \in Good
  <2>1. PICK tr, k : tr = Tracker(L)[i] /\ k = i + 1
    OBVIOUS
  <2>2. k \in 1 .. Len(L) /\ k - 1 = i /\ Open(L, k - 1, tr)
    BY <1>1, <1>4, <2>1
  <2>3. Open(L, k, Observe(tr, L[k]))
    BY <2>2, OpenStep
  <2>4. Tracker(L)[k] = Observe(tr, L[k])
    BY <1>2, <2>1, <2>2
  <2> QED BY <2>1, <2>2, <2>3, <2>4
<1>5. Len(L) \in Good
  <2> HIDE DEF Good
  <2>1. 0 .. Len(L) \subseteq Good
    BY <1>1, <1>3, <1>4, Upwards
  <2> QED BY <1>1, <2>1
<1> QED BY <1>5 DEF Track

(* The events that close an interrupted turn: an answer for each pending    *)
(* call, the end of the step and of the turn.                               *)
LEMMA ClosersFacts ==
    ASSUME NEW tr \in TrackerState
    PROVE  /\ Closers(tr) \in Seq(Event)
           /\ tr.turn = 0 => Closers(tr) = <<>>
           /\ \A e \in ToSet(Closers(tr)) :
                /\ e.turn = tr.turn /\ e.type \in {"tool/result", "step/end", "turn/end"}
                /\ e.type = "tool/result" =>
                     \E p \in ToSet(tr.pending) :
                        e.id = p.id /\ e.answer = IF p.called THEN "unknown" ELSE "not started"
<1>1. PICK t, s, pending : t = tr.turn /\ s = tr.step /\ pending = tr.pending
  OBVIOUS
<1>2. t \in Nat /\ s \in Nat /\ pending \in Seq(Pending)
  BY <1>1 DEF TrackerState
<1>3. PICK a, b, c :
         /\ a = [i \in DOMAIN pending |->
                   Result(t, pending[i].step, pending[i].id,
                          IF pending[i].called THEN "unknown" ELSE "not started")]
         /\ b = (IF s = 0 THEN <<>> ELSE <<StepEnd(t, s)>>)
         /\ c = <<TurnEnd(t, "interrupted")>>
  OBVIOUS
<1>4. Closers(tr) = IF t = 0 THEN <<>> ELSE a \o b \o c
  BY <1>1, <1>3 DEF Closers
<1>5. DOMAIN pending = 1 .. Len(pending) /\ Len(pending) \in Nat
      /\ \A i \in 1 .. Len(pending) : pending[i] \in Pending /\ pending[i] \in ToSet(pending)
  <2>1. DOMAIN pending = 1 .. Len(pending) /\ Len(pending) \in Nat
    BY <1>2
  <2>2. \A i \in 1 .. Len(pending) : pending[i] \in Pending
    BY <1>2
  <2> QED BY <2>1, <2>2 DEF ToSet
<1>6. \A p \in Pending : Result(t, p.step, p.id, IF p.called THEN "unknown" ELSE "not started") \in Event
  <2>1. \A p \in Pending : p.step \in Nat /\ p.id \in Ids
    BY DEF Pending
  <2>2. \A p \in Pending : (IF p.called THEN "unknown" ELSE "not started") \in Answers
    BY DEF Answers
  <2> QED BY <1>2, <2>1, <2>2, EventTyped
<1>7. a \in Seq(Event)
  <2>1. \A i \in 1 .. Len(pending) :
           Result(t, pending[i].step, pending[i].id,
                  IF pending[i].called THEN "unknown" ELSE "not started") \in Event
    BY <1>5, <1>6
  <2>2. DOMAIN a = 1 .. Len(pending) /\ \A i \in 1 .. Len(pending) : a[i] \in Event
    BY <1>3, <1>5, <2>1
  <2>3. a = [i \in 1 .. Len(pending) |-> a[i]]
    BY <1>3, <1>5
  <2> QED BY <1>5, <2>2, <2>3
<1>8. \A e \in ToSet(a) :
         /\ e.turn = t /\ e.type = "tool/result"
         /\ \E p \in ToSet(pending) :
               e.id = p.id /\ e.answer = IF p.called THEN "unknown" ELSE "not started"
  <2> SUFFICES ASSUME NEW e \in ToSet(a)
               PROVE  /\ e.turn = t /\ e.type = "tool/result"
                      /\ \E p \in ToSet(pending) :
                            e.id = p.id /\ e.answer = IF p.called THEN "unknown" ELSE "not started"
    OBVIOUS
  <2>1. PICK i \in DOMAIN pending :
           e = Result(t, pending[i].step, pending[i].id,
                      IF pending[i].called THEN "unknown" ELSE "not started")
    BY <1>3 DEF ToSet
  <2>2. /\ e.turn = t /\ e.type = "tool/result" /\ e.id = pending[i].id
        /\ e.answer = IF pending[i].called THEN "unknown" ELSE "not started"
    BY <2>1 DEF Result
  <2>3. pending[i] \in ToSet(pending)
    BY <1>5, <2>1
  <2> QED BY <2>2, <2>3
<1>9. b \in Seq(Event) /\ \A e \in ToSet(b) : e.turn = t /\ e.type = "step/end"
  <2>1. StepEnd(t, s) \in Event
    BY <1>2, EventTyped
  <2>2. b = <<>> \/ (b = <<StepEnd(t, s)>>)
    BY <1>3
  <2>3. StepEnd(t, s).turn = t /\ StepEnd(t, s).type = "step/end"
    BY DEF StepEnd
  <2>4. PICK d : d = StepEnd(t, s)
    OBVIOUS
  <2>5. d \in Event /\ (b = <<>> \/ b = <<d>>) /\ d.turn = t /\ d.type = "step/end"
    BY <2>1, <2>2, <2>3, <2>4
  <2>6. <<d>> \in Seq(Event) /\ ToSet(<<d>>) = {d}
    BY <2>5, Singleton
  <2>7. PICK s1, s2 : s1 = <<d>> /\ s2 = <<>>
    OBVIOUS
  <2>8. s1 \in Seq(Event) /\ ToSet(s1) = {d} /\ s2 \in Seq(Event) /\ ToSet(s2) = {}
        /\ (b = s2 \/ b = s1)
    BY <2>5, <2>6, <2>7, NoEvents
  <2> QED BY <2>5, <2>8
<1>10. c \in Seq(Event) /\ \A e \in ToSet(c) : e.turn = t /\ e.type = "turn/end"
  <2>1. TurnEnd(t, "interrupted") \in Event
    BY <1>2, EventTyped DEF Reasons
  <2>2. TurnEnd(t, "interrupted").turn = t /\ TurnEnd(t, "interrupted").type = "turn/end"
    BY DEF TurnEnd
  <2> QED BY <1>3, <2>1, <2>2, Singleton, ZenonT(40)
<1>11. /\ a \o b \in Seq(Event) /\ a \o b \o c \in Seq(Event)
       /\ ToSet(a \o b \o c) = ToSet(a) \cup ToSet(b) \cup ToSet(c)
  <2>1. a \o b \in Seq(Event) /\ ToSet(a \o b) = ToSet(a) \cup ToSet(b)
    BY <1>7, <1>9, EventsConcat
  <2> QED BY <1>10, <2>1, EventsConcat
<1>12. ASSUME NEW e \in ToSet(a \o b \o c)
       PROVE  /\ e.turn = t /\ e.type \in {"tool/result", "step/end", "turn/end"}
              /\ e.type = "tool/result" =>
                   \E p \in ToSet(pending) :
                      e.id = p.id /\ e.answer = IF p.called THEN "unknown" ELSE "not started"
  <2>1. e \in ToSet(a) \/ e \in ToSet(b) \/ e \in ToSet(c)
    BY <1>11, <1>12
  <2> QED BY <1>8, <1>9, <1>10, <2>1
<1> QED BY <1>1, <1>4, <1>11, <1>12, NoEvents

(* Recovery answers the calls of the turn that was open.  A call without a  *)
(* barrier is answered as not started, and was not executed: had it been,   *)
(* its barrier would be behind every message that names it.                 *)
LEMMA RepairKeeps ==
    ASSUME IInv, Repair
    PROVE  IInv'
<1>1. PICK tr, closers : tr = Track(log) /\ closers = Closers(tr)
  OBVIOUS
<1>2. PICK k \in 0 .. Len(closers) : log' = log \o SubSeq(closers, 1, k)
  BY <1>1 DEF Repair
<1>3. /\ pc = "down" /\ pc' \in {"idle", "down"} /\ ~Running /\ ~Running'
      /\ UNCHANGED <<buffer, fatal, faults, rec, todo, cancelled, wanted, history>>
  BY DEF Repair, Running
<1>4. /\ TypeInv /\ ShapeInv /\ TurnOrder /\ AskedInJournal /\ RanBehindBarrier
      /\ buffer = <<>> /\ rec = NewRecorder(0) /\ todo = <<>> /\ Journal = log
      /\ log \in Seq(Event)
  <2>1. /\ TypeInv /\ ShapeInv /\ TurnOrder /\ AskedInJournal /\ RanBehindBarrier
    BY DEF IInv, TurnInv, AskedInv, BarrierInv
  <2>2. buffer = <<>> /\ rec = NewRecorder(0) /\ todo = <<>>
    BY <1>3, <2>1 DEF ShapeInv
  <2>3. log \in Seq(Event)
    BY <2>1 DEF TypeInv
  <2>4. log \o <<>> = log
    BY <2>3, EventsConcat
  <2>5. Journal = log
    BY <2>2, <2>4 DEF Journal
  <2> QED BY <2>1, <2>2, <2>3, <2>5
<1>5. log \in Seq(Event) /\ DOMAIN log = 1 .. Len(log) /\ Len(log) \in Nat
  BY <1>4 DEF TypeInv
<1>6. Open(log, Len(log), tr)
  <2>1. Ordered(log)
    BY <1>4 DEF TurnOrder, Ordered
  <2> QED BY <1>1, <1>5, <2>1, TrackFacts
<1>7. /\ tr \in TrackerState
      /\ tr.turn # 0 =>
           /\ \E j \in DOMAIN log : log[j] = TurnStart(tr.turn)
           /\ \A l \in DOMAIN log : log[l].turn <= tr.turn
           /\ \A p \in ToSet(tr.pending) :
                /\ \E j \in DOMAIN log : Names(log[j], tr.turn, p.id)
                /\ CallBehind(log, Len(log), tr.turn, p.id) => p.called
  BY <1>5, <1>6 DEF Open
<1>8. /\ closers \in Seq(Event)
      /\ tr.turn = 0 => closers = <<>>
      /\ \A e \in ToSet(closers) :
           /\ e.turn = tr.turn /\ e.type \in {"tool/result", "step/end", "turn/end"}
           /\ e.type = "tool/result" =>
                \E p \in ToSet(tr.pending) :
                   e.id = p.id /\ e.answer = IF p.called THEN "unknown" ELSE "not started"
  BY <1>1, <1>7, ClosersFacts
<1>9. PICK events : events = SubSeq(closers, 1, k)
  OBVIOUS
<1>10. events \in Seq(Event) /\ Begins(events, closers)
  BY <1>8, <1>9, EventBegins
<1>11. \A m \in DOMAIN events : events[m] \in ToSet(closers)
  <2>1. /\ DOMAIN events = 1 .. Len(events) /\ Len(events) \in Nat
        /\ DOMAIN closers = 1 .. Len(closers) /\ Len(closers) \in Nat
    <3>1. \A s \in Seq(Event) : DOMAIN s = 1 .. Len(s) /\ Len(s) \in Nat
      OBVIOUS
    <3> QED BY <1>8, <1>10, <3>1
  <2> QED BY <1>10, <2>1 DEF Begins, ToSet
<1>12. Grown(events)
  <2>1. buffer' = <<>> /\ <<>> \in Seq(Event) /\ <<>> \o events = events /\ events \o <<>> = events
    BY <1>3, <1>4, <1>10, EventsConcat, NoEvents
  <2>2. Begins(events \o <<>>, buffer \o events)
    BY <1>4, <1>10, <2>1, EventBegins
  <2> QED BY <1>2, <1>4, <1>9, <1>10, <2>1, <2>2, GrownBy
<1>13. /\ UNCHANGED <<turns, offered, ran, blind>>
       /\ \A t, id : Asked(t, id) => Asked(t, id)'
       /\ \A t, id : Unique(t, id)' => Unique(t, id)
  <2>1. UNCHANGED <<turns, offered, ran, blind>>
    BY <1>3 DEF history
  <2> QED BY <2>1, AskedGrows
<1>14. ASSUME NEW e \in ToSet(closers), e.type = "tool/result", NEW t, t = tr.turn
       PROVE  t # 0 /\ Asked(t, e.id)
  <2>1. ToSet(<<>>) = {}
    BY NoEvents
  <2>2. t # 0
    BY <1>8, <1>14, <2>1
  <2>3. PICK p \in ToSet(tr.pending) : e.id = p.id
    BY <1>8, <1>14
  <2>4. PICK j \in DOMAIN log : Names(log[j], t, p.id)
    BY <1>7, <1>14, <2>2
  <2>5. Asked(t, p.id)
    BY <1>4, <2>4 DEF AskedInJournal, Names
  <2> QED BY <2>2, <2>3, <2>5
<1>15. PICK t : t = tr.turn
  OBVIOUS
<1>16. Writes(events, t)
  <2>1. Speaks(events, t)
    BY <1>8, <1>10, <1>11, <1>12, <1>13, <1>14, <1>15 DEF Speaks
  <2>2. ASSUME events # <<>>
        PROVE  /\ Begun(t) /\ t \in 1 .. turns
               /\ \A i \in DOMAIN Journal : Journal[i].turn <= t
    <3>1. t # 0
      <4>1. DOMAIN events # {}
        BY <1>10, <2>2
      <4>2. ToSet(closers) # {}
        BY <1>11, <4>1
      <4> QED BY <1>8, <1>15, <4>2, NoEvents
    <3>2. PICK j \in DOMAIN log : log[j] = TurnStart(t)
      BY <1>7, <1>15, <3>1
    <3>3. log[j].turn = t
      BY <3>2 DEF TurnStart
    <3>4. t \in 1 .. turns
      BY <1>4, <3>2, <3>3 DEF TurnOrder
    <3>5. \A i \in DOMAIN Journal : Journal[i].turn <= t
      BY <1>4, <1>7, <1>15, <3>1
    <3> QED BY <3>2, <3>4, <3>5 DEF Begun
  <2>3. \A m \in DOMAIN events : events[m].type # "turn/start"
    BY <1>8, <1>11
  <2> QED BY <1>13, <2>1, <2>2, <2>3 DEF Writes
<1>17. ASSUME NEW e \in ToSet(closers) PROVE True(e)
  <2> SUFFICES ASSUME NEW call \in offered', Denies(e, call)'
               PROVE  /\ Ran(call.turn, call.id)' => Blind(call.turn, call.id)'
                      /\ call.turn = rec'.turn => \A i \in Upcoming' : todo'[i].id # call.id
    BY DEF True
  <2>1. /\ e.type = "tool/result" /\ e.turn = call.turn /\ e.id = call.id
        /\ e.answer \in {"skipped", "not started", "denied"} /\ Unique(call.turn, call.id)
    BY <1>13 DEF Denies, AnswerOf
  <2>2. PICK p \in ToSet(tr.pending) :
           e.id = p.id /\ e.answer = IF p.called THEN "unknown" ELSE "not started"
    BY <1>8, <2>1
  <2>3. t # 0 /\ call.turn = t /\ call.id = p.id
    BY <1>8, <1>14, <1>15, <1>17, <2>1, <2>2
  <2>4. ~CallBehind(log, Len(log), t, p.id)
    <3>1. p.called \in BOOLEAN /\ (CallBehind(log, Len(log), t, p.id) => p.called)
      <4>1. tr.pending \in Seq(Pending)
        BY <1>7 DEF TrackerState
      <4>2. p \in Pending
        BY <2>2, <4>1, ToSetFacts
      <4> QED BY <1>7, <1>15, <2>2, <2>3, <4>2 DEF Pending
    <3>2. ~p.called
      BY <2>1, <2>2
    <3> QED BY <3>1, <3>2
  <2>5. ~Barred(t, p.id)
    BY <1>4, <1>5, <2>4 DEF Barred, CallBehind, IsCall
  <2>6. Ran(call.turn, call.id)' => Blind(call.turn, call.id)'
    <3>1. PICK x : x = [turn |-> call.turn, id |-> call.id]
      OBVIOUS
    <3>2. x.turn = t /\ x.id = p.id
      BY <2>3, <3>1
    <3>3. x \in ran => x \in blind
      BY <1>4, <2>1, <2>3, <2>5, <3>2 DEF RanBehindBarrier
    <3> QED BY <1>13, <3>1, <3>3 DEF Ran, Blind
  <2>7. Upcoming' = {}
    <3>1. todo' = <<>> /\ DOMAIN <<>> = {}
      BY <1>3, <1>4
    <3> QED BY <3>1 DEF Upcoming
  <2> QED BY <2>6, <2>7
<1>18. TypeInv'
  BY <1>3, <1>4, <1>12 DEF TypeInv, Grown, history
<1>19. ReportInv'
  <2>1. ToSet(log) \subseteq ToSet(log')
    BY <1>12, GrownKeepsLog
  <2> QED BY <1>3, <2>1 DEF IInv, ReportInv, history
<1> QED BY <1>3, <1>4, <1>11, <1>13, <1>16, <1>17, <1>18, <1>19, OutsideKeeps

-----------------------------------------------------------------------------
(* The theorems *)

LEMMA InitIInv == Init => IInv
<1> SUFFICES ASSUME Init PROVE IInv
  OBVIOUS
<1>1. /\ log = <<>> /\ buffer = <<>> /\ fatal = FALSE /\ cancelled = FALSE
      /\ rec = NewRecorder(0) /\ pc = "idle" /\ todo = <<>> /\ turns = 0
      /\ wanted = {} /\ offered = {} /\ ran = {} /\ gaveUp = {} /\ spoiled = {}
      /\ receipts = {} /\ published = "none"
  BY DEF Init
<1>2. <<>> \in Seq(Event) /\ <<>> \in Seq(ToolCall) /\ ToSet(<<>>) = {} /\ DOMAIN <<>> = {}
      /\ <<>> \o <<>> = <<>>
  BY ToSetFacts, NoEvents, EventsConcat
<1>3. Journal = <<>> /\ DOMAIN Journal = {} /\ ~Running
  BY <1>1, <1>2 DEF Journal, Running
<1>4. TypeInv
  <2>1. rec \in Recorder
    BY <1>1, NewRecorderTyped
  <2>2. turns \in 0 .. MaxTurns
    BY <1>1, BoundsAssumption
  <2>3. log \in Seq(Event) /\ buffer \in Seq(Event) /\ todo \in Seq(ToolCall)
    BY <1>1, <1>2
  <2> QED BY <1>1, <2>1, <2>2, <2>3 DEF TypeInv, Terminals
<1>5. ShapeInv
  BY <1>1, <1>3 DEF ShapeInv, NewRecorder
<1>6. TurnInv
  BY <1>3 DEF TurnInv, TurnOrder
<1>7. rec.text = FALSE /\ rec.journaled = {} /\ ToSet(rec.stashed) = {}
  BY <1>1, <1>2 DEF NewRecorder
<1>8. DOMAIN todo = {}
  BY <1>1, <1>2
<1>9. AskedInv
  BY <1>1, <1>3, <1>7, <1>8 DEF AskedInv, AskedLocal, AskedInJournal
<1>10. BarrierInv
  BY <1>1, <1>3, <1>7, <1>8 DEF BarrierInv, RanBehindBarrier, BarrierLocal
<1>11. AnswerInv
  BY <1>3 DEF AnswerInv
<1>12. ReportInv
  BY <1>1, <1>3 DEF ReportInv, Successes
<1> QED BY <1>4, <1>5, <1>6, <1>9, <1>10, <1>11, <1>12 DEF IInv

LEMMA StutterKeeps ==
    ASSUME IInv, UNCHANGED vars
    PROVE  IInv'
<1>1. /\ UNCHANGED <<log, buffer, fatal, faults, rec, pc, todo, cancelled, crashes, wanted,
                     turns, offered, ran, blind, gaveUp, spoiled, receipts, published>>
  BY DEF vars, journal, history
<1>2. TypeInv' /\ ShapeInv'
  BY <1>1 DEF IInv, TypeInv, ShapeInv, Running
<1>3. TurnInv'
  BY <1>1 DEF IInv, TurnInv, TurnOrder, Journal, Running, Begun
<1>4. AskedInv'
  <2>1. AskedInJournal'
    BY <1>1 DEF IInv, AskedInv, AskedInJournal, Asked, Journal
  <2>2. AskedLocal'
    <3>1. AskedLocal /\ \A id : Asked(rec.turn, id) => Asked(rec.turn, id)'
      BY <1>1 DEF IInv, AskedInv, Asked
    <3> QED BY <1>1, <3>1 DEF AskedLocal, Running
  <2> QED BY <2>1, <2>2 DEF AskedInv
<1>5. BarrierInv'
  BY <1>1 DEF IInv, BarrierInv, RanBehindBarrier, BarrierLocal, Asked, Unique, Ran, Blind,
              Barred, Names, Journal, Running
<1>6. AnswerInv'
  <2>1. Journal' = Journal /\ Upcoming' = Upcoming /\ offered \subseteq offered'
    BY <1>1 DEF Journal, Upcoming
  <2>2. \A e, call : Denies(e, call)' => Denies(e, call)
    BY <2>1, DeniesKept
  <2>3. ASSUME NEW k \in DOMAIN Journal', NEW call \in offered', Denies(Journal[k], call)'
        PROVE  Denies(Journal[k], call)
    <3>1. PICK e : e = Journal'[k]
      OBVIOUS
    <3>2. Denies(e, call)'
      BY <2>3, <3>1 DEF Denies, AnswerOf
    <3>3. Denies(e, call)
      BY <2>2, <3>2
    <3> QED BY <2>1, <3>1, <3>3
  <2> QED BY <1>1, <2>1, <2>3 DEF IInv, AnswerInv, Ran, Blind
<1>7. ReportInv'
  BY <1>1 DEF IInv, ReportInv, Journal, Running
<1> QED BY <1>2, <1>3, <1>4, <1>5, <1>6, <1>7 DEF IInv

LEMMA NextKeeps == IInv /\ [Next]_vars => IInv'
<1> SUFFICES ASSUME IInv, [Next]_vars PROVE IInv'
  OBVIOUS
<1>1. CASE Drain
  BY <1>1, DrainKeeps
<1>2. CASE Admit
  BY <1>2, AdmitKeeps
<1>3. CASE Cancel
  BY <1>3, CancelKeeps
<1>4. CASE StopBeforeRequest
  BY <1>4, StopBeforeRequestKeeps
<1>5. CASE ApplySteering
  BY <1>5, ApplySteeringKeeps
<1>6. CASE ContextBoundary
  BY <1>6, ContextBoundaryKeeps
<1>7. CASE ModelRequested
  BY <1>7, ModelRequestedKeeps
<1>8. CASE ModelResponded
  BY <1>8, ModelRespondedKeeps
<1>9. CASE StreamCut
  BY <1>9, StreamCutKeeps
<1>10. CASE NextStep
  BY <1>10, NextStepKeeps
<1>11. CASE StopBeforeTool
  BY <1>11, StopBeforeToolKeeps
<1>12. CASE ToolRequested
  BY <1>12, ToolRequestedKeeps
<1>13. CASE Decide
  BY <1>13, DecideKeeps
<1>14. CASE PermissionDenied
  BY <1>14, PermissionDeniedKeeps
<1>15. CASE ToolStarted
  BY <1>15, ToolStartedKeeps
<1>16. CASE Invoke
  BY <1>16, InvokeKeeps
<1>17. CASE ToolFinished
  BY <1>17, ToolFinishedKeeps
<1>18. CASE ToolBoundary
  BY <1>18, ToolBoundaryKeeps
<1>19. CASE Finish
  BY <1>19, FinishKeeps
<1>20. CASE Crash
  BY <1>20, CrashKeeps
<1>21. CASE Retire
  BY <1>21, RetireKeeps
<1>22. CASE Repair
  BY <1>22, RepairKeeps
<1>23. CASE UNCHANGED vars
  BY <1>23, StutterKeeps
<1> QED BY <1>1, <1>2, <1>3, <1>4, <1>5, <1>6, <1>7, <1>8, <1>9, <1>10, <1>11, <1>12, <1>13,
           <1>14, <1>15, <1>16, <1>17, <1>18, <1>19, <1>20, <1>21, <1>22, <1>23 DEF Next

LEMMA Inductive == Spec => []IInv
  BY InitIInv, NextKeeps, PTL DEF Spec

(* What the log holds is one journal (src/session/recorder.rs): every event *)
(* has one of the shapes recovery reads and belongs to a run that started.  *)
THEOREM TypeCorrect == Spec => []TypeOK
<1>1. IInv => TypeOK
  <2> SUFFICES ASSUME IInv PROVE TypeOK
    OBVIOUS
  <2>1. TypeInv /\ ShapeInv /\ TurnOrder
    BY DEF IInv, TurnInv
  <2>2. ASSUME NEW e \in ToSet(log \o buffer)
        PROVE  /\ e.turn \in 1 .. turns
               /\ e.type \in {"turn/start", "turn/end", "step/start", "step/end",
                              "user/message", "assistant/message", "tool/call",
                              "tool/result"}
    <3>1. PICK i \in DOMAIN Journal : e = Journal[i]
      BY DEF Journal, ToSet
    <3>2. e \in Event /\ e.turn \in 1 .. turns
      BY <2>1, <3>1, JournalTyped DEF TurnOrder
    <3> QED BY <3>2, EventFacts
  <2>3. rec.turn \in 0 .. turns /\ rec.step \in Nat /\ rec.journaled \subseteq Ids
    <3>1. rec.turn = turns \/ rec.turn = 0
      BY <2>1 DEF ShapeInv, NewRecorder
    <3>2. rec.step \in Nat /\ rec.journaled \subseteq Ids /\ turns \in Nat
      BY <2>1 DEF TypeInv, Recorder
    <3> QED BY <3>1, <3>2
  <2>4. ToSet(rec.stashed) \cup ToSet(todo) \subseteq ToolCall
    <3>1. rec.stashed \in Seq(ToolCall) /\ todo \in Seq(ToolCall)
      BY <2>1 DEF TypeInv, Recorder
    <3> QED BY <3>1, ToSetFacts
  <2> QED BY <2>1, <2>2, <2>3, <2>4 DEF TypeOK, TypeInv, Terminals
<1> QED BY <1>1, Inductive, PTL

(* A call the log has as denied, skipped or never started was not executed, *)
(* whatever failed or crashed in between: the barrier of a call             *)
(* (RunEvent::ToolStarted in src/session/catalog/run_events.rs) is durable  *)
(* before it is executed, and RecoveryTracker::closers finds it.            *)
THEOREM AnswersTrue == Spec => []AnswersAreTrue
<1>1. IInv => AnswersAreTrue
  <2> SUFFICES ASSUME IInv, NEW e \in ToSet(log), NEW call \in offered,
                      AnswerOf(e, call), Lone(call),
                      \/ e.answer \in {"skipped", "not started"}
                      \/ e.answer = "denied" /\ OnlyUse(call)
               PROVE  ~Executed(call) \/ [turn |-> call.turn, id |-> call.id] \in blind
    BY DEF AnswersAreTrue
  <2>1. PICK k \in DOMAIN log : e = log[k]
    BY DEF ToSet
  <2>2. k \in DOMAIN Journal /\ Journal[k] = e
    BY <2>1, JournalTyped DEF IInv
  <2>3. Unique(call.turn, call.id)
    BY OnlyUseFacts DEF Unique
  <2>4. Denies(Journal[k], call)
    BY <2>2, <2>3 DEF Denies
  <2>5. Ran(call.turn, call.id) => Blind(call.turn, call.id)
    BY <2>2, <2>4 DEF IInv, AnswerInv
  <2> QED BY <2>5 DEF Executed, Ran, Blind
<1> QED BY <1>1, Inductive, PTL

(* A success that was published, and the receipt of a steering message, are *)
(* about events that are committed (SessionRecorder::finish and the seat of *)
(* SteeringApplied in src/session/catalog/run_events.rs).                   *)
THEOREM ReportedDurable == Spec => []ReportedIsDurable
<1>1. IInv => ReportedIsDurable
  BY DEF IInv, ReportInv, ReportedIsDurable
<1> QED BY <1>1, Inductive, PTL

-----------------------------------------------------------------------------
(***************************************************************************)
(* Where events stand.  The place of an event is judged by what is open in  *)
(* front of it, which the events in front of it decide.                     *)
(***************************************************************************)

\* Fits, for a given set of runs during which a write failed, and with steps
\* that are counted from 1.
Placed(e, open, failed) ==
  CASE e.type = "turn/start" -> open.turn = 0 \/ open.turn \in failed
    [] e.turn \in failed     -> TRUE
    [] e.type \in {"turn/end", "user/message", "step/start"} ->
         open.turn = e.turn /\ open.step = 0
    [] OTHER -> open.turn = e.turn /\ open.step = e.step /\ e.step # 0

AllPlaced(L, failed) == \A i \in DOMAIN L : Placed(L[i], Tracker(L)[i - 1], failed)

(* What is open is decided by the events in front, whatever follows them.  *)
LEMMA TrackerPrefix ==
    ASSUME NEW L \in Seq(Event), NEW M \in Seq(Event), Begins(L, M)
    PROVE  \A i \in 0 .. Len(L) : Tracker(L)[i] = Tracker(M)[i] /\ Tracker(L)[i] \in TrackerState
<1>1. /\ Len(L) \in Nat /\ Len(M) \in Nat /\ Len(L) <= Len(M)
      /\ \A i \in 1 .. Len(L) : L[i] = M[i] /\ L[i] \in Event
  BY DEF Begins
<1>2. /\ Tracker(L)[0] = NoTurn
      /\ \A i \in 1 .. Len(L) : Tracker(L)[i] = Observe(Tracker(L)[i - 1], L[i])
  BY TrackerStep
<1>3. /\ Tracker(M)[0] = NoTurn
      /\ \A i \in 1 .. Len(M) : Tracker(M)[i] = Observe(Tracker(M)[i - 1], M[i])
  BY TrackerStep
<1> DEFINE Same == {i \in 0 .. Len(L) : Tracker(L)[i] = Tracker(M)[i]
                                        /\ Tracker(L)[i] \in TrackerState}
<1>4. 0 \in Same
  BY <1>1, <1>2, <1>3, NoTurnFacts
<1>5. ASSUME NEW i \in 0 .. Len(L) - 1, i \in Same PROVE i + 1 \in Same
  <2>1. i + 1 \in 1 .. Len(L) /\ i + 1 \in 1 .. Len(M) /\ (i + 1) - 1 = i
    BY <1>1
  <2>2. PICK tr, e : tr = Tracker(L)[i] /\ e = L[i + 1]
    OBVIOUS
  <2>3. /\ Tracker(L)[i + 1] = Observe(tr, e) /\ Tracker(M)[i + 1] = Observe(tr, e)
        /\ tr \in TrackerState /\ e \in Event
    BY <1>1, <1>2, <1>3, <1>5, <2>1, <2>2
  <2>4. Observe(tr, e) \in TrackerState
    BY <2>3, ObserveTyped
  <2> QED BY <2>1, <2>3, <2>4
<1> HIDE DEF Same
<1>6. 0 .. Len(L) \subseteq Same
  BY <1>1, <1>4, <1>5, Upwards
<1> QED BY <1>6 DEF Same

(* What one event does to the turn and the step that are open.              *)
LEMMA ObservePlace ==
    ASSUME NEW tr \in TrackerState, NEW e \in Event
    PROVE  /\ e.type \in {"assistant/message", "tool/call", "tool/result", "user/message"} =>
                Observe(tr, e).turn = tr.turn /\ Observe(tr, e).step = tr.step
           /\ e.type = "step/end" => Observe(tr, e).turn = tr.turn /\ Observe(tr, e).step = 0
           /\ e.type = "step/start" => Observe(tr, e).turn = tr.turn /\ Observe(tr, e).step = e.step
           /\ e.type = "turn/start" => Observe(tr, e).turn = e.turn /\ Observe(tr, e).step = 0
           /\ e.type = "turn/end" => Observe(tr, e).turn = 0 /\ Observe(tr, e).step = 0
<1>1. CASE e.type = "assistant/message"
  BY <1>1 DEF Observe, TrackerState
<1>2. CASE e.type = "tool/call"
  BY <1>2 DEF Observe, TrackerState
<1>3. CASE e.type = "tool/result"
  BY <1>3 DEF Observe, TrackerState
<1>4. CASE e.type = "user/message"
  BY <1>4 DEF Observe
<1>5. CASE e.type = "step/end"
  BY <1>5 DEF Observe, TrackerState
<1>6. CASE e.type = "step/start"
  BY <1>6 DEF Observe, TrackerState
<1>7. CASE e.type = "turn/start"
  BY <1>7 DEF Observe, NoTurn
<1>8. CASE e.type = "turn/end"
  BY <1>8 DEF Observe, NoTurn
<1> QED BY <1>1, <1>2, <1>3, <1>4, <1>5, <1>6, <1>7, <1>8

(* Places hold in what is left of a journal that a crash cuts.             *)
LEMMA PlacedPrefix ==
    ASSUME NEW L \in Seq(Event), NEW M \in Seq(Event), Begins(L, M), NEW failed,
           NEW more, failed \subseteq more, AllPlaced(M, failed)
    PROVE  AllPlaced(L, more)
<1> SUFFICES ASSUME NEW i \in DOMAIN L PROVE Placed(L[i], Tracker(L)[i - 1], more)
  BY DEF AllPlaced
<1>1. DOMAIN L = 1 .. Len(L) /\ Len(L) \in Nat /\ DOMAIN M = 1 .. Len(M) /\ Len(M) \in Nat
  OBVIOUS
<1>2. i - 1 \in 0 .. Len(L) /\ i \in DOMAIN M /\ L[i] = M[i]
  BY <1>1 DEF Begins
<1>3. Tracker(L)[i - 1] = Tracker(M)[i - 1]
  BY <1>2, TrackerPrefix
<1>4. PICK e, o : e = L[i] /\ o = Tracker(L)[i - 1]
  OBVIOUS
<1>5. Placed(e, o, failed)
  BY <1>2, <1>3, <1>4 DEF AllPlaced
<1>6. Placed(e, o, more)
  BY <1>5 DEF Placed
<1> QED BY <1>4, <1>6

(* One more event. *)
LEMMA OneMore ==
    ASSUME NEW L \in Seq(Event), NEW e \in Event
    PROVE  /\ L \o <<e>> \in Seq(Event) /\ Len(L \o <<e>>) = Len(L) + 1
           /\ Begins(L, L \o <<e>>) /\ (L \o <<e>>)[Len(L) + 1] = e
           /\ \A i \in 1 .. Len(L) : (L \o <<e>>)[i] = L[i]
  BY DEF Begins

(* What is open behind one event more.                                     *)
LEMMA TrackAppend ==
    ASSUME NEW L \in Seq(Event), NEW e \in Event
    PROVE  /\ Track(L) \in TrackerState
           /\ Track(L \o <<e>>) = Observe(Track(L), e)
<1>1. PICK M : M = L \o <<e>>
  OBVIOUS
<1>2. /\ M \in Seq(Event) /\ Len(M) = Len(L) + 1 /\ Begins(L, M) /\ M[Len(M)] = e
      /\ Len(L) \in Nat
  BY <1>1, OneMore
<1>3. Tracker(L)[Len(L)] = Tracker(M)[Len(L)] /\ Tracker(L)[Len(L)] \in TrackerState
  BY <1>2, TrackerPrefix
<1>4. Tracker(M)[Len(M)] = Observe(Tracker(M)[Len(M) - 1], M[Len(M)])
  BY <1>2, TrackerStep
<1>5. Len(M) - 1 = Len(L)
  BY <1>2
<1> QED BY <1>1, <1>2, <1>3, <1>4, <1>5 DEF Track

(* One event more keeps the places, if it fits what is open.               *)
LEMMA PlacedAppend ==
    ASSUME NEW L \in Seq(Event), NEW e \in Event, NEW failed,
           AllPlaced(L, failed), Placed(e, Track(L), failed)
    PROVE  AllPlaced(L \o <<e>>, failed)
<1>1. PICK M : M = L \o <<e>>
  OBVIOUS
<1>2. /\ M \in Seq(Event) /\ Len(M) = Len(L) + 1 /\ Begins(L, M) /\ M[Len(M)] = e
      /\ \A i \in 1 .. Len(L) : M[i] = L[i]
      /\ Len(L) \in Nat /\ DOMAIN M = 1 .. Len(M) /\ DOMAIN L = 1 .. Len(L)
  BY <1>1, OneMore
<1>3. \A i \in 0 .. Len(L) : Tracker(L)[i] = Tracker(M)[i]
  BY <1>2, TrackerPrefix
<1>4. ASSUME NEW i \in DOMAIN M PROVE Placed(M[i], Tracker(M)[i - 1], failed)
  <2>1. CASE i = Len(M)
    <3>1. i - 1 = Len(L) /\ Len(L) \in 0 .. Len(L)
      BY <1>2, <2>1
    <3> QED BY <1>2, <1>3, <2>1, <3>1 DEF Track
  <2>2. CASE i # Len(M)
    <3>1. i \in DOMAIN L /\ i - 1 \in 0 .. Len(L)
      BY <1>2, <2>2
    <3>2. Tracker(L)[i - 1] = Tracker(M)[i - 1] /\ M[i] = L[i]
      BY <1>2, <1>3, <3>1
    <3> QED BY <3>1, <3>2 DEF AllPlaced
  <2> QED BY <2>1, <2>2
<1> QED BY <1>1, <1>4 DEF AllPlaced

(* Events inside a step leave the turn and the step open.                   *)
Inner == {"assistant/message", "tool/call", "tool/result"}

(* Events of an open step neither end it nor lie outside of it.            *)
LEMMA PlacedInside ==
    ASSUME NEW L \in Seq(Event), NEW R \in Seq(Event), NEW failed, AllPlaced(L, failed),
           \A m \in DOMAIN R :
              /\ R[m].type \in Inner /\ R[m].turn = Track(L).turn
              /\ R[m].turn \in failed \/ (R[m].step = Track(L).step /\ R[m].step # 0)
    PROVE  /\ AllPlaced(L \o R, failed)
           /\ Track(L \o R).turn = Track(L).turn /\ Track(L \o R).step = Track(L).step
<1>1. PICK M : M = L \o R
  OBVIOUS
<1>2. /\ M \in Seq(Event) /\ DOMAIN M = 1 .. Len(M) /\ Len(M) = Len(L) + Len(R)
      /\ DOMAIN L = 1 .. Len(L) /\ DOMAIN R = 1 .. Len(R)
      /\ Len(L) \in Nat /\ Len(R) \in Nat /\ Len(M) \in Nat
      /\ \A i \in 1 .. Len(L) : M[i] = L[i]
      /\ \A i \in 1 .. Len(R) : M[Len(L) + i] = R[i] /\ R[i] \in Event
  BY <1>1
<1>3. Begins(L, M)
  BY <1>2 DEF Begins
<1>4. \A i \in 0 .. Len(L) : Tracker(L)[i] = Tracker(M)[i]
  BY <1>2, <1>3, TrackerPrefix
<1>5. PICK t, s : t = Track(L).turn /\ s = Track(L).step
  OBVIOUS
<1>6. /\ \A i \in 1 .. Len(M) : Tracker(M)[i] = Observe(Tracker(M)[i - 1], M[i])
      /\ \A i \in 0 .. Len(M) : Tracker(M)[i] \in TrackerState
  <2>1. Begins(M, M)
    BY <1>2, EventBegins
  <2> QED BY <1>2, <2>1, TrackerStep, TrackerPrefix
<1> DEFINE Kept == {k \in 0 .. Len(R) : /\ Tracker(M)[Len(L) + k].turn = t
                                        /\ Tracker(M)[Len(L) + k].step = s}
<1>7. 0 \in Kept
  BY <1>2, <1>4, <1>5 DEF Track
<1>8. ASSUME NEW k \in 0 .. Len(R) - 1, k \in Kept PROVE k + 1 \in Kept
  <2>1. /\ k + 1 \in 1 .. Len(R) /\ Len(L) + (k + 1) \in 1 .. Len(M)
        /\ (Len(L) + (k + 1)) - 1 = Len(L) + k /\ Len(L) + k \in 0 .. Len(M)
    BY <1>2
  <2>2. PICK tr, e : tr = Tracker(M)[Len(L) + k] /\ e = R[k + 1]
    OBVIOUS
  <2>3. /\ tr \in TrackerState /\ e \in Event /\ e.type \in Inner
        /\ Tracker(M)[Len(L) + (k + 1)] = Observe(tr, e)
    BY <1>2, <1>6, <2>1, <2>2
  <2>4. Observe(tr, e).turn = tr.turn /\ Observe(tr, e).step = tr.step
    BY <2>3, ObservePlace DEF Inner
  <2> QED BY <1>8, <2>1, <2>2, <2>3, <2>4
<1>9. 0 .. Len(R) \subseteq Kept
  <2> HIDE DEF Kept
  <2> QED BY <1>2, <1>7, <1>8, Upwards
<1>10. Track(M).turn = t /\ Track(M).step = s
  <2>1. Len(R) \in Kept
    BY <1>2, <1>9
  <2> QED BY <1>2, <2>1 DEF Track
<1>11. ASSUME NEW i \in DOMAIN M PROVE Placed(M[i], Tracker(M)[i - 1], failed)
  <2>1. CASE i <= Len(L)
    <3>1. i \in DOMAIN L /\ i - 1 \in 0 .. Len(L)
      BY <1>2, <2>1
    <3>2. Tracker(L)[i - 1] = Tracker(M)[i - 1] /\ M[i] = L[i]
      BY <1>2, <1>4, <3>1
    <3> QED BY <3>1, <3>2 DEF AllPlaced
  <2>2. CASE i > Len(L)
    <3>1. PICK k \in 0 .. Len(R) : k = i - 1 - Len(L)
      BY <1>2, <2>2
    <3>2. /\ k + 1 \in 1 .. Len(R) /\ i = Len(L) + (k + 1) /\ i - 1 = Len(L) + k
      BY <1>2, <2>2, <3>1
    <3>3. PICK tr, e : tr = Tracker(M)[i - 1] /\ e = M[i]
      OBVIOUS
    <3>4. tr.turn = t /\ tr.step = s
      BY <1>9, <3>2, <3>3
    <3>5. e.type \in Inner /\ e.turn = t /\ (e.turn \in failed \/ (e.step = s /\ e.step # 0))
      BY <1>2, <1>5, <3>2, <3>3, SMTT(30)
    <3>6. Placed(e, tr, failed)
      BY <3>4, <3>5 DEF Placed, Inner
    <3> QED BY <3>3, <3>6
  <2> QED BY <1>2, <2>1, <2>2
<1> QED BY <1>1, <1>5, <1>10, <1>11 DEF AllPlaced

(* The end of the step that is open, if one is.                             *)
LEMMA PlacedClosed ==
    ASSUME NEW L \in Seq(Event), NEW failed, AllPlaced(L, failed), NEW r \in Recorder, r.step # 0,
           Track(L).turn = r.turn, Track(L).step = IF r.open THEN r.step ELSE 0
    PROVE  /\ StepClosers(r) \in Seq(Event) /\ L \o StepClosers(r) \in Seq(Event)
           /\ AllPlaced(L \o StepClosers(r), failed)
           /\ Track(L \o StepClosers(r)).turn = r.turn
           /\ Track(L \o StepClosers(r)).step = 0
<1>1. r.turn \in Nat /\ r.step \in Nat /\ r.completed \in Seq(ToolCall)
  BY DEF Recorder
<1>2. CASE ~r.open
  <2>1. StepClosers(r) = <<>>
    BY <1>2 DEF StepClosers
  <2>2. L \o <<>> = L
    BY EventsConcat
  <2> QED BY <1>2, <2>1, <2>2, NoEvents
<1>3. CASE r.open
  <2>1. PICK a, e : /\ a = (IF ~r.emitted /\ r.text
                            THEN <<Message(r.turn, r.step, IdsOf(r.completed))>> ELSE <<>>)
                    /\ e = StepEnd(r.turn, r.step)
    OBVIOUS
  <2>2. StepClosers(r) = a \o <<e>>
    BY <1>3, <2>1 DEF StepClosers
  <2>3. e \in Event /\ e.type = "step/end" /\ e.turn = r.turn /\ e.step = r.step
    BY <1>1, <2>1, EventTyped DEF StepEnd
  <2>4. /\ a \in Seq(Event)
        /\ \A m \in DOMAIN a : a[m].type \in Inner /\ a[m].turn = r.turn /\ a[m].step = r.step
    <3>1. CASE ~r.emitted /\ r.text
      <4>1. PICK d : d = Message(r.turn, r.step, IdsOf(r.completed))
        OBVIOUS
      <4>2. d \in Event /\ d.type \in Inner /\ d.turn = r.turn /\ d.step = r.step
        BY <1>1, <4>1, EventTyped, IdsOfFacts DEF Message, Inner
      <4>3. a = <<d>>
        BY <2>1, <3>1, <4>1
      <4> QED BY <4>2, <4>3, Singleton
    <3>2. CASE ~(~r.emitted /\ r.text)
      <4>1. a = <<>> /\ DOMAIN <<>> = {}
        BY <2>1, <3>2
      <4> QED BY <4>1, NoEvents
    <3> QED BY <3>1, <3>2
  <2>5. /\ AllPlaced(L \o a, failed)
        /\ Track(L \o a).turn = r.turn /\ Track(L \o a).step = r.step
    <3>1. Track(L).step = r.step
      BY <1>3
    <3>2. \A m \in DOMAIN a :
              /\ a[m].type \in Inner /\ a[m].turn = Track(L).turn
              /\ a[m].turn \in failed \/ (a[m].step = Track(L).step /\ a[m].step # 0)
      BY <2>4, <3>1
    <3> QED BY <2>4, <3>1, <3>2, PlacedInside
  <2>6. PICK M : M = L \o a
    OBVIOUS
  <2>7. M \in Seq(Event) /\ L \o StepClosers(r) = M \o <<e>> /\ StepClosers(r) \in Seq(Event)
    <3>1. <<e>> \in Seq(Event)
      BY <2>3, Singleton
    <3> QED BY <2>2, <2>4, <2>6, <3>1, EventsConcat, EventsAssociate
  <2>8. Placed(e, Track(M), failed)
    BY <2>3, <2>5, <2>6 DEF Placed
  <2>9. AllPlaced(M \o <<e>>, failed)
    BY <2>3, <2>5, <2>6, <2>7, <2>8, PlacedAppend
  <2>10. Track(M) \in TrackerState /\ Track(M \o <<e>>) = Observe(Track(M), e)
    BY <2>3, <2>7, TrackAppend
  <2>11. Observe(Track(M), e).turn = Track(M).turn /\ Observe(Track(M), e).step = 0
    BY <2>3, <2>10, ObservePlace
  <2>12. M \o <<e>> \in Seq(Event)
    BY <2>3, <2>7, OneMore
  <2> QED BY <2>5, <2>6, <2>7, <2>9, <2>10, <2>11, <2>12
<1> QED BY <1>2, <1>3

-----------------------------------------------------------------------------
(***************************************************************************)
(* Which calls are answered.                                                *)
(***************************************************************************)

\* The call is alone with its id and its tool among those asked for.
Sole(asked, t, id) ==
  \A c \in asked : c.turn = t /\ c.id = id =>
     \A d \in asked : d.turn = t /\ (d.id = id \/ d.tool = c.tool) => d = c

IsAnswer(e, t, id) == e.type = "tool/result" /\ e.turn = t /\ e.id = id
IsEnd(e, t) == e.type \in {"step/end", "turn/end"} /\ e.turn = t

\* Every sole call of a message of the run is answered behind it.
Settled(L, t, asked) ==
  \A i \in DOMAIN L : \A id : Names(L[i], t, id) /\ Sole(asked, t, id) =>
     \E k \in DOMAIN L : i <= k /\ IsAnswer(L[k], t, id)

\* ... and is so before the end of its step, unless the run gave up.
Closed(L, given, asked) ==
  \A i, j \in DOMAIN L : \A t, id :
     /\ i <= j /\ IsEnd(L[j], t) /\ t \notin given
     /\ Names(L[i], t, id) /\ Sole(asked, t, id)
     => \E k \in DOMAIN L : i <= k /\ k <= j /\ IsAnswer(L[k], t, id)

(* A call that is the only use of its id and its tool was so before, too.  *)
LEMMA SoleFewer ==
    ASSUME NEW asked, NEW more, asked \subseteq more
    PROVE  \A t, id : Sole(more, t, id) => Sole(asked, t, id)
  BY DEF Sole

(* Ends that stand behind their answers do so in what a crash leaves.      *)
LEMMA ClosedPrefix ==
    ASSUME NEW L \in Seq(Event), NEW M \in Seq(Event), Begins(L, M),
           NEW given, NEW asked, Closed(M, given, asked),
           NEW more, given \subseteq more, NEW now, asked \subseteq now
    PROVE  Closed(L, more, now)
<1>1. /\ DOMAIN L = 1 .. Len(L) /\ DOMAIN M = 1 .. Len(M) /\ Len(L) \in Nat /\ Len(M) \in Nat
      /\ \A i \in DOMAIN L : i \in DOMAIN M /\ M[i] = L[i]
  BY DEF Begins
<1> SUFFICES ASSUME NEW i \in DOMAIN L, NEW j \in DOMAIN L, NEW t, NEW id,
                    i <= j, IsEnd(L[j], t), t \notin more, Names(L[i], t, id), Sole(now, t, id)
             PROVE  \E k \in DOMAIN L : i <= k /\ k <= j /\ IsAnswer(L[k], t, id)
  BY DEF Closed
<1>2. Sole(asked, t, id) /\ t \notin given
  BY SoleFewer
<1>3. PICK k \in DOMAIN M : i <= k /\ k <= j /\ IsAnswer(M[k], t, id)
  BY <1>1, <1>2 DEF Closed
<1>4. k \in DOMAIN L /\ L[k] = M[k]
  BY <1>1, <1>3
<1> QED BY <1>3, <1>4

(* Only an end of a step or a turn of a run that did not give up has to be  *)
(* justified.                                                               *)
LEMMA ClosedMore ==
    ASSUME NEW L \in Seq(Event), NEW R \in Seq(Event), NEW given, NEW asked,
           Closed(L, given, asked),
           \A m \in DOMAIN R : \A t : IsEnd(R[m], t) => t \in given
    PROVE  Closed(L \o R, given, asked)
<1>1. PICK M : M = L \o R
  OBVIOUS
<1>2. /\ DOMAIN M = 1 .. Len(M) /\ Len(M) = Len(L) + Len(R)
      /\ DOMAIN L = 1 .. Len(L) /\ DOMAIN R = 1 .. Len(R)
      /\ Len(L) \in Nat /\ Len(R) \in Nat
      /\ \A i \in 1 .. Len(L) : M[i] = L[i]
      /\ \A i \in 1 .. Len(R) : M[Len(L) + i] = R[i]
  BY <1>1
<1> SUFFICES ASSUME NEW i \in DOMAIN M, NEW j \in DOMAIN M, NEW t, NEW id,
                    i <= j, IsEnd(M[j], t), t \notin given, Names(M[i], t, id), Sole(asked, t, id)
             PROVE  \E k \in DOMAIN M : i <= k /\ k <= j /\ IsAnswer(M[k], t, id)
  BY <1>1 DEF Closed
<1>3. j \in DOMAIN L
  <2> SUFFICES ASSUME j > Len(L) PROVE FALSE
    BY <1>2
  <2>1. PICK m \in Nat : m = j - Len(L)
    BY <1>2
  <2>2. m \in DOMAIN R /\ M[j] = R[m]
    BY <1>2, <2>1
  <2> QED BY <2>2
<1>4. i \in DOMAIN L /\ L[i] = M[i] /\ L[j] = M[j]
  BY <1>2, <1>3
<1>5. PICK k \in DOMAIN L : i <= k /\ k <= j /\ IsAnswer(L[k], t, id)
  BY <1>3, <1>4 DEF Closed
<1>6. k \in DOMAIN M /\ M[k] = L[k]
  BY <1>2
<1> QED BY <1>5, <1>6

(* An end fits behind a journal in which its turn owes nothing.            *)
LEMMA ClosedEnd ==
    ASSUME NEW L \in Seq(Event), NEW e \in Event, NEW given, NEW asked,
           Closed(L, given, asked),
           \A t : IsEnd(e, t) => t \in given \/ Settled(L, t, asked)
    PROVE  /\ Closed(L \o <<e>>, given, asked)
           /\ \A t : IsEnd(e, t) /\ Settled(L, t, asked) => Settled(L \o <<e>>, t, asked)
<1>1. PICK M : M = L \o <<e>>
  OBVIOUS
<1>2. /\ M \in Seq(Event) /\ Len(M) = Len(L) + 1 /\ M[Len(M)] = e
      /\ \A i \in 1 .. Len(L) : M[i] = L[i]
      /\ Len(L) \in Nat /\ DOMAIN M = 1 .. Len(M) /\ DOMAIN L = 1 .. Len(L)
  BY <1>1, OneMore
<1>3. ASSUME NEW i \in DOMAIN M, NEW j \in DOMAIN M, NEW t, NEW id,
             i <= j, IsEnd(M[j], t), t \notin given, Names(M[i], t, id), Sole(asked, t, id)
      PROVE  \E k \in DOMAIN M : i <= k /\ k <= j /\ IsAnswer(M[k], t, id)
  <2>1. i # Len(M)
    <3>1. CASE j = i
      BY <1>3, <3>1 DEF IsEnd, Names
    <3>2. CASE j # i
      BY <1>2, <1>3, <3>2
    <3> QED BY <3>1, <3>2
  <2>2. i \in DOMAIN L /\ L[i] = M[i]
    BY <1>2, <2>1
  <2>3. CASE j \in DOMAIN L
    <3>1. L[j] = M[j]
      BY <1>2, <2>3
    <3>2. PICK k \in DOMAIN L : i <= k /\ k <= j /\ IsAnswer(L[k], t, id)
      BY <1>3, <2>2, <2>3, <3>1 DEF Closed
    <3>3. k \in DOMAIN M /\ M[k] = L[k]
      BY <1>2
    <3> QED BY <3>2, <3>3
  <2>4. CASE j \notin DOMAIN L
    <3>1. j = Len(M) /\ IsEnd(e, t)
      BY <1>2, <1>3, <2>4
    <3>2. PICK k \in DOMAIN L : i <= k /\ IsAnswer(L[k], t, id)
      BY <1>3, <2>2, <3>1 DEF Settled
    <3>3. k \in DOMAIN M /\ M[k] = L[k] /\ k <= j
      BY <1>2, <3>1
    <3> QED BY <3>2, <3>3
  <2> QED BY <2>3, <2>4
<1>4. ASSUME NEW t, IsEnd(e, t), Settled(L, t, asked)
      PROVE  Settled(M, t, asked)
  <2> SUFFICES ASSUME NEW i \in DOMAIN M, NEW id, Names(M[i], t, id), Sole(asked, t, id)
               PROVE  \E k \in DOMAIN M : i <= k /\ IsAnswer(M[k], t, id)
    BY DEF Settled
  <2>1. i # Len(M)
    BY <1>2, <1>4 DEF IsEnd, Names
  <2>2. i \in DOMAIN L /\ L[i] = M[i]
    BY <1>2, <2>1
  <2>3. PICK k \in DOMAIN L : i <= k /\ IsAnswer(L[k], t, id)
    BY <1>4, <2>2 DEF Settled
  <2>4. k \in DOMAIN M /\ M[k] = L[k]
    BY <1>2
  <2> QED BY <2>3, <2>4
<1> QED BY <1>1, <1>3, <1>4 DEF Closed

(* What is retained leaves out the calls of the ids given, and no other.   *)
LEMMA RetainedKeeps ==
    ASSUME NEW S, NEW s \in Seq(S), NEW ids
    PROVE  \A p \in ToSet(s) : p.id \in ids \/ p \in ToSet(Retained(s, ids))
<1>1. PICK k : /\ Retained(s, ids) = k[Len(s)] /\ k[0] = <<>>
               /\ \A i \in 1 .. Len(s) :
                     k[i] = IF s[i].id \in ids THEN k[i - 1] ELSE Append(k[i - 1], s[i])
  BY RetainedStep
<1> DEFINE Good == {i \in 0 .. Len(s) :
                      /\ k[i] \in Seq(S)
                      /\ \A j \in 1 .. i : s[j].id \in ids \/ s[j] \in ToSet(k[i])}
<1>2. Len(s) \in Nat /\ DOMAIN s = 1 .. Len(s) /\ \A i \in 1 .. Len(s) : s[i] \in S
  OBVIOUS
<1>3. 0 \in Good
  <2>1. k[0] \in Seq(S)
    BY <1>1
  <2> QED BY <1>2, <2>1
<1>4. ASSUME NEW i \in 0 .. Len(s) - 1, i \in Good PROVE i + 1 \in Good
  <2>1. i + 1 \in 1 .. Len(s) /\ (i + 1) - 1 = i
        /\ \A j \in 1 .. i + 1 : j = i + 1 \/ j \in 1 .. i
    BY <1>2
  <2>2. k[i + 1] = IF s[i + 1].id \in ids THEN k[i] ELSE Append(k[i], s[i + 1])
    BY <1>1, <2>1
  <2>3. CASE s[i + 1].id \in ids
    BY <1>4, <2>1, <2>2, <2>3
  <2>4. CASE s[i + 1].id \notin ids
    <3>1. s[i + 1] \in S
      BY <1>2, <2>1
    <3>2. k[i] \in Seq(S) /\ k[i + 1] = Append(k[i], s[i + 1])
      BY <1>4, <2>2, <2>4
    <3>3. k[i + 1] \in Seq(S) /\ ToSet(k[i + 1]) = ToSet(k[i]) \cup {s[i + 1]}
      BY <3>1, <3>2, ToSetAppend
    <3> QED BY <1>4, <2>1, <3>3
  <2> QED BY <2>3, <2>4
<1>5. Len(s) \in Good
  <2> HIDE DEF Good
  <2>1. 0 .. Len(s) \subseteq Good
    BY <1>2, <1>3, <1>4, Upwards
  <2> QED BY <1>2, <2>1
<1> QED BY <1>1, <1>2, <1>5 DEF ToSet

(* A call stays pending until it is answered, or its step ends.             *)
LEMMA ObservePending ==
    ASSUME NEW tr \in TrackerState, NEW e \in Event, NEW new, new = Observe(tr, e)
    PROVE  /\ e.type = "assistant/message" =>
                /\ \A id \in ToSet(e.calls) : \E p \in ToSet(new.pending) : p.id = id
                /\ \A q \in ToSet(tr.pending) : \E p \in ToSet(new.pending) : p.id = q.id
                /\ \A p \in ToSet(new.pending) : p.step = e.step \/ p \in ToSet(tr.pending)
           /\ e.type = "tool/call" =>
                /\ \A q \in ToSet(tr.pending) : \E p \in ToSet(new.pending) : p.id = q.id
                /\ \A p \in ToSet(new.pending) : \E q \in ToSet(tr.pending) : p.step = q.step
           /\ e.type = "tool/result" =>
                \A q \in ToSet(tr.pending) : q.id = e.id \/ q \in ToSet(new.pending)
           /\ e.type \in {"step/start", "user/message"} => new.pending = tr.pending
<1>1. tr.turn \in Nat /\ tr.step \in Nat /\ tr.pending \in Seq(Pending)
  BY DEF TrackerState
<1>2. CASE e.type \in {"step/start", "user/message"}
  BY <1>2 DEF Observe, TrackerState
<1>3. CASE e.type = "tool/result"
  <2>1. new.pending = Retained(tr.pending, {e.id})
    BY <1>3 DEF Observe, TrackerState
  <2>2. \A p \in ToSet(tr.pending) : p.id \in {e.id} \/ p \in ToSet(Retained(tr.pending, {e.id}))
    BY <1>1, RetainedKeeps
  <2> QED BY <1>3, <2>1, <2>2
<1>4. CASE e.type = "tool/call"
  <2>1. new.pending = [i \in DOMAIN tr.pending |->
                         IF tr.pending[i].id = e.id THEN [tr.pending[i] EXCEPT !.called = TRUE]
                                                    ELSE tr.pending[i]]
    BY <1>4 DEF Observe, TrackerState
  <2>2. \A i \in DOMAIN tr.pending : tr.pending[i] \in Pending
    BY <1>1
  <2>3. \A p \in Pending : /\ [p EXCEPT !.called = TRUE].id = p.id
                           /\ [p EXCEPT !.called = TRUE].step = p.step
    BY DEF Pending
  <2>4. PICK n, o : n = new.pending /\ o = tr.pending
    OBVIOUS
  <2>5. DOMAIN n = DOMAIN o /\ \A i \in DOMAIN o : n[i].id = o[i].id /\ n[i].step = o[i].step
    BY <2>1, <2>2, <2>3, <2>4
  <2>6. /\ \A q \in ToSet(o) : \E p \in ToSet(n) : p.id = q.id
        /\ \A p \in ToSet(n) : \E q \in ToSet(o) : p.step = q.step
    BY <2>5 DEF ToSet
  <2> QED BY <1>4, <2>4, <2>6
<1>5. CASE e.type = "assistant/message"
  <2>1. e.calls \in Seq(Ids) /\ e.step \in Nat
    BY <1>5, EventFacts
  <2>2. PICK c, u, v : /\ c = e.calls /\ u = Retained(tr.pending, ToSet(c))
                       /\ v = [i \in DOMAIN c |-> [id |-> c[i], step |-> e.step, called |-> FALSE]]
    OBVIOUS
  <2>3. u \in Seq(Pending) /\ ToSet(u) \subseteq ToSet(tr.pending)
        /\ \A p \in ToSet(tr.pending) : p.id \in ToSet(c) \/ p \in ToSet(u)
    <3>1. u \in Seq(Pending) /\ ToSet(u) \subseteq {p \in ToSet(tr.pending) : p.id \notin ToSet(c)}
      BY <1>1, <2>2, RetainedFacts
    <3>2. \A p \in ToSet(tr.pending) : p.id \in ToSet(c) \/ p \in ToSet(u)
      BY <1>1, <2>2, RetainedKeeps
    <3> QED BY <3>1, <3>2
  <2>4. DOMAIN c = 1 .. Len(c) /\ Len(c) \in Nat /\ \A i \in 1 .. Len(c) : c[i] \in Ids
    BY <2>1, <2>2
  <2>5. \A i \in 1 .. Len(c) : [id |-> c[i], step |-> e.step, called |-> FALSE] \in Pending
    BY <2>1, <2>4 DEF Pending
  <2>6. v \in Seq(Pending)
    BY <2>2, <2>4, <2>5
  <2>7. (\A id \in ToSet(c) : \E p \in ToSet(v) : p.id = id) /\ \A p \in ToSet(v) : p.step = e.step
    BY <2>2 DEF ToSet
  <2>8. u \o v \in Seq(Pending) /\ ToSet(u \o v) = ToSet(u) \cup ToSet(v)
    BY <2>3, <2>6, ToSetConcat
  <2>9. new.pending = u \o v
    BY <1>5, <2>2 DEF Observe, TrackerState
  <2>10. PICK n : n = ToSet(new.pending)
    OBVIOUS
  <2>11. n = ToSet(u) \cup ToSet(v)
    BY <2>8, <2>9, <2>10
  <2>12. /\ \A id \in ToSet(c) : \E p \in n : p.id = id
         /\ \A q \in ToSet(tr.pending) : \E p \in n : p.id = q.id
         /\ \A p \in n : p.step = e.step \/ p \in ToSet(tr.pending)
    BY <2>3, <2>7, <2>11
  <2> QED BY <1>5, <2>2, <2>10, <2>12
<1> QED BY <1>2, <1>3, <1>4, <1>5

\* Each run has one start, in front of everything it writes.
Started(L) ==
  \A i, j \in DOMAIN L : L[i].type = "turn/start" /\ L[j].turn = L[i].turn => i <= j

\* The tracker has every call of the open turn that is neither answered nor
\* behind an end of its step, at the step that is open.
Owed(L, i, tr, failed) ==
  tr.turn # 0 =>
    /\ \A k \in 1 .. i : \A id : Names(L[k], tr.turn, id) =>
          \/ \E p \in ToSet(tr.pending) : p.id = id
          \/ \E l \in 1 .. i : k <= l /\ (IsAnswer(L[l], tr.turn, id) \/ IsEnd(L[l], tr.turn))
    /\ tr.turn \notin failed => \A p \in ToSet(tr.pending) : p.step = tr.step /\ p.step # 0

(* One event keeps what the tracker has pending complete: every call named
   and not answered, unless its step was ended.                            *)
LEMMA OwedStep ==
    ASSUME NEW L \in Seq(Event), Ordered(L), Started(L), NEW i \in 1 .. Len(L),
           NEW tr, Open(L, i - 1, tr), NEW failed, Placed(L[i], tr, failed),
           Owed(L, i - 1, tr, failed)
    PROVE  Owed(L, i, Observe(tr, L[i]), failed)
<1>1. PICK e, t, new : e = L[i] /\ t = tr.turn /\ new = Observe(tr, e)
  OBVIOUS
<1>2. e \in Event /\ tr \in TrackerState /\ t \in Nat /\ i \in Nat /\ i - 1 \in Nat
      /\ DOMAIN L = 1 .. Len(L) /\ Len(L) \in Nat
      /\ 1 .. i = (1 .. i - 1) \cup {i} /\ 1 .. i \subseteq DOMAIN L
  <2>1. e \in Event
    BY <1>1
  <2>2. tr \in TrackerState /\ t \in Nat
    BY <1>1 DEF Open, TrackerState
  <2> QED BY <2>1, <2>2
<1>3. /\ new \in TrackerState
      /\ e.type = "turn/start" => new.turn = e.turn
      /\ e.type = "turn/end" => new.turn = 0
      /\ e.type \notin {"turn/start", "turn/end"} => new.turn = t
  BY <1>1, <1>2, ObserveTyped, ObserveTurn, SMTT(30)
<1>4. CASE new.turn = 0
  BY <1>1, <1>4 DEF Owed
<1>5. CASE e.type = "turn/start"
  <2>1. ToSet(new.pending) = {}
    BY <1>1, <1>2, <1>5, ObserveTyped
  <2>2. \A k \in 1 .. i : \A id : ~Names(L[k], new.turn, id)
    <3> SUFFICES ASSUME NEW k \in 1 .. i, NEW id, Names(L[k], new.turn, id) PROVE FALSE
      OBVIOUS
    <3>1. L[k].turn = e.turn /\ L[k].type = "assistant/message"
      BY <1>3, <1>5 DEF Names
    <3>2. i \in DOMAIN L /\ k \in DOMAIN L /\ k <= i
      BY <1>2
    <3>3. i <= k
      BY <1>1, <1>5, <3>1, <3>2 DEF Started
    <3>4. k = i
      BY <3>2, <3>3
    <3> QED BY <1>1, <1>5, <3>1, <3>4
  <2> QED BY <1>1, <2>1, <2>2 DEF Owed
<1>6. CASE e.type \notin {"turn/start", "turn/end"} /\ t # 0
  <2>1. /\ \A k \in 1 .. i - 1 : \A id : Names(L[k], t, id) =>
            \/ \E p \in ToSet(tr.pending) : p.id = id
            \/ \E l \in 1 .. i - 1 : k <= l /\ (IsAnswer(L[l], t, id) \/ IsEnd(L[l], t))
        /\ t \notin failed => \A p \in ToSet(tr.pending) : p.step = tr.step /\ p.step # 0
    BY <1>1, <1>6 DEF Owed
  <2>2. e.turn = t /\ new.turn = t
    <3>1. PICK j \in DOMAIN L : j <= i /\ L[j] = TurnStart(e.turn)
      BY <1>1, <1>2 DEF Ordered
    <3>2. L[j].turn = e.turn /\ L[j].type = "turn/start"
      BY <3>1 DEF TurnStart
    <3>3. j \in 1 .. i - 1
      BY <1>1, <1>2, <1>6, <3>1, <3>2
    <3>4. e.turn <= t
      BY <1>1, <1>6, <3>2, <3>3 DEF Open
    <3>5. PICK k \in 1 .. i - 1 : L[k] = TurnStart(t)
      BY <1>1, <1>6 DEF Open
    <3>6. L[k].turn = t /\ L[k].turn <= e.turn
      BY <1>1, <1>2, <3>5 DEF TurnStart, Ordered
    <3>7. e.turn \in Nat
      BY <1>2, EventFacts
    <3> QED BY <1>2, <1>3, <1>6, <3>4, <3>6, <3>7
  <2>3. /\ e.type \in {"user/message", "assistant/message", "tool/call", "tool/result"} =>
              new.step = tr.step
        /\ e.type = "step/start" => new.step = e.step
    BY <1>1, <1>2, ObservePlace
  <2>4. ASSUME NEW k \in 1 .. i, NEW id, Names(L[k], t, id)
        PROVE  \/ \E p \in ToSet(new.pending) : p.id = id
               \/ \E l \in 1 .. i : k <= l /\ (IsAnswer(L[l], t, id) \/ IsEnd(L[l], t))
    <3>1. CASE k = i
      <4>1. e.type = "assistant/message" /\ id \in ToSet(e.calls)
        BY <1>1, <2>4, <3>1 DEF Names
      <4> QED BY <1>1, <1>2, <4>1, ObservePending, ZenonT(40)
    <3>2. CASE k # i
      <4>1. k \in 1 .. i - 1
        BY <1>2, <3>2
      <4>2. CASE \E l \in 1 .. i - 1 : k <= l /\ (IsAnswer(L[l], t, id) \/ IsEnd(L[l], t))
        BY <1>2, <4>2
      <4>3. CASE \E q \in ToSet(tr.pending) : q.id = id
        <5>1. PICK q \in ToSet(tr.pending) : q.id = id
          BY <4>3
        <5>2. CASE e.type \in {"assistant/message", "tool/call"}
          BY <1>1, <1>2, <5>1, <5>2, ObservePending
        <5>3. CASE e.type \in {"step/start", "user/message"}
          BY <1>1, <1>2, <5>1, <5>3, ObservePending
        <5>4. CASE e.type = "tool/result"
          <6>1. q.id = e.id \/ q \in ToSet(new.pending)
            BY <1>1, <1>2, <5>1, <5>4, ObservePending
          <6>2. CASE q.id = e.id
            <7>1. IsAnswer(L[i], t, id) /\ i \in 1 .. i /\ k <= i
              BY <1>1, <1>2, <2>2, <4>1, <5>1, <5>4, <6>2 DEF IsAnswer
            <7> QED BY <7>1
          <6> QED BY <5>1, <6>1, <6>2
        <5>5. CASE e.type = "step/end"
          <6>1. IsEnd(L[i], t) /\ i \in 1 .. i /\ k <= i
            BY <1>1, <1>2, <2>2, <4>1, <5>5 DEF IsEnd
          <6> QED BY <6>1
        <5> QED BY <1>2, <1>6, <5>2, <5>3, <5>4, <5>5, EventFacts
      <4> QED BY <2>1, <2>4, <4>1, <4>2, <4>3
    <3> QED BY <3>1, <3>2
  <2>5. ASSUME t \notin failed, NEW p \in ToSet(new.pending)
        PROVE  p.step = new.step /\ p.step # 0
    <3>1. Placed(e, tr, failed) /\ e.turn \notin failed
      BY <1>1, <2>2, <2>5
    <3>2. CASE e.type = "assistant/message"
      <4>1. e.step = tr.step /\ e.step # 0
        BY <3>1, <3>2 DEF Placed
      <4>2. p.step = e.step \/ p \in ToSet(tr.pending)
        BY <1>1, <1>2, <2>5, <3>2, ObservePending
      <4> QED BY <2>1, <2>3, <2>5, <3>2, <4>1, <4>2
    <3>3. CASE e.type = "tool/call"
      <4>1. PICK q \in ToSet(tr.pending) : p.step = q.step
        BY <1>1, <1>2, <2>5, <3>3, ObservePending
      <4> QED BY <2>1, <2>3, <2>5, <3>3, <4>1
    <3>4. CASE e.type \in {"tool/result", "user/message"}
      <4>1. p \in ToSet(tr.pending)
        BY <1>1, <1>2, <2>5, <3>4, ObserveTyped
      <4> QED BY <2>1, <2>3, <2>5, <3>4, <4>1
    <3>5. CASE e.type = "step/end"
      BY <1>1, <1>2, <2>5, <3>5, ObserveTyped
    <3>6. CASE e.type = "step/start"
      <4>1. p \in ToSet(tr.pending)
        BY <1>1, <1>2, <2>5, <3>6, ObserveTyped
      <4>2. tr.step = 0
        BY <3>1, <3>6 DEF Placed
      <4> QED BY <2>1, <2>5, <4>1, <4>2
    <3> QED BY <1>2, <1>6, <3>2, <3>3, <3>4, <3>5, <3>6, EventFacts
  <2> QED BY <1>1, <2>2, <2>4, <2>5 DEF Owed
<1> QED BY <1>3, <1>4, <1>5, <1>6

(* The tracker has every call pending that the open turn still owes.       *)
LEMMA OwedFacts ==
    ASSUME NEW L \in Seq(Event), Ordered(L), Started(L), NEW failed, AllPlaced(L, failed)
    PROVE  Owed(L, Len(L), Track(L), failed)
<1>1. Len(L) \in Nat /\ DOMAIN L = 1 .. Len(L)
  OBVIOUS
<1> DEFINE Good == {i \in 0 .. Len(L) : /\ Open(L, i, Tracker(L)[i])
                                        /\ Owed(L, i, Tracker(L)[i], failed)}
<1>2. /\ Tracker(L)[0] = NoTurn
      /\ \A i \in 1 .. Len(L) : Tracker(L)[i] = Observe(Tracker(L)[i - 1], L[i])
  BY TrackerStep
<1>3. 0 \in Good
  BY <1>1, <1>2, NoTurnFacts DEF Open, Owed
<1>4. ASSUME NEW i \in 0 .. Len(L) - 1, i \in Good PROVE i + 1 \in Good
  <2>1. PICK tr, k : tr = Tracker(L)[i] /\ k = i + 1
    OBVIOUS
  <2>2. /\ k \in 1 .. Len(L) /\ k - 1 = i
        /\ Open(L, k - 1, tr) /\ Owed(L, k - 1, tr, failed)
    BY <1>1, <1>4, <2>1
  <2>3. Placed(L[k], tr, failed)
    BY <1>1, <2>1, <2>2 DEF AllPlaced
  <2>4. Open(L, k, Observe(tr, L[k]))
    BY <2>2, OpenStep
  <2>5. Owed(L, k, Observe(tr, L[k]), failed)
    BY <2>2, <2>3, OwedStep
  <2>6. Tracker(L)[k] = Observe(tr, L[k])
    BY <1>2, <2>1, <2>2
  <2> QED BY <2>1, <2>2, <2>4, <2>5, <2>6
<1>5. Len(L) \in Good
  <2> HIDE DEF Good
  <2>1. 0 .. Len(L) \subseteq Good
    BY <1>1, <1>3, <1>4, Upwards
  <2> QED BY <1>1, <2>1
<1> QED BY <1>5 DEF Track

(* Recovery closes what is open: the calls of the turn are answered, then   *)
(* its step ends, then the turn.                                            *)
LEMMA ClosersClose ==
    ASSUME NEW L \in Seq(Event), Ordered(L), Started(L), NEW failed, AllPlaced(L, failed),
           NEW given, NEW asked, Closed(L, given, asked)
    PROVE  /\ L \o Closers(Track(L)) \in Seq(Event)
           /\ AllPlaced(L \o Closers(Track(L)), failed)
           /\ Closed(L \o Closers(Track(L)), given, asked)
           /\ Track(L \o Closers(Track(L))).turn = 0
<1>1. PICK tr, t, s, pending :
         tr = Track(L) /\ t = tr.turn /\ s = tr.step /\ pending = tr.pending
  OBVIOUS
<1>2. tr \in TrackerState /\ t \in Nat /\ s \in Nat /\ pending \in Seq(Pending)
  <2>1. Open(L, Len(L), tr)
    BY <1>1, TrackFacts
  <2> QED BY <1>1, <2>1 DEF Open, TrackerState
<1>3. CASE t = 0
  <2>1. Closers(tr) = <<>>
    BY <1>1, <1>3 DEF Closers
  <2>2. L \o <<>> = L
    BY EventsConcat
  <2> QED BY <1>1, <1>3, <2>1, <2>2
<1>4. CASE t # 0
  <2>1. PICK a, d, c :
           /\ a = [i \in DOMAIN pending |->
                     Result(t, pending[i].step, pending[i].id,
                            IF pending[i].called THEN "unknown" ELSE "not started")]
           /\ d = StepEnd(t, s) /\ c = TurnEnd(t, "interrupted")
    OBVIOUS
  <2>2. Closers(tr) = a \o (IF s = 0 THEN <<>> ELSE <<d>>) \o <<c>>
    BY <1>1, <1>4, <2>1 DEF Closers
  <2>3. /\ DOMAIN pending = 1 .. Len(pending) /\ Len(pending) \in Nat
        /\ \A i \in 1 .. Len(pending) :
             pending[i] \in Pending /\ pending[i] \in ToSet(pending)
    <3>1. DOMAIN pending = 1 .. Len(pending) /\ Len(pending) \in Nat
          /\ \A i \in 1 .. Len(pending) : pending[i] \in Pending
      BY <1>2
    <3> QED BY <3>1 DEF ToSet
  <2>4. \A p \in Pending : Result(t, p.step, p.id, IF p.called THEN "unknown" ELSE "not started") \in Event
    <3>1. \A p \in Pending : p.step \in Nat /\ p.id \in Ids
      BY DEF Pending
    <3>2. \A p \in Pending : (IF p.called THEN "unknown" ELSE "not started") \in Answers
      BY DEF Answers
    <3> QED BY <1>2, <3>1, <3>2, EventTyped
  <2>5. /\ a \in Seq(Event) /\ DOMAIN a = DOMAIN pending
        /\ \A i \in DOMAIN a : /\ a[i].type = "tool/result" /\ a[i].turn = t
                               /\ a[i].step = pending[i].step /\ a[i].id = pending[i].id
    <3>1. DOMAIN a = 1 .. Len(pending) /\ \A i \in 1 .. Len(pending) : a[i] \in Event
      BY <2>1, <2>3, <2>4
    <3>2. a \in Seq(Event)
      <4>1. a = [i \in 1 .. Len(pending) |-> a[i]]
        BY <2>1, <2>3
      <4> QED BY <2>3, <3>1, <4>1
    <3>3. \A i \in DOMAIN a : /\ a[i].type = "tool/result" /\ a[i].turn = t
                              /\ a[i].step = pending[i].step /\ a[i].id = pending[i].id
      BY <2>1, <2>3, <3>1 DEF Result
    <3> QED BY <2>3, <3>1, <3>2, <3>3
  <2>6. /\ d \in Event /\ d.type = "step/end" /\ d.turn = t /\ d.step = s
        /\ c \in Event /\ c.type = "turn/end" /\ c.turn = t
    BY <1>2, <2>1, EventTyped DEF StepEnd, TurnEnd, Reasons
  <2>7. Owed(L, Len(L), tr, failed)
    BY <1>1, OwedFacts
  <2>8. PICK M : M = L \o a
    OBVIOUS
  <2>9. /\ M \in Seq(Event) /\ AllPlaced(M, failed)
        /\ Track(M).turn = t /\ Track(M).step = s
    <3>1. \A i \in DOMAIN a :
              /\ a[i].type \in Inner /\ a[i].turn = Track(L).turn
              /\ a[i].turn \in failed \/ (a[i].step = Track(L).step /\ a[i].step # 0)
      <4>1. \A i \in DOMAIN a : pending[i] \in ToSet(pending)
        BY <2>3, <2>5
      <4> QED BY <1>1, <1>4, <2>5, <2>7, <4>1 DEF Owed, Inner
    <3>2. /\ AllPlaced(M, failed) /\ Track(M).turn = Track(L).turn
          /\ Track(M).step = Track(L).step
      BY <2>5, <2>8, <3>1, PlacedInside
    <3> QED BY <1>1, <2>5, <2>8, <3>2, EventsConcat
  <2>10. Closed(M, given, asked)
    <3>1. \A m \in DOMAIN a : \A u : ~IsEnd(a[m], u)
      BY <2>5 DEF IsEnd
    <3> QED BY <2>5, <2>8, <3>1, ClosedMore
  <2>11. t \in given \/ Settled(M, t, asked)
    <3> SUFFICES ASSUME t \notin given, NEW i \in DOMAIN M, NEW id,
                        Names(M[i], t, id), Sole(asked, t, id)
                 PROVE  \E k \in DOMAIN M : i <= k /\ IsAnswer(M[k], t, id)
      BY DEF Settled
    <3>1. /\ DOMAIN M = 1 .. Len(M) /\ Len(M) = Len(L) + Len(a)
          /\ DOMAIN L = 1 .. Len(L) /\ DOMAIN a = 1 .. Len(a)
          /\ Len(L) \in Nat /\ Len(a) \in Nat
          /\ \A j \in 1 .. Len(L) : M[j] = L[j]
          /\ \A j \in 1 .. Len(a) : M[Len(L) + j] = a[j]
      BY <2>5, <2>8
    <3>2. i \in 1 .. Len(L) /\ L[i] = M[i]
      <4> SUFFICES ASSUME i > Len(L) PROVE FALSE
        BY <3>1
      <4>1. PICK m \in Nat : m = i - Len(L)
        BY <3>1
      <4>2. m \in DOMAIN a /\ M[i] = a[m]
        BY <3>1, <4>1
      <4> QED BY <2>5, <4>2 DEF Names
    <3>3. CASE \E p \in ToSet(pending) : p.id = id
      <4>1. PICK m \in DOMAIN pending : pending[m].id = id
        BY <3>3 DEF ToSet
      <4>2. PICK k : k = Len(L) + m
        OBVIOUS
      <4>3. k \in DOMAIN M /\ i <= k /\ M[k] = a[m] /\ m \in DOMAIN a
        BY <2>5, <3>1, <3>2, <4>1, <4>2
      <4>4. IsAnswer(M[k], t, id)
        BY <2>5, <4>1, <4>3 DEF IsAnswer
      <4> QED BY <4>3, <4>4
    <3>4. CASE \E l \in 1 .. Len(L) : i <= l /\ (IsAnswer(L[l], t, id) \/ IsEnd(L[l], t))
      <4>1. PICK l \in 1 .. Len(L) : i <= l /\ (IsAnswer(L[l], t, id) \/ IsEnd(L[l], t))
        BY <3>4
      <4>2. \E k \in DOMAIN L : i <= k /\ IsAnswer(L[k], t, id)
        BY <3>1, <3>2, <4>1 DEF Closed
      <4> QED BY <3>1, <4>2
    <3> QED BY <1>1, <1>4, <2>7, <3>2, <3>3, <3>4 DEF Owed
  <2>12. PICK b : b = (IF s = 0 THEN <<>> ELSE <<d>>)
    OBVIOUS
  <2>13. PICK N : N = M \o b
    OBVIOUS
  <2>14. /\ b \in Seq(Event) /\ N \in Seq(Event) /\ AllPlaced(N, failed)
         /\ Track(N).turn = t /\ Track(N).step = 0
         /\ Closed(N, given, asked) /\ (t \in given \/ Settled(N, t, asked))
    <3>1. CASE s = 0
      <4>1. N = M /\ b = <<>>
        BY <2>9, <2>12, <2>13, <3>1, EventsConcat
      <4> QED BY <2>9, <2>10, <2>11, <3>1, <4>1, NoEvents
    <3>2. CASE s # 0
      <4>1. b = <<d>> /\ N = M \o <<d>>
        BY <2>12, <2>13, <3>2
      <4>2. Placed(d, Track(M), failed)
        BY <2>6, <2>9, <3>2 DEF Placed
      <4>3. AllPlaced(N, failed)
        BY <2>6, <2>9, <4>1, <4>2, PlacedAppend
      <4>4. Track(M) \in TrackerState /\ Track(N) = Observe(Track(M), d)
        BY <2>6, <2>9, <4>1, TrackAppend
      <4>5. Observe(Track(M), d).turn = Track(M).turn /\ Observe(Track(M), d).step = 0
        BY <2>6, <4>4, ObservePlace
      <4>6. \A u : IsEnd(d, u) => u = t
        BY <2>6 DEF IsEnd
      <4>7. IsEnd(d, t)
        BY <2>6 DEF IsEnd
      <4>8. /\ Closed(N, given, asked)
            /\ \A u : IsEnd(d, u) /\ Settled(M, u, asked) => Settled(N, u, asked)
        BY <2>6, <2>9, <2>10, <2>11, <4>1, <4>6, ClosedEnd
      <4>9. b \in Seq(Event) /\ N \in Seq(Event)
        BY <2>6, <2>9, <4>1, Singleton, OneMore
      <4> QED BY <2>9, <2>11, <4>3, <4>4, <4>5, <4>7, <4>8, <4>9
    <3> QED BY <3>1, <3>2
  <2>15. PICK W : W = N \o <<c>>
    OBVIOUS
  <2>16. L \o Closers(tr) = W /\ W \in Seq(Event)
    <3>1. PICK q : q = <<c>>
      OBVIOUS
    <3>2. q \in Seq(Event)
      BY <2>6, <3>1, Singleton
    <3>3. Closers(tr) = (a \o b) \o q
      BY <2>2, <2>12, <3>1
    <3>4. a \o b \in Seq(Event) /\ (L \o a) \o b = L \o (a \o b)
      BY <2>5, <2>14, EventsConcat, EventsAssociate
    <3>5. (L \o (a \o b)) \o q = L \o ((a \o b) \o q)
      BY <3>2, <3>4, EventsAssociate
    <3> QED BY <2>8, <2>13, <2>14, <2>15, <3>1, <3>2, <3>3, <3>4, <3>5, EventsConcat
  <2>17. AllPlaced(W, failed)
    <3>1. Placed(c, Track(N), failed)
      BY <2>6, <2>14 DEF Placed
    <3> QED BY <2>6, <2>14, <2>15, <3>1, PlacedAppend
  <2>18. Track(W).turn = 0
    <3>1. Track(N) \in TrackerState /\ Track(W) = Observe(Track(N), c)
      BY <2>6, <2>14, <2>15, TrackAppend
    <3> QED BY <2>6, <3>1, ObservePlace
  <2>19. Closed(W, given, asked)
    <3>1. \A u : IsEnd(c, u) => u = t
      BY <2>6 DEF IsEnd
    <3> QED BY <2>6, <2>14, <2>15, <3>1, ClosedEnd
  <2> QED BY <1>1, <2>16, <2>17, <2>18, <2>19
<1> QED BY <1>3, <1>4

\* The calls of a run that are named and not answered are among those.
Left(L, t, asked, ids) ==
  \A i \in DOMAIN L : \A id : Names(L[i], t, id) /\ Sole(asked, t, id) =>
     id \in ids \/ \E k \in DOMAIN L : i <= k /\ IsAnswer(L[k], t, id)

(* When nothing waits, nothing is owed.                                    *)
LEMMA LeftNothing ==
    ASSUME NEW L, NEW t, NEW asked
    PROVE  Left(L, t, asked, {}) <=> Settled(L, t, asked)
  BY DEF Left, Settled

(* More events: the calls they name are left, and those that are no longer  *)
(* left are answered by them.                                               *)
LEMMA LeftMore ==
    ASSUME NEW L \in Seq(Event), NEW R \in Seq(Event), NEW t,
           NEW asked, NEW now, asked \subseteq now, NEW ids, NEW new,
           Left(L, t, asked, ids),
           \A m \in DOMAIN R : \A id : Names(R[m], t, id) /\ Sole(now, t, id) => id \in new,
           \A id \in ids : Sole(now, t, id) =>
              id \in new \/ \E m \in DOMAIN R : IsAnswer(R[m], t, id)
    PROVE  Left(L \o R, t, now, new)
<1>1. PICK M : M = L \o R
  OBVIOUS
<1>2. /\ DOMAIN M = 1 .. Len(M) /\ Len(M) = Len(L) + Len(R)
      /\ DOMAIN L = 1 .. Len(L) /\ DOMAIN R = 1 .. Len(R)
      /\ Len(L) \in Nat /\ Len(R) \in Nat
      /\ \A i \in 1 .. Len(L) : M[i] = L[i]
      /\ \A i \in 1 .. Len(R) : M[Len(L) + i] = R[i]
  BY <1>1
<1> SUFFICES ASSUME NEW i \in DOMAIN M, NEW id, Names(M[i], t, id), Sole(now, t, id)
             PROVE  id \in new \/ \E k \in DOMAIN M : i <= k /\ IsAnswer(M[k], t, id)
  BY <1>1 DEF Left
<1>3. CASE i \notin DOMAIN L
  <2>1. PICK m \in Nat : m = i - Len(L)
    BY <1>2, <1>3
  <2>2. m \in DOMAIN R /\ M[i] = R[m]
    BY <1>2, <1>3, <2>1
  <2> QED BY <2>2
<1>4. CASE i \in DOMAIN L
  <2>1. L[i] = M[i] /\ Sole(asked, t, id)
    BY <1>2, <1>4, SoleFewer
  <2>2. CASE \E k \in DOMAIN L : i <= k /\ IsAnswer(L[k], t, id)
    <3>1. PICK k \in DOMAIN L : i <= k /\ IsAnswer(L[k], t, id)
      BY <2>2
    <3>2. k \in DOMAIN M /\ M[k] = L[k]
      BY <1>2
    <3> QED BY <3>1, <3>2
  <2>3. CASE \E m \in DOMAIN R : IsAnswer(R[m], t, id)
    <3>1. PICK m \in DOMAIN R : IsAnswer(R[m], t, id)
      BY <2>3
    <3>2. PICK k : k = Len(L) + m
      OBVIOUS
    <3>3. k \in DOMAIN M /\ i <= k /\ M[k] = R[m]
      BY <1>2, <1>4, <3>2
    <3> QED BY <3>1, <3>3
  <2> QED BY <1>4, <2>1, <2>2, <2>3 DEF Left
<1> QED BY <1>3, <1>4

\* Nothing of a run stands behind its turn/end.
Final(L) ==
  \A i, j \in DOMAIN L : L[j].type = "turn/end" /\ L[i].turn = L[j].turn => i <= j

\* The run has no turn/end.
Unended(L, t) == \A k \in DOMAIN L : ~(L[k].type = "turn/end" /\ L[k].turn = t)

(* No event stands behind the end of its turn in what a crash leaves.      *)
LEMMA FinalPrefix ==
    ASSUME NEW L \in Seq(Event), NEW M \in Seq(Event), Begins(L, M), Final(M)
    PROVE  Final(L)
<1>1. /\ DOMAIN L = 1 .. Len(L) /\ DOMAIN M = 1 .. Len(M) /\ Len(L) \in Nat /\ Len(M) \in Nat
      /\ \A i \in DOMAIN L : i \in DOMAIN M /\ M[i] = L[i]
  BY DEF Begins
<1> QED BY <1>1 DEF Final

(* A run may write on until its turn/end.                                   *)
LEMMA FinalMore ==
    ASSUME NEW L \in Seq(Event), NEW R \in Seq(Event), NEW t, Final(L), Unended(L, t),
           \A m \in DOMAIN R : R[m].turn = t /\ (R[m].type = "turn/end" => m = Len(R))
    PROVE  Final(L \o R)
<1>1. PICK M : M = L \o R
  OBVIOUS
<1>2. /\ DOMAIN M = 1 .. Len(M) /\ Len(M) = Len(L) + Len(R)
      /\ DOMAIN L = 1 .. Len(L) /\ DOMAIN R = 1 .. Len(R)
      /\ Len(L) \in Nat /\ Len(R) \in Nat
      /\ \A i \in 1 .. Len(L) : M[i] = L[i]
      /\ \A i \in 1 .. Len(R) : M[Len(L) + i] = R[i]
  BY <1>1
<1> SUFFICES ASSUME NEW i \in DOMAIN M, NEW j \in DOMAIN M,
                    M[j].type = "turn/end", M[i].turn = M[j].turn
             PROVE  i <= j
  BY <1>1 DEF Final
<1>3. CASE j \in DOMAIN L
  <2>1. M[j] = L[j]
    BY <1>2, <1>3
  <2>2. CASE i \in DOMAIN L
    BY <1>2, <1>3, <2>1, <2>2 DEF Final
  <2>3. CASE i \notin DOMAIN L
    <3>1. PICK m \in Nat : m = i - Len(L)
      BY <1>2, <2>3
    <3>2. m \in DOMAIN R /\ M[i] = R[m]
      BY <1>2, <2>3, <3>1
    <3>3. L[j].turn = t
      BY <2>1, <3>2
    <3> QED BY <1>3, <2>1, <3>3 DEF Unended
  <2> QED BY <2>2, <2>3
<1>4. CASE j \notin DOMAIN L
  <2>1. PICK m \in Nat : m = j - Len(L)
    BY <1>2, <1>4
  <2>2. m \in DOMAIN R /\ M[j] = R[m]
    BY <1>2, <1>4, <2>1
  <2>3. m = Len(R)
    BY <2>2
  <2> QED BY <1>2, <2>1, <2>3
<1> QED BY <1>3, <1>4

(* The run that is open has no turn/end.                                    *)
LEMMA OpenUnended ==
    ASSUME NEW L \in Seq(Event), Started(L), Track(L).turn # 0
    PROVE  Unended(L, Track(L).turn)
<1>1. Len(L) \in Nat /\ DOMAIN L = 1 .. Len(L) /\ \A i \in 1 .. Len(L) : L[i] \in Event
  OBVIOUS
<1> DEFINE Good == {i \in 0 .. Len(L) : Tracker(L)[i].turn # 0 =>
                      \A k \in 1 .. i : ~(L[k].type = "turn/end" /\ L[k].turn = Tracker(L)[i].turn)}
<1>2. /\ Tracker(L)[0] = NoTurn
      /\ \A i \in 1 .. Len(L) : Tracker(L)[i] = Observe(Tracker(L)[i - 1], L[i])
  BY TrackerStep
<1>3. \A i \in 0 .. Len(L) : Tracker(L)[i] \in TrackerState
  <2>1. Begins(L, L)
    BY EventBegins
  <2> QED BY <2>1, TrackerPrefix
<1>4. 0 \in Good
  BY <1>1
<1>5. ASSUME NEW i \in 0 .. Len(L) - 1, i \in Good PROVE i + 1 \in Good
  <2>1. /\ i + 1 \in 1 .. Len(L) /\ (i + 1) - 1 = i /\ i \in 0 .. Len(L)
        /\ \A k \in 1 .. i + 1 : k = i + 1 \/ k \in 1 .. i
        /\ \A k \in 1 .. i + 1 : k \in DOMAIN L /\ k <= i + 1
    BY <1>1
  <2>2. PICK tr, e, new : tr = Tracker(L)[i] /\ e = L[i + 1] /\ new = Observe(tr, e)
    OBVIOUS
  <2>3. tr \in TrackerState /\ e \in Event /\ Tracker(L)[i + 1] = new
    BY <1>1, <1>2, <1>3, <2>1, <2>2
  <2>4. tr.turn # 0 => \A k \in 1 .. i : ~(L[k].type = "turn/end" /\ L[k].turn = tr.turn)
    BY <1>5, <2>2
  <2>5. new.turn # 0 =>
          \A k \in 1 .. i + 1 : ~(L[k].type = "turn/end" /\ L[k].turn = new.turn)
    <3>1. CASE e.type = "turn/start"
      <4>1. new.turn = e.turn
        BY <2>2, <2>3, <3>1, ObserveTurn
      <4>2. \A k \in 1 .. i + 1 : L[k].turn = e.turn => i + 1 <= k
        BY <2>1, <2>2, <3>1 DEF Started
      <4>3. \A k \in 1 .. i : ~(i + 1 <= k)
        BY <1>1
      <4> QED BY <2>1, <2>2, <3>1, <4>1, <4>2, <4>3
    <3>2. CASE e.type = "turn/end"
      BY <2>2, <2>3, <3>2, ObserveTurn
    <3>3. CASE e.type \notin {"turn/start", "turn/end"}
      <4>1. new.turn = tr.turn
        BY <2>2, <2>3, <3>3, ObserveTurn
      <4> QED BY <2>1, <2>2, <2>4, <3>3, <4>1
    <3> QED BY <3>1, <3>2, <3>3
  <2> QED BY <2>1, <2>3, <2>5
<1>6. Len(L) \in Good
  <2> HIDE DEF Good
  <2>1. 0 .. Len(L) \subseteq Good
    BY <1>1, <1>4, <1>5, Upwards
  <2> QED BY <1>1, <2>1
<1> QED BY <1>1, <1>6 DEF Unended, Track

(* Recovery closes a turn that is open, and only with its last event.       *)
LEMMA ClosersFinal ==
    ASSUME NEW L \in Seq(Event), Ordered(L), Started(L), Final(L)
    PROVE  Closers(Track(L)) \in Seq(Event) /\ Final(L \o Closers(Track(L)))
<1>1. PICK tr, t, s, pending :
         tr = Track(L) /\ t = tr.turn /\ s = tr.step /\ pending = tr.pending
  OBVIOUS
<1>2. tr \in TrackerState /\ t \in Nat /\ s \in Nat /\ pending \in Seq(Pending)
  <2>1. Open(L, Len(L), tr)
    BY <1>1, TrackFacts
  <2> QED BY <1>1, <2>1 DEF Open, TrackerState
<1>3. CASE t = 0
  <2>1. Closers(tr) = <<>>
    BY <1>1, <1>3 DEF Closers
  <2>2. L \o <<>> = L
    BY EventsConcat
  <2> QED BY <1>1, <2>1, <2>2, NoEvents
<1>4. CASE t # 0
  <2>1. PICK a, d, c :
           /\ a = [i \in DOMAIN pending |->
                     Result(t, pending[i].step, pending[i].id,
                            IF pending[i].called THEN "unknown" ELSE "not started")]
           /\ d = (IF s = 0 THEN <<>> ELSE <<StepEnd(t, s)>>) /\ c = <<TurnEnd(t, "interrupted")>>
    OBVIOUS
  <2>2. Closers(tr) = a \o d \o c
    BY <1>1, <1>4, <2>1 DEF Closers
  <2>3. /\ DOMAIN pending = 1 .. Len(pending) /\ Len(pending) \in Nat
        /\ \A i \in 1 .. Len(pending) : pending[i] \in Pending
    BY <1>2
  <2>4. \A p \in Pending : Result(t, p.step, p.id, IF p.called THEN "unknown" ELSE "not started") \in Event
    <3>1. \A p \in Pending : p.step \in Nat /\ p.id \in Ids
      BY DEF Pending
    <3>2. \A p \in Pending : (IF p.called THEN "unknown" ELSE "not started") \in Answers
      BY DEF Answers
    <3> QED BY <1>2, <3>1, <3>2, EventTyped
  <2>5. /\ a \in Seq(Event)
        /\ \A i \in DOMAIN a : a[i].type = "tool/result" /\ a[i].turn = t
    <3>1. DOMAIN a = 1 .. Len(pending) /\ \A i \in 1 .. Len(pending) : a[i] \in Event
      BY <2>1, <2>3, <2>4
    <3>2. a = [i \in 1 .. Len(pending) |-> a[i]]
      BY <2>1, <2>3
    <3>3. a \in Seq(Event)
      BY <2>3, <3>1, <3>2
    <3>4. \A i \in DOMAIN a : a[i].type = "tool/result" /\ a[i].turn = t
      BY <2>1, <2>3, <3>1 DEF Result
    <3> QED BY <3>3, <3>4
  <2>6. /\ d \in Seq(Event) /\ \A i \in DOMAIN d : d[i].type = "step/end" /\ d[i].turn = t
    <3>1. StepEnd(t, s) \in Event /\ StepEnd(t, s).type = "step/end" /\ StepEnd(t, s).turn = t
      BY <1>2, EventTyped DEF StepEnd
    <3>2. PICK e : e = StepEnd(t, s)
      OBVIOUS
    <3>3. d = <<>> \/ d = <<e>>
      BY <2>1, <3>2
    <3>4. e \in Event /\ e.type = "step/end" /\ e.turn = t
      BY <3>1, <3>2
    <3>5. <<>> \in Seq(Event) /\ DOMAIN <<>> = {} /\ <<e>> \in Seq(Event)
          /\ DOMAIN <<e>> = {1} /\ <<e>>[1] = e
      BY <3>4, NoEvents
    <3> QED BY <3>3, <3>4, <3>5
  <2>7. /\ c \in Seq(Event) /\ Len(c) = 1 /\ DOMAIN c = 1 .. 1
        /\ c[1].type = "turn/end" /\ c[1].turn = t
    <3>1. /\ TurnEnd(t, "interrupted") \in Event
          /\ TurnEnd(t, "interrupted").type = "turn/end" /\ TurnEnd(t, "interrupted").turn = t
      BY <1>2, EventTyped DEF TurnEnd, Reasons
    <3>2. PICK e : e = TurnEnd(t, "interrupted")
      OBVIOUS
    <3>3. c = <<e>>
      BY <2>1, <3>2
    <3> QED BY <3>1, <3>2, <3>3
  <2>8. PICK R : R = (a \o d) \o c
    OBVIOUS
  <2>9. R \in Seq(Event) /\ \A m \in DOMAIN R : R[m].turn = t /\ (R[m].type = "turn/end" => m = Len(R))
    <3>1. PICK b : b = a \o d
      OBVIOUS
    <3>2. b \in Seq(Event) /\ \A m \in DOMAIN b : b[m].turn = t /\ b[m].type # "turn/end"
      <4>1. /\ b \in Seq(Event) /\ DOMAIN b = 1 .. Len(a) + Len(d)
            /\ DOMAIN a = 1 .. Len(a) /\ DOMAIN d = 1 .. Len(d)
            /\ Len(a) \in Nat /\ Len(d) \in Nat
            /\ \A i \in 1 .. Len(a) : b[i] = a[i]
            /\ \A i \in 1 .. Len(d) : b[Len(a) + i] = d[i]
        BY <2>5, <2>6, <3>1
      <4>2. ASSUME NEW m \in DOMAIN b PROVE b[m].turn = t /\ b[m].type # "turn/end"
        <5>1. CASE m <= Len(a)
          BY <2>5, <4>1, <5>1
        <5>2. CASE m > Len(a)
          <6>1. PICK i \in Nat : i = m - Len(a)
            BY <4>1, <5>2
          <6>2. i \in DOMAIN d /\ b[m] = d[i]
            BY <4>1, <5>2, <6>1
          <6> QED BY <2>6, <6>2
        <5> QED BY <4>1, <5>1, <5>2
      <4> QED BY <4>1, <4>2
    <3>3. /\ R \in Seq(Event) /\ DOMAIN R = 1 .. Len(R) /\ Len(R) = Len(b) + 1
          /\ DOMAIN b = 1 .. Len(b) /\ Len(b) \in Nat
          /\ \A i \in 1 .. Len(b) : R[i] = b[i]
          /\ R[Len(R)] = c[1]
      <4>1. PICK e : e = TurnEnd(t, "interrupted")
        OBVIOUS
      <4>2. c = <<e>> /\ c[1] = e /\ e \in Event
        BY <1>2, <2>1, <4>1, EventTyped DEF Reasons
      <4>3. R = b \o <<e>>
        BY <2>8, <3>1, <4>2
      <4>4. /\ R \in Seq(Event) /\ Len(R) = Len(b) + 1 /\ R[Len(b) + 1] = e
            /\ \A i \in 1 .. Len(b) : R[i] = b[i]
        BY <3>2, <4>2, <4>3, OneMore
      <4>5. DOMAIN b = 1 .. Len(b) /\ Len(b) \in Nat /\ DOMAIN R = 1 .. Len(R)
        BY <3>2, <4>4
      <4> QED BY <4>2, <4>4, <4>5
    <3>4. ASSUME NEW m \in DOMAIN R PROVE R[m].turn = t /\ (R[m].type = "turn/end" => m = Len(R))
      <4>1. CASE m = Len(R)
        BY <2>7, <3>3, <4>1
      <4>2. CASE m # Len(R)
        BY <3>2, <3>3, <4>2
      <4> QED BY <4>1, <4>2
    <3> QED BY <3>3, <3>4
  <2>10. Unended(L, t)
    BY <1>1, <1>4, OpenUnended
  <2>11. Final(L \o R)
    BY <2>9, <2>10, FinalMore
  <2> QED BY <1>1, <2>2, <2>8, <2>9, <2>11
<1> QED BY <1>3, <1>4

-----------------------------------------------------------------------------
(***************************************************************************)
(* The journal of a run in progress.                                        *)
(***************************************************************************)

\* Where it stands: at the step the recorder is at, unless a write failed.
PlaceInv ==
  /\ AllPlaced(Journal, Spoiled) /\ Final(Journal)
  /\ rec.step # 0
  /\ Running /\ ~fatal =>
       /\ Track(Journal).turn = rec.turn
       /\ ~rec.error => Track(Journal).step = IF rec.open THEN rec.step ELSE 0
  /\ pc = "idle" /\ ~fatal => Track(Journal).turn = 0 \/ Track(Journal).turn \in spoiled

\* The calls that will be answered when the worker comes to them.
Waiting ==
  {todo[m].id : m \in {m \in DOMAIN todo :
                         m = 1 /\ pc = "denied" => todo[m].id \notin rec.journaled}}

\* What it owes: an answer to the calls that wait, to others only if the run
\* gave up.
OwedInv ==
  /\ Closed(Journal, gaveUp, offered)
  /\ rec.text => rec.turn \in gaveUp
  /\ pc \in {"ask", "denied"} => todo[1] \in ToSet(rec.stashed)
  /\ Running /\ ~fatal /\ ~rec.error =>
       rec.turn \in gaveUp \/ Left(Journal, rec.turn, offered, Waiting)

Transcript == PlaceInv /\ OwedInv

(* What a step leaves of the journal is a beginning of the journal with its *)
(* events.                                                                  *)
LEMMA GrownBegins ==
    ASSUME TypeInv, NEW events \in Seq(Event), Grown(events)
    PROVE  Journal' \in Seq(Event) /\ Journal \in Seq(Event) /\ Begins(Journal', Journal \o events)
<1>1. /\ Journal' \in Seq(Event) /\ DOMAIN Journal' = 1 .. Len(Journal')
      /\ Len(Journal') \in Nat
  BY JournalGrown
<1>2. Journal \in Seq(Event) /\ DOMAIN Journal = 1 .. Len(Journal) /\ Len(Journal) \in Nat
  BY JournalTyped
<1>3. PICK J, K, N : J = Journal /\ K = Journal' /\ N = J \o events
  OBVIOUS
<1>4. /\ N \in Seq(Event) /\ Len(N) = Len(J) + Len(events)
      /\ Len(events) \in Nat /\ DOMAIN events = 1 .. Len(events)
      /\ \A i \in 1 .. Len(J) : N[i] = J[i]
      /\ \A m \in 1 .. Len(events) : N[Len(J) + m] = events[m]
  BY <1>2, <1>3
<1>5. \A i \in DOMAIN K : \/ i \in DOMAIN J /\ K[i] = J[i]
                          \/ \E m \in DOMAIN events : i = Len(J) + m /\ K[i] = events[m]
  BY <1>3 DEF Grown
<1>6. ASSUME NEW i \in DOMAIN K PROVE i <= Len(N) /\ K[i] = N[i]
  <2>1. CASE i \in DOMAIN J /\ K[i] = J[i]
    BY <1>2, <1>3, <1>4, <2>1
  <2>2. CASE \E m \in DOMAIN events : i = Len(J) + m /\ K[i] = events[m]
    BY <1>2, <1>3, <1>4, <2>2
  <2> QED BY <1>5, <2>1, <2>2
<1>7. Len(K) <= Len(N)
  <2>1. CASE Len(K) = 0
    BY <1>2, <1>3, <1>4, <2>1
  <2>2. CASE Len(K) # 0
    <3>1. Len(K) \in DOMAIN K
      BY <1>1, <1>3, <2>2
    <3> QED BY <1>6, <3>1
  <2> QED BY <2>1, <2>2
<1>8. Begins(K, N)
  BY <1>1, <1>3, <1>6, <1>7 DEF Begins
<1> QED BY <1>1, <1>2, <1>3, <1>8

(* The order of the turns, of the journal.                                  *)
LEMMA JournalOrder ==
    ASSUME IInv
    PROVE  Ordered(Journal) /\ Started(Journal) /\ Journal \in Seq(Event)
<1>1. TurnOrder /\ TypeInv
  BY DEF IInv, TurnInv
<1>2. PICK J : J = Journal
  OBVIOUS
<1>3. Ordered(J) /\ Started(J)
  BY <1>1, <1>2 DEF TurnOrder, Ordered, Started
<1> QED BY <1>1, <1>2, <1>3, JournalTyped

(* A run in which a write failed stays one.                                *)
LEMMA SpoiledGrows ==
    ASSUME spoiled \subseteq spoiled', rec.error => rec'.error /\ rec'.turn = rec.turn
    PROVE  Spoiled \subseteq Spoiled'
  BY DEF Spoiled

(* What a step does to the journal of a run in progress, by the events it   *)
(* was to write.                                                            *)
LEMMA RunKeeps ==
    ASSUME IInv, Transcript, NEW events \in Seq(Event), Grown(events),
           Running, Running', rec'.turn = rec.turn, rec'.step # 0, rec.error => rec'.error,
           spoiled' = spoiled, gaveUp \subseteq gaveUp', offered \subseteq offered',
           ~fatal' => \/ ~fatal /\ Journal' = Journal \o events
                      \/ ~fatal /\ rec'.error /\ Journal' = Journal,
           \/ Begins(Journal', Journal)
           \/ /\ \A m \in DOMAIN events :
                    events[m].turn = rec.turn /\ events[m].type # "turn/end"
              /\ ~fatal /\ AllPlaced(Journal \o events, Spoiled)
              /\ Closed(Journal \o events, gaveUp', offered'),
           ~fatal /\ Journal' = Journal \o events => Track(Journal \o events).turn = rec.turn,
           ~fatal' /\ ~rec'.error =>
              /\ Track(Journal \o events).step = IF rec'.open THEN rec'.step ELSE 0
              /\ rec.turn \in gaveUp' \/ Left(Journal \o events, rec.turn, offered', Waiting'),
           rec'.text => rec.turn \in gaveUp',
           pc' \in {"ask", "denied"} => todo'[1] \in ToSet(rec'.stashed)
    PROVE  Transcript'
<1>1. TypeInv /\ PlaceInv /\ OwedInv
  BY DEF IInv, Transcript
<1>2. PICK J, K, N : J = Journal /\ K = Journal' /\ N = J \o events
  OBVIOUS
<1>3. J \in Seq(Event) /\ K \in Seq(Event) /\ N \in Seq(Event) /\ Begins(K, N)
  BY <1>1, <1>2, GrownBegins, EventsConcat
<1>4. PICK failed, more : failed = Spoiled /\ more = Spoiled'
  OBVIOUS
<1>5. failed \subseteq more
  BY <1>4, SpoiledGrows
<1>6. AllPlaced(K, more) /\ Final(K) /\ Closed(K, gaveUp', offered')
  <2>1. CASE Begins(K, J)
    <3>1. AllPlaced(J, failed) /\ Final(J) /\ Closed(J, gaveUp, offered)
      BY <1>1, <1>2, <1>4 DEF PlaceInv, OwedInv
    <3> QED BY <1>3, <1>5, <2>1, <3>1, PlacedPrefix, FinalPrefix, ClosedPrefix
  <2>2. CASE ~Begins(K, J)
    <3>1. /\ \A m \in DOMAIN events : events[m].turn = rec.turn /\ events[m].type # "turn/end"
          /\ ~fatal /\ AllPlaced(N, failed) /\ Closed(N, gaveUp', offered')
      BY <1>2, <1>4, <2>2
    <3>2. Final(N)
      <4>1. Ordered(J) /\ Started(J)
        BY <1>2, JournalOrder
      <4>2. Track(J).turn = rec.turn /\ rec.turn # 0 /\ Final(J)
        BY <1>1, <1>2, <3>1, RunningBegun DEF PlaceInv
      <4>3. Unended(J, rec.turn)
        BY <1>3, <4>1, <4>2, OpenUnended
      <4> QED BY <1>2, <1>3, <3>1, <4>2, <4>3, FinalMore
    <3> QED BY <1>3, <1>5, <3>1, <3>2, PlacedPrefix, FinalPrefix, ClosedPrefix
  <2> QED BY <2>1, <2>2
<1>7. ~fatal' => Track(K).turn = rec.turn
  <2>1. ~fatal => Track(J).turn = rec.turn
    BY <1>1, <1>2 DEF PlaceInv
  <2> QED BY <1>2, <2>1
<1>8. ~fatal' /\ ~rec'.error =>
        /\ Track(K).step = IF rec'.open THEN rec'.step ELSE 0
        /\ rec.turn \in gaveUp' \/ Left(K, rec.turn, offered', Waiting')
  BY <1>2
<1>9. pc' \notin {"idle", "down"}
  BY DEF Running
<1>10. PlaceInv'
  <2>1. Track(Journal)' = Track(K)
    BY <1>2 DEF Track
  <2>2. AllPlaced(Journal, Spoiled)' /\ Final(Journal)'
    BY <1>2, <1>4, <1>6 DEF AllPlaced, Final
  <2> QED BY <1>7, <1>8, <1>9, <2>1, <2>2 DEF PlaceInv
<1>11. OwedInv'
  <2>1. Closed(Journal, gaveUp, offered)'
    BY <1>2, <1>6 DEF Closed
  <2>2. ~fatal' /\ ~rec'.error => rec'.turn \in gaveUp' \/ Left(Journal, rec.turn, offered, Waiting)'
    BY <1>2, <1>8 DEF Left
  <2> QED BY <2>1, <2>2 DEF OwedInv
<1> QED BY <1>10, <1>11 DEF Transcript

(* What the recorder writes of an open step stands in it.                   *)
LEMMA InnerFacts ==
    ASSUME IInv, Transcript, Running, rec.open, ~fatal, NEW events \in Seq(Event),
           \A m \in DOMAIN events : /\ events[m].type \in Inner
                                    /\ events[m].turn = rec.turn /\ events[m].step = rec.step
    PROVE  /\ \A m \in DOMAIN events :
                 events[m].turn = rec.turn /\ events[m].type # "turn/end"
           /\ AllPlaced(Journal \o events, Spoiled)
           /\ Closed(Journal \o events, gaveUp, offered)
           /\ Track(Journal \o events).turn = rec.turn
           /\ ~rec.error => Track(Journal \o events).step = rec.step
<1>1. PlaceInv /\ OwedInv /\ Journal \in Seq(Event)
  BY JournalTyped DEF Transcript, IInv
<1>2. PICK J, failed : J = Journal /\ failed = Spoiled
  OBVIOUS
<1>3. /\ AllPlaced(J, failed) /\ Track(J).turn = rec.turn /\ rec.step # 0
      /\ ~rec.error => Track(J).step = rec.step
      /\ rec.error => rec.turn \in failed
  BY <1>1, <1>2 DEF PlaceInv, Spoiled
<1>4. \A m \in DOMAIN events :
         /\ events[m].type \in Inner /\ events[m].turn = Track(J).turn
         /\ events[m].turn \in failed \/ (events[m].step = Track(J).step /\ events[m].step # 0)
  BY <1>3
<1>5. /\ AllPlaced(J \o events, failed)
      /\ Track(J \o events).turn = Track(J).turn /\ Track(J \o events).step = Track(J).step
  BY <1>1, <1>2, <1>3, <1>4, PlacedInside
<1>6. \A m \in DOMAIN events : \A t : IsEnd(events[m], t) => t \in gaveUp
  BY DEF Inner, IsEnd
<1>7. Closed(J \o events, gaveUp, offered)
  BY <1>1, <1>2, <1>6, ClosedMore DEF OwedInv
<1>8. \A m \in DOMAIN events : events[m].turn = rec.turn /\ events[m].type # "turn/end"
  BY DEF Inner
<1> QED BY <1>2, <1>3, <1>5, <1>7, <1>8

(* What closes the step of a run that has no calls left.                    *)
LEMMA CloserFacts ==
    ASSUME IInv, Transcript, Running, todo = <<>>, ~fatal, ~rec.error
    PROVE  /\ StepClosers(rec) \in Seq(Event) /\ Journal \o StepClosers(rec) \in Seq(Event)
           /\ \A m \in DOMAIN StepClosers(rec) :
                 StepClosers(rec)[m].turn = rec.turn /\ StepClosers(rec)[m].type # "turn/end"
           /\ AllPlaced(Journal \o StepClosers(rec), Spoiled)
           /\ Closed(Journal \o StepClosers(rec), gaveUp, offered)
           /\ Track(Journal \o StepClosers(rec)).turn = rec.turn
           /\ Track(Journal \o StepClosers(rec)).step = 0
           /\ rec.turn \in gaveUp \/ Settled(Journal \o StepClosers(rec), rec.turn, offered)
<1>1. PlaceInv /\ OwedInv /\ Journal \in Seq(Event) /\ rec \in Recorder
  BY JournalTyped DEF Transcript, IInv, TypeInv
<1>2. PICK J, failed, r, t : J = Journal /\ failed = Spoiled /\ r = rec /\ t = rec.turn
  OBVIOUS
<1>3. /\ AllPlaced(J, failed) /\ Track(J).turn = r.turn /\ r.step # 0
      /\ Track(J).step = IF r.open THEN r.step ELSE 0
      /\ r \in Recorder /\ J \in Seq(Event) /\ t = r.turn
  BY <1>1, <1>2 DEF PlaceInv
<1>4. /\ StepClosers(r) \in Seq(Event) /\ J \o StepClosers(r) \in Seq(Event)
      /\ AllPlaced(J \o StepClosers(r), failed)
      /\ Track(J \o StepClosers(r)).turn = r.turn
      /\ Track(J \o StepClosers(r)).step = 0
  BY <1>3, PlacedClosed
<1>5. PICK R : R = StepClosers(r)
  OBVIOUS
<1>6. \A m \in DOMAIN R : /\ R[m].turn = t /\ R[m].type \in {"assistant/message", "step/end"}
  <2>1. ToSet(R) \subseteq {Message(r.turn, r.step, IdsOf(r.completed)), StepEnd(r.turn, r.step)}
    BY <1>3, <1>5, StepClosersFacts
  <2>2. \A m \in DOMAIN R : R[m] \in ToSet(R)
    BY DEF ToSet
  <2>3. \A e \in {Message(r.turn, r.step, IdsOf(r.completed)), StepEnd(r.turn, r.step)} :
           e.turn = t /\ e.type \in {"assistant/message", "step/end"}
    BY <1>3 DEF Message, StepEnd
  <2> QED BY <2>1, <2>2, <2>3
<1>7. Closed(J, gaveUp, offered) /\ (r.text => t \in gaveUp)
      /\ (t \in gaveUp \/ Settled(J, t, offered))
  <2>1. DOMAIN todo = {} /\ Waiting = {}
    <3>1. DOMAIN todo = {}
      OBVIOUS
    <3> QED BY <3>1 DEF Waiting
  <2>2. t \in gaveUp \/ Left(J, t, offered, {})
    BY <1>1, <1>2, <2>1 DEF OwedInv
  <2>3. t \in gaveUp \/ Settled(J, t, offered)
    BY <2>2, LeftNothing
  <2> QED BY <1>1, <1>2, <2>3 DEF OwedInv
<1>8. CASE t \in gaveUp
  <2>1. \A m \in DOMAIN R : \A u : IsEnd(R[m], u) => u \in gaveUp
    BY <1>6, <1>8 DEF IsEnd
  <2>2. Closed(J \o R, gaveUp, offered)
    BY <1>3, <1>4, <1>5, <1>7, <2>1, ClosedMore
  <2> QED BY <1>2, <1>4, <1>5, <1>6, <1>8, <2>2
<1>9. CASE t \notin gaveUp
  <2>1. CASE ~r.open
    <3>1. R = <<>> /\ J \o R = J
      <4>1. R = <<>>
        BY <1>5, <2>1 DEF StepClosers
      <4> QED BY <1>3, <4>1, EventsConcat
    <3> QED BY <1>2, <1>4, <1>5, <1>6, <1>7, <1>9, <3>1
  <2>2. CASE r.open
    <3>1. PICK e : e = StepEnd(r.turn, r.step)
      OBVIOUS
    <3>2. R = <<>> \o <<e>>
      BY <1>5, <1>7, <1>9, <2>2, <3>1 DEF StepClosers
    <3>3. e \in Event /\ e.type = "step/end" /\ e.turn = t
      <4>1. r.turn \in Nat /\ r.step \in Nat
        BY <1>3 DEF Recorder
      <4> QED BY <1>3, <3>1, <4>1, EventTyped DEF StepEnd
    <3>4. R = <<e>>
      <4>1. <<e>> \in Seq(Event)
        BY <3>3, Singleton
      <4> QED BY <3>2, <4>1, EventsConcat
    <3>5. IsEnd(e, t) /\ \A u : IsEnd(e, u) => u = t
      BY <3>3 DEF IsEnd
    <3>6. Closed(J \o <<e>>, gaveUp, offered) /\ Settled(J \o <<e>>, t, offered)
      BY <1>3, <1>7, <1>9, <3>3, <3>5, ClosedEnd
    <3> QED BY <1>2, <1>4, <1>5, <1>6, <3>4, <3>6
  <2>3. r.open \in BOOLEAN
    BY <1>3 DEF Recorder
  <2> QED BY <2>1, <2>2, <2>3
<1> QED BY <1>8, <1>9

(* How the recorder writes, by what it was given.                           *)
LEMMA RecorderWrites ==
    ASSUME TypeInv, NEW r \in Recorder, NEW events \in Seq(Event),
           Record(r, events) \/ RecordFlush(r, events)
    PROVE  /\ Grown(events)
           /\ rec'.turn = r.turn /\ rec'.step = r.step /\ rec'.open = r.open
           /\ rec'.text = r.text /\ rec'.stashed = r.stashed /\ rec'.journaled = r.journaled
           /\ r.error => rec'.error
           /\ r.error \/ fatal => Journal' = Journal
           /\ ~fatal' => \/ ~fatal /\ Journal' = Journal \o events
                         \/ ~fatal /\ rec'.error /\ Journal' = Journal
           /\ ~fatal' /\ ~rec'.error => ~fatal /\ ~r.error
<1>1. rec' = [r EXCEPT !.error = rec'.error] /\ Grown(events)
  <2>1. CASE Record(r, events)
    BY <2>1, RecordFacts
  <2>2. CASE RecordFlush(r, events)
    BY <2>2, RecordFlushFacts
  <2> QED BY <2>1, <2>2
<1>2. /\ rec'.turn = r.turn /\ rec'.step = r.step /\ rec'.open = r.open
      /\ rec'.text = r.text /\ rec'.stashed = r.stashed /\ rec'.journaled = r.journaled
  BY <1>1, RecorderBehind
<1>3. r.error \in BOOLEAN /\ fatal \in BOOLEAN /\ buffer \in Seq(Event) /\ log \in Seq(Event)
      /\ \A b : [r EXCEPT !.error = b].error = b
  BY DEF Recorder, TypeInv
<1>4. CASE Record(r, events)
  <2>1. log' = log /\ fatal' = fatal /\ rec'.error = (r.error \/ (fatal /\ events # <<>>))
    BY <1>3, <1>4 DEF Record
  <2>2. CASE r.error \/ fatal \/ events = <<>>
    <3>1. buffer' = buffer
      BY <1>4, <2>2 DEF Record
    <3>2. Journal' = Journal
      BY <2>1, <3>1 DEF Journal
    <3>3. events = <<>> => Journal' = Journal \o events
      <4>1. Journal \in Seq(Event)
        BY JournalTyped
      <4> QED BY <3>2, <4>1, EventsConcat
    <3> QED BY <1>1, <1>2, <1>3, <2>1, <2>2, <3>2, <3>3
  <2>3. CASE ~(r.error \/ fatal \/ events = <<>>)
    <3>1. buffer' = buffer \o events
      BY <1>4, <2>3 DEF Record
    <3>2. Journal' = Journal \o events
      BY <2>1, <3>1, GrownByAppend
    <3> QED BY <1>1, <1>2, <1>3, <2>1, <2>3, <3>2
  <2> QED BY <2>2, <2>3
<1>5. CASE RecordFlush(r, events)
  <2>1. CASE r.error
    <3>1. rec' = r /\ UNCHANGED <<log, buffer, fatal>>
      BY <1>5, <2>1 DEF RecordFlush, journal
    <3>2. Journal' = Journal
      BY <3>1 DEF Journal
    <3> QED BY <1>1, <1>2, <2>1, <3>1, <3>2
  <2>2. CASE ~r.error
    <3>1. PICK ok \in BOOLEAN : Durably(events, ok) /\ rec' = [r EXCEPT !.error = ~ok]
      BY <1>5, <2>2 DEF RecordFlush
    <3>2. rec'.error = ~ok
      BY <1>3, <3>1
    <3>3. /\ ok => ~fatal /\ ~fatal'
          /\ ~fatal' => Journal' = Journal \o events /\ ~fatal
      BY <3>1, DurablyFacts
    <3>4. fatal => Journal' = Journal
      BY <3>1 DEF Durably, journal, Journal
    <3> QED BY <1>1, <1>2, <2>2, <3>2, <3>3, <3>4
  <2> QED BY <2>1, <2>2
<1> QED BY <1>4, <1>5

(* What a write of the recorder has to keep, the two outcomes of a flush
   being settled by RecorderWrites.                                        *)
LEMMA RecorderKeeps ==
    ASSUME IInv, Transcript, NEW r \in Recorder, NEW events \in Seq(Event),
           Record(r, events) \/ RecordFlush(r, events),
           Running, Running', r.turn = rec.turn, r.error = rec.error, r.step # 0,
           spoiled' = spoiled, gaveUp \subseteq gaveUp', offered \subseteq offered',
           ~fatal /\ ~rec.error =>
              /\ \A m \in DOMAIN events :
                    events[m].turn = rec.turn /\ events[m].type # "turn/end"
              /\ AllPlaced(Journal \o events, Spoiled)
              /\ Closed(Journal \o events, gaveUp', offered')
              /\ Track(Journal \o events).turn = rec.turn
              /\ Track(Journal \o events).step = IF r.open THEN r.step ELSE 0
              /\ rec.turn \in gaveUp' \/ Left(Journal \o events, rec.turn, offered', Waiting'),
           r.text => rec.turn \in gaveUp',
           pc' \in {"ask", "denied"} => todo'[1] \in ToSet(r.stashed)
    PROVE  Transcript'
<1>1. TypeInv /\ PlaceInv /\ fatal \in BOOLEAN
  BY DEF IInv, Transcript, TypeInv
<1>2. /\ Grown(events)
      /\ rec'.turn = r.turn /\ rec'.step = r.step /\ rec'.open = r.open
      /\ rec'.text = r.text /\ rec'.stashed = r.stashed
      /\ r.error => rec'.error
      /\ r.error \/ fatal => Journal' = Journal
      /\ ~fatal' => \/ ~fatal /\ Journal' = Journal \o events
                    \/ ~fatal /\ rec'.error /\ Journal' = Journal
      /\ ~fatal' /\ ~rec'.error => ~fatal /\ ~r.error
  BY <1>1, RecorderWrites
<1>3. Journal' = Journal => Begins(Journal', Journal)
  BY <1>1, <1>2, GrownBegins, EventBegins
<1>4. \/ Begins(Journal', Journal)
      \/ /\ \A m \in DOMAIN events :
               events[m].turn = rec.turn /\ events[m].type # "turn/end"
         /\ ~fatal /\ AllPlaced(Journal \o events, Spoiled)
         /\ Closed(Journal \o events, gaveUp', offered')
  BY <1>2, <1>3
<1>5. ~fatal /\ Journal' = Journal \o events => Track(Journal \o events).turn = rec.turn
  <2>1. CASE ~rec.error
    BY <2>1
  <2>2. CASE rec.error
    <3>1. Journal' = Journal /\ (~fatal => Track(Journal).turn = rec.turn)
      BY <1>1, <1>2, <2>2 DEF PlaceInv
    <3>2. PICK J : J = Journal
      OBVIOUS
    <3> QED BY <3>1, <3>2
  <2> QED BY <2>1, <2>2
<1>6. ~fatal' /\ ~rec'.error =>
        /\ Track(Journal \o events).step = IF rec'.open THEN rec'.step ELSE 0
        /\ rec.turn \in gaveUp' \/ Left(Journal \o events, rec.turn, offered', Waiting')
  BY <1>2
<1> QED BY <1>2, <1>4, <1>5, <1>6, RunKeeps

(* The steps of a run that write nothing.                                   *)
LEMMA SilentKeeps ==
    ASSUME IInv, Transcript, UNCHANGED journal \/ \E ok \in BOOLEAN : Durably(<<>>, ok),
           Running, Running',
           rec'.turn = rec.turn, rec'.step = rec.step, rec'.open = rec.open,
           rec'.error = rec.error,
           spoiled' = spoiled, gaveUp \subseteq gaveUp', offered \subseteq offered',
           ~fatal /\ ~rec.error =>
              rec.turn \in gaveUp' \/ Left(Journal, rec.turn, offered', Waiting'),
           rec'.text => rec.turn \in gaveUp',
           pc' \in {"ask", "denied"} => todo'[1] \in ToSet(rec'.stashed)
    PROVE  Transcript'
<1>1. TypeInv /\ PlaceInv /\ <<>> \in Seq(Event)
  BY NoEvents DEF IInv, Transcript
<1>2. Journal \o <<>> = Journal /\ Journal \in Seq(Event)
  <2>1. Journal \in Seq(Event)
    BY <1>1, JournalTyped
  <2> QED BY <2>1, EventsConcat
<1>3. Grown(<<>>) /\ (~fatal' => ~fatal /\ Journal' = Journal)
  <2>1. CASE UNCHANGED journal
    <3>1. log' = log /\ buffer' = buffer /\ fatal' = fatal
      BY <2>1 DEF journal
    <3>2. Grown(<<>>) /\ Journal' = Journal
      BY <1>1, <3>1, GrownByNothing DEF Journal
    <3> QED BY <3>1, <3>2
  <2>2. CASE \E ok \in BOOLEAN : Durably(<<>>, ok)
    <3>1. PICK ok \in BOOLEAN : Durably(<<>>, ok)
      BY <2>2
    <3>2. Grown(<<>>) /\ (~fatal' => Journal' = Journal \o <<>> /\ ~fatal)
      BY <1>1, <3>1, DurablyFacts
    <3> QED BY <1>2, <3>2
  <2> QED BY <2>1, <2>2
<1>4. Begins(Journal', Journal)
  <2>1. Begins(Journal', Journal \o <<>>)
    BY <1>1, <1>3, GrownBegins
  <2> QED BY <1>2, <2>1
<1>6. PICK N : N = Journal \o <<>>
  OBVIOUS
<1>7. N = Journal
  BY <1>2, <1>6
<1>8. rec.step # 0 /\ (~fatal => Track(N).turn = rec.turn)
      /\ (~fatal /\ ~rec.error => Track(N).step = IF rec.open THEN rec.step ELSE 0)
  <2>1. PICK J : J = Journal
    OBVIOUS
  <2>2. rec.step # 0 /\ (~fatal => Track(J).turn = rec.turn)
        /\ (~fatal /\ ~rec.error => Track(J).step = IF rec.open THEN rec.step ELSE 0)
    BY <1>1, <2>1 DEF PlaceInv
  <2> QED BY <1>7, <2>1, <2>2
<1>9. ~fatal' /\ ~rec'.error => rec.turn \in gaveUp' \/ Left(N, rec.turn, offered', Waiting')
  BY <1>3, <1>7
<1>10. ~fatal' => ~fatal /\ Journal' = Journal \o <<>>
  BY <1>2, <1>3
<1> QED BY <1>1, <1>3, <1>4, <1>6, <1>8, <1>9, <1>10, RunKeeps

(* A step that is closed, and the event behind it.                          *)
LEMMA OpenerFacts ==
    ASSUME IInv, Transcript, Running, todo = <<>>, ~fatal, ~rec.error,
           NEW e \in Event, e.type \in {"user/message", "step/start"}, e.turn = rec.turn,
           NEW events, events = StepClosers(rec) \o <<e>>
    PROVE  /\ \A m \in DOMAIN events :
                 events[m].turn = rec.turn /\ events[m].type # "turn/end"
           /\ AllPlaced(Journal \o events, Spoiled)
           /\ Closed(Journal \o events, gaveUp, offered)
           /\ Track(Journal \o events).turn = rec.turn
           /\ Track(Journal \o events).step = IF e.type = "step/start" THEN e.step ELSE 0
           /\ rec.turn \in gaveUp \/ Settled(Journal \o events, rec.turn, offered)
<1>1. PICK J, R, failed, t : J = Journal /\ R = StepClosers(rec) /\ failed = Spoiled /\ t = rec.turn
  OBVIOUS
<1>2. J \in Seq(Event)
  BY <1>1, JournalTyped DEF IInv
<1>3. PICK N : N = J \o R
  OBVIOUS
<1>4. /\ R \in Seq(Event) /\ N \in Seq(Event)
      /\ \A m \in DOMAIN R : R[m].turn = t /\ R[m].type # "turn/end"
      /\ AllPlaced(N, failed) /\ Closed(N, gaveUp, offered)
      /\ Track(N).turn = t /\ Track(N).step = 0
      /\ t \in gaveUp \/ Settled(N, t, offered)
  BY <1>1, <1>3, CloserFacts
<1>5. <<e>> \in Seq(Event) /\ DOMAIN <<e>> = {1} /\ <<e>>[1] = e
  BY Singleton
<1>6. J \o events = N \o <<e>>
  BY <1>1, <1>2, <1>3, <1>4, <1>5, EventsAssociate
<1>7. Placed(e, Track(N), failed)
  BY <1>1, <1>4 DEF Placed
<1>8. AllPlaced(N \o <<e>>, failed)
  BY <1>4, <1>7, PlacedAppend
<1>9. Track(N \o <<e>>).turn = t /\ Track(N \o <<e>>).step = IF e.type = "step/start" THEN e.step ELSE 0
  <2>1. Track(N) \in TrackerState /\ Track(N \o <<e>>) = Observe(Track(N), e)
    BY <1>4, TrackAppend
  <2> QED BY <1>4, <2>1, ObservePlace
<1>10. Closed(N \o <<e>>, gaveUp, offered)
  <2>1. \A m \in DOMAIN <<e>> : \A u : IsEnd(<<e>>[m], u) => u \in gaveUp
    BY <1>5 DEF IsEnd
  <2> QED BY <1>4, <1>5, <2>1, ClosedMore
<1>11. t \in gaveUp \/ Settled(N \o <<e>>, t, offered)
  <2>1. ASSUME t \notin gaveUp PROVE Settled(N \o <<e>>, t, offered)
    <3>1. PICK one, none : one = <<e>> /\ none = {}
      OBVIOUS
    <3>2. Left(N, t, offered, none)
      BY <1>4, <2>1, <3>1, LeftNothing
    <3>3. \A m \in DOMAIN one : \A id : Names(one[m], t, id) /\ Sole(offered, t, id) => id \in none
      BY <1>5, <3>1 DEF Names
    <3>4. one \in Seq(Event) /\ offered \subseteq offered
      BY <1>5, <3>1
    <3>5. \A id \in none : Sole(offered, t, id) =>
            id \in none \/ \E m \in DOMAIN one : IsAnswer(one[m], t, id)
      OBVIOUS
    <3>6. N \in Seq(Event)
      BY <1>4
    <3>7. Left(N \o one, t, offered, none)
      BY <3>2, <3>3, <3>4, <3>5, <3>6, LeftMore
    <3>8. Left(N \o <<e>>, t, offered, {})
      BY <3>1, <3>7
    <3> QED BY <3>8, LeftNothing
  <2> QED BY <2>1
<1>12. \A m \in DOMAIN events : events[m].turn = t /\ events[m].type # "turn/end"
  <2>1. ToSet(events) = ToSet(R) \cup ToSet(<<e>>)
    BY <1>1, <1>4, <1>5, EventsConcat
  <2>2. \A d \in ToSet(R) \cup ToSet(<<e>>) : d.turn = t /\ d.type # "turn/end"
    BY <1>1, <1>4, <1>5 DEF ToSet
  <2>3. \A m \in DOMAIN events : events[m] \in ToSet(events)
    BY DEF ToSet
  <2> QED BY <2>1, <2>2, <2>3
<1> QED BY <1>1, <1>6, <1>8, <1>9, <1>10, <1>11, <1>12

-----------------------------------------------------------------------------
(* The actions *)

(* An empty queue has no call waiting.                                     *)
LEMMA NoneWaiting ==
    ASSUME todo' = <<>>
    PROVE  Waiting' = {}
<1>1. DOMAIN todo' = {}
  OBVIOUS
<1> QED BY <1>1 DEF Waiting

(* What is settled stays so, whatever else is asked for.                    *)
LEMMA SettledLeft ==
    ASSUME NEW L, NEW t, Settled(L, t, offered), offered' = offered, todo' = <<>>
    PROVE  Left(L, t, offered', Waiting')
<1>1. Left(L, t, offered, {}) /\ Waiting' = {}
  BY LeftNothing, NoneWaiting
<1> QED BY <1>1

(* What closes a step, and what opens the next: between two responses.      *)
LEMMA BracketKeeps ==
    ASSUME IInv, Transcript, pc \in {"request", "retry", "stream"},
           pc' \in {"request", "retry", "stream"},
           NEW r \in Recorder, r.turn = rec.turn, r.error = rec.error, ~r.text, r.step # 0,
           NEW events \in Seq(Event), Record(r, events) \/ RecordFlush(r, events),
           UNCHANGED <<todo, offered, gaveUp, spoiled>>,
           ~fatal /\ ~rec.error =>
              \/ ~r.open /\ events = StepClosers(rec)
              \/ \E e \in Event :
                    /\ e.type \in {"user/message", "step/start"} /\ e.turn = rec.turn
                    /\ events = StepClosers(rec) \o <<e>>
                    /\ IF e.type = "step/start" THEN r.open /\ e.step = r.step ELSE ~r.open
    PROVE  Transcript'
<1>1. Running /\ Running' /\ todo = <<>> /\ todo' = <<>>
  BY DEF Running, IInv, ShapeInv
<1>2. ASSUME ~fatal, ~rec.error
      PROVE  /\ \A m \in DOMAIN events :
                    events[m].turn = rec.turn /\ events[m].type # "turn/end"
             /\ AllPlaced(Journal \o events, Spoiled)
             /\ Closed(Journal \o events, gaveUp, offered)
             /\ Track(Journal \o events).turn = rec.turn
             /\ Track(Journal \o events).step = IF r.open THEN r.step ELSE 0
             /\ rec.turn \in gaveUp \/ Settled(Journal \o events, rec.turn, offered)
  <2>1. CASE ~r.open /\ events = StepClosers(rec)
    BY <1>1, <1>2, <2>1, CloserFacts
  <2>2. CASE \E e \in Event :
                /\ e.type \in {"user/message", "step/start"} /\ e.turn = rec.turn
                /\ events = StepClosers(rec) \o <<e>>
                /\ IF e.type = "step/start" THEN r.open /\ e.step = r.step ELSE ~r.open
    <3>1. PICK e \in Event :
                /\ e.type \in {"user/message", "step/start"} /\ e.turn = rec.turn
                /\ events = StepClosers(rec) \o <<e>>
                /\ IF e.type = "step/start" THEN r.open /\ e.step = r.step ELSE ~r.open
      BY <2>2
    <3> QED BY <1>1, <1>2, <3>1, OpenerFacts
  <2> QED BY <1>2, <2>1, <2>2
<1>3. ~fatal /\ ~rec.error =>
         rec.turn \in gaveUp' \/ Left(Journal \o events, rec.turn, offered', Waiting')
  BY <1>1, <1>2, SettledLeft
<1>4. pc' \notin {"ask", "denied"}
  OBVIOUS
<1> QED BY <1>1, <1>2, <1>3, <1>4, RecorderKeeps

(* A steering message closes the step and stands behind it.                *)
LEMMA ApplySteeringComplete ==
    ASSUME IInv, Transcript, ApplySteering
    PROVE  Transcript'
<1> USE DEF ApplySteering
<1>1. Running /\ TypeInv /\ pc # "finish" /\ rec.step # 0 /\ rec \in Recorder
  BY DEF Running, IInv, Transcript, PlaceInv, TypeInv
<1>2. PICK r, e, events :
         /\ r = StepClosed(rec) /\ e = User(rec.turn, StepClosed(rec).step)
         /\ events = StepClosers(rec) \o <<e>>
  OBVIOUS
<1>3. /\ r \in Recorder /\ r.turn = rec.turn /\ r.error = rec.error /\ ~r.text
      /\ r.step \in Nat /\ ~r.open /\ StepClosers(rec) \in Seq(Event)
  BY <1>1, <1>2, ClosedFacts
<1>4. r.step # 0
  <2>1. rec.step \in Nat
    BY <1>1 DEF Recorder
  <2>2. r.step = rec.step \/ r.step = rec.step + 1
    BY <1>1, <1>2 DEF StepClosed, Recorder
  <2> QED BY <1>1, <2>1, <2>2
<1>5. e \in Event /\ e.turn = rec.turn /\ e.type = "user/message"
  <2>1. e \in Event
    BY <1>1, <1>2, <1>3, RunningBegun, EventTyped
  <2> QED BY <1>2, <2>1 DEF User
<1>6. events \in Seq(Event)
  <2>1. <<e>> \in Seq(Event)
    BY <1>5, Singleton
  <2> QED BY <1>2, <1>3, <2>1, EventsConcat
<1>7. RecordFlush(r, events)
  BY <1>2
<1>8. pc = "request" /\ pc' = "request" /\ UNCHANGED <<todo, offered, gaveUp, spoiled>>
  OBVIOUS
<1> HIDE DEF ApplySteering
<1> QED BY <1>2, <1>3, <1>4, <1>5, <1>6, <1>7, <1>8, BracketKeeps

(* A context boundary writes what closes the step it meets.                *)
LEMMA ContextBoundaryComplete ==
    ASSUME IInv, Transcript, ContextBoundary
    PROVE  Transcript'
<1> USE DEF ContextBoundary, history
<1>1. Running /\ TypeInv /\ pc # "finish" /\ rec.step # 0 /\ rec \in Recorder
  BY DEF Running, IInv, Transcript, PlaceInv, TypeInv
<1>2. PICK r, events : r = StepClosed(rec) /\ events = StepClosers(rec)
  OBVIOUS
<1>3. /\ r \in Recorder /\ r.turn = rec.turn /\ r.error = rec.error /\ ~r.text
      /\ ~r.open /\ events \in Seq(Event)
  BY <1>1, <1>2, ClosedFacts
<1>4. r.step # 0
  <2>1. rec.step \in Nat
    BY <1>1 DEF Recorder
  <2>2. r.step = rec.step \/ r.step = rec.step + 1
    BY <1>1, <1>2 DEF StepClosed, Recorder
  <2> QED BY <1>1, <2>1, <2>2
<1>5. RecordFlush(r, events)
  BY <1>2
<1>6. pc \in {"request", "stream"} /\ pc' \in {"request", "retry"}
      /\ UNCHANGED <<todo, offered, gaveUp, spoiled>>
  OBVIOUS
<1> HIDE DEF ContextBoundary
<1> QED BY <1>2, <1>3, <1>4, <1>5, <1>6, BracketKeeps

(* A request closes the step in front of it and opens the next one.        *)
LEMMA ModelRequestedComplete ==
    ASSUME IInv, Transcript, ModelRequested
    PROVE  Transcript'
<1> USE DEF ModelRequested, history
<1>1. Running /\ TypeInv /\ pc # "finish" /\ rec.step # 0 /\ rec \in Recorder
  BY DEF Running, IInv, Transcript, PlaceInv, TypeInv
<1>2. PICK q, r, e, events :
         /\ q = StepClosed(rec) /\ r = StepOpened(q) /\ e = StepStart(rec.turn, q.step)
         /\ events = StepClosers(rec) \o <<e>>
  OBVIOUS
<1>3. /\ q \in Recorder /\ q.turn = rec.turn /\ q.error = rec.error
      /\ q.step \in Nat /\ StepClosers(rec) \in Seq(Event)
  BY <1>1, <1>2, ClosedFacts
<1>4. q.step # 0
  <2>1. rec.step \in Nat
    BY <1>1 DEF Recorder
  <2>2. q.step = rec.step \/ q.step = rec.step + 1
    BY <1>1, <1>2 DEF StepClosed, Recorder
  <2> QED BY <1>1, <2>1, <2>2
<1>5. /\ r \in Recorder /\ r.turn = rec.turn /\ r.error = rec.error /\ ~r.text
      /\ r.step = q.step /\ r.open
  <2>1. r.turn = q.turn /\ r.error = q.error /\ ~r.text /\ r.step = q.step /\ r.open
    BY <1>2, <1>3 DEF StepOpened, Recorder
  <2> QED BY <1>2, <1>3, <2>1, RecorderTyped
<1>6. e \in Event /\ e.turn = rec.turn /\ e.type = "step/start" /\ e.step = r.step
  <2>1. e \in Event
    BY <1>1, <1>2, <1>3, RunningBegun, EventTyped
  <2> QED BY <1>2, <1>5, <2>1 DEF StepStart
<1>7. events \in Seq(Event)
  <2>1. <<e>> \in Seq(Event)
    BY <1>6, Singleton
  <2> QED BY <1>2, <1>3, <2>1, EventsConcat
<1>8. Record(r, events)
  BY <1>2
<1>9. pc \in {"request", "retry"} /\ pc' = "stream"
      /\ UNCHANGED <<todo, offered, gaveUp, spoiled>>
  OBVIOUS
<1> HIDE DEF ModelRequested
<1>10. r.step # 0
  BY <1>4, <1>5
<1> QED BY <1>2, <1>5, <1>6, <1>7, <1>8, <1>9, <1>10, BracketKeeps

(* A step that changes nothing of this.                                     *)
LEMMA SameTranscript ==
    ASSUME Transcript, Journal' = Journal,
           UNCHANGED <<fatal, rec, pc, todo, spoiled, gaveUp, offered>>
    PROVE  Transcript'
<1>1. PlaceInv /\ OwedInv
  BY DEF Transcript
<1>2. /\ fatal' = fatal /\ rec' = rec /\ pc' = pc /\ todo' = todo
      /\ spoiled' = spoiled /\ gaveUp' = gaveUp /\ offered' = offered
  OBVIOUS
<1>3. /\ AllPlaced(Journal, Spoiled)' /\ Final(Journal)'
      /\ Track(Journal)' = Track(Journal)
  <2>1. Spoiled' = Spoiled
    BY <1>2 DEF Spoiled
  <2> QED BY <1>1, <2>1 DEF PlaceInv, AllPlaced, Final, Track
<1>4. PlaceInv'
  BY <1>1, <1>2, <1>3 DEF PlaceInv, Running
<1>5. Closed(Journal, gaveUp, offered)'
  BY <1>1, <1>2 DEF OwedInv, Closed
<1>6. Waiting' = Waiting
  BY <1>2 DEF Waiting
<1>7. (Running /\ ~fatal /\ ~rec.error =>
         rec.turn \in gaveUp \/ Left(Journal, rec.turn, offered, Waiting))'
  BY <1>1, <1>2, <1>6 DEF OwedInv, Running, Left
<1>8. OwedInv'
  BY <1>1, <1>2, <1>5, <1>7 DEF OwedInv
<1> QED BY <1>4, <1>8 DEF Transcript

(* A step that changes nothing.                                            *)
LEMMA StutterComplete ==
    ASSUME Transcript, UNCHANGED vars
    PROVE  Transcript'
<1>1. UNCHANGED <<log, buffer, fatal, rec, pc, todo, spoiled, gaveUp, offered>>
  BY DEF vars, journal, history
<1>2. Journal' = Journal
  BY <1>1 DEF Journal
<1> QED BY <1>1, <1>2, SameTranscript

(* The write-behind queue moves events from the buffer to the log.         *)
LEMMA DrainComplete ==
    ASSUME IInv, Transcript, Drain
    PROVE  Transcript'
<1>1. Journal' = Journal
  BY DrainFacts DEF IInv
<1>2. UNCHANGED <<fatal, rec, pc, todo, spoiled, gaveUp, offered>>
  BY DEF Drain, history
<1> QED BY <1>1, <1>2, SameTranscript

(* A cancellation is only noted.                                           *)
LEMMA CancelComplete ==
    ASSUME IInv, Transcript, Cancel
    PROVE  Transcript'
<1>1. UNCHANGED <<log, buffer, fatal, rec, pc, todo, spoiled, gaveUp, offered>>
  BY DEF Cancel, journal, history
<1>2. Journal' = Journal
  BY <1>1 DEF Journal
<1> QED BY <1>1, <1>2, SameTranscript

(* A run that stops before it is complete gives up.                         *)
LEMMA StopsComplete ==
    ASSUME IInv, Transcript, pc \in {"request", "retry", "tools", "running"},
           NEW r, SamePlace(r), r.error = rec.error,
           NEW terminal \in Terminals, terminal # "completed", Stops(r, terminal)
    PROVE  Transcript'
<1> USE DEF Stops, Ends
<1>1. UNCHANGED journal /\ Running /\ Running' /\ pc' = "finish"
  BY DEF Running
<1>2. SamePlace(rec') /\ rec'.error = rec.error
  <2>1. rec' = [r EXCEPT !.terminal = terminal] /\ TypeInv
    BY DEF IInv
  <2>2. SamePlace(rec')
    BY <2>1, SamePlaceFacts
  <2>3. rec'.error = r.error
    BY <2>1 DEF SamePlace, Recorder
  <2> QED BY <2>2, <2>3
<1>3. rec.turn \in gaveUp' /\ gaveUp \subseteq gaveUp' /\ spoiled' = spoiled /\ offered' = offered
  OBVIOUS
<1>4. rec'.turn = rec.turn /\ rec'.step = rec.step /\ rec'.open = rec.open
  BY <1>2 DEF SamePlace
<1> HIDE DEF Stops, Ends
<1> QED BY <1>1, <1>2, <1>3, <1>4, SilentKeeps

(* A run that stops in front of a request has no call waiting.             *)
LEMMA StopBeforeRequestComplete ==
    ASSUME IInv, Transcript, StopBeforeRequest
    PROVE  Transcript'
<1>1. SamePlace(rec)
  BY SamePlaceFacts DEF IInv
<1>2. /\ pc \in {"request", "retry"}
      /\ \E terminal \in Terminals : terminal # "completed" /\ Stops(rec, terminal)
  BY DEF StopBeforeRequest, Terminals
<1>3. PICK terminal \in Terminals : terminal # "completed" /\ Stops(rec, terminal)
  BY <1>2
<1>4. PICK r : r = rec
  OBVIOUS
<1>5. Stops(r, terminal)
  BY <1>3, <1>4 DEF Stops
<1> QED BY <1>1, <1>2, <1>3, <1>4, <1>5, StopsComplete

(* A run that stops in front of a call gives its calls up.                 *)
LEMMA StopBeforeToolComplete ==
    ASSUME IInv, Transcript, StopBeforeTool
    PROVE  Transcript'
<1>1. SamePlace(rec)
  BY SamePlaceFacts DEF IInv
<1>2. pc = "tools" /\ Stops(rec, "cancelled") /\ "cancelled" \in Terminals
  BY DEF StopBeforeTool, Terminals
<1>3. PICK r : r = rec
  OBVIOUS
<1>4. Stops(r, "cancelled")
  BY <1>2, <1>3 DEF Stops
<1> QED BY <1>1, <1>2, <1>3, <1>4, StopsComplete

(* A stream that is cut keeps its text, and the run is one that gave up.   *)
LEMMA StreamCutComplete ==
    ASSUME IInv, Transcript, StreamCut
    PROVE  Transcript'
<1> USE DEF StreamCut
<1>1. UNCHANGED journal /\ Running /\ Running' /\ pc = "stream" /\ pc' = "finish"
  BY DEF Running
<1>2. PICK calls \in Responses[rec.turn][rec.step] : \E r \in Streamed(calls) : \E text \in BOOLEAN :
         /\ rec' = [r EXCEPT !.text = text, !.completed = calls, !.terminal = "failed"]
         /\ Offer(calls)
  OBVIOUS
<1>3. PICK r \in Streamed(calls) : \E text \in BOOLEAN :
         rec' = [r EXCEPT !.text = text, !.completed = calls, !.terminal = "failed"]
  BY <1>2
<1>4. PICK text \in BOOLEAN :
         rec' = [r EXCEPT !.text = text, !.completed = calls, !.terminal = "failed"]
  BY <1>3
<1>5. SamePlace(r) /\ r.error = rec.error
  BY <1>1, StreamedFacts
<1>6. rec'.turn = rec.turn /\ rec'.step = rec.step /\ rec'.open = rec.open /\ rec'.error = rec.error
  BY <1>4, <1>5 DEF SamePlace, Recorder
<1>7. offered \subseteq offered'
  BY <1>2 DEF Offer
<1>8. rec.turn \in gaveUp' /\ gaveUp \subseteq gaveUp' /\ spoiled' = spoiled
  OBVIOUS
<1>9. pc' \notin {"ask", "denied"}
  OBVIOUS
<1> HIDE DEF StreamCut
<1> QED BY <1>1, <1>6, <1>7, <1>8, <1>9, SilentKeeps

(* Nobody minds a call of which there are two.                              *)
LEMMA SoleUnique ==
    \A t, id : Sole(offered, t, id) => Unique(t, id)
  BY DEF Sole, Unique

(* What waits may be given by any set that holds the sole calls of it.     *)
LEMMA LeftSame ==
    ASSUME NEW L, NEW t, NEW asked, NEW ids, NEW new, Left(L, t, asked, ids),
           \A id \in ids : Sole(asked, t, id) => id \in new
    PROVE  Left(L, t, asked, new)
  BY DEF Left

(* The next step starts when no call waits.                                *)
LEMMA NextStepComplete ==
    ASSUME IInv, Transcript, NextStep
    PROVE  Transcript'
<1> USE DEF NextStep, ToolVars, history
<1>1. UNCHANGED journal /\ Running /\ Running' /\ pc' = "request" /\ todo' = todo /\ todo = <<>>
      /\ rec' = rec /\ spoiled' = spoiled /\ gaveUp' = gaveUp /\ offered' = offered
  BY DEF Running
<1>2. Waiting' = Waiting
  BY <1>1 DEF Waiting
<1>3. ~fatal /\ ~rec.error => rec.turn \in gaveUp \/ Left(Journal, rec.turn, offered, Waiting)
  BY <1>1 DEF Transcript, OwedInv
<1>4. rec.text => rec.turn \in gaveUp
  BY DEF Transcript, OwedInv
<1> HIDE DEF NextStep
<1> QED BY <1>1, <1>2, <1>3, <1>4, SilentKeeps

(* A stashed call is among those stashed.                                  *)
LEMMA StashPuts ==
    ASSUME NEW r \in Recorder, NEW c \in ToolCall
    PROVE  c \in ToSet(Stash(r, c).stashed)
<1>1. r.stashed \in Seq(ToolCall) /\ \A x : [r EXCEPT !.stashed = x].stashed = x
  BY DEF Recorder
<1>2. CASE \E i \in DOMAIN r.stashed : r.stashed[i].id = c.id
  <2>1. Stash(r, c).stashed =
          [i \in DOMAIN r.stashed |-> IF r.stashed[i].id = c.id THEN c ELSE r.stashed[i]]
    BY <1>1, <1>2 DEF Stash
  <2>2. PICK i \in DOMAIN r.stashed : r.stashed[i].id = c.id
    BY <1>2
  <2> QED BY <2>1, <2>2 DEF ToSet
<1>3. CASE ~\E i \in DOMAIN r.stashed : r.stashed[i].id = c.id
  <2>1. Stash(r, c).stashed = Append(r.stashed, c)
    BY <1>1, <1>3 DEF Stash
  <2> QED BY <1>1, <2>1, ToSetAppend
<1> QED BY <1>2, <1>3

(* What is written inside a step: the calls that no longer wait are         *)
(* answered by it.                                                          *)
LEMMA InnerKeeps ==
    ASSUME IInv, Transcript, Running, Running', rec.open,
           NEW r \in Recorder, r.turn = rec.turn, r.step = rec.step, r.open = rec.open,
           r.error = rec.error, ~r.text,
           NEW events \in Seq(Event), Record(r, events) \/ RecordFlush(r, events),
           \A m \in DOMAIN events : /\ events[m].type \in Inner
                                    /\ events[m].turn = rec.turn /\ events[m].step = rec.step,
           spoiled' = spoiled, gaveUp \subseteq gaveUp', offered \subseteq offered',
           \A m \in DOMAIN events : \A id :
              Names(events[m], rec.turn, id) /\ Sole(offered', rec.turn, id) => id \in Waiting',
           \A id \in Waiting : Sole(offered', rec.turn, id) =>
              id \in Waiting' \/ \E m \in DOMAIN events : IsAnswer(events[m], rec.turn, id),
           pc' \in {"ask", "denied"} => todo'[1] \in ToSet(r.stashed)
    PROVE  Transcript'
<1>1. TypeInv /\ PlaceInv /\ OwedInv /\ Journal \in Seq(Event)
  BY JournalTyped DEF IInv, Transcript
<1>2. ASSUME ~fatal, ~rec.error
      PROVE  /\ \A m \in DOMAIN events :
                   events[m].turn = rec.turn /\ events[m].type # "turn/end"
             /\ AllPlaced(Journal \o events, Spoiled)
             /\ Closed(Journal \o events, gaveUp', offered')
             /\ Track(Journal \o events).turn = rec.turn
             /\ Track(Journal \o events).step = IF r.open THEN r.step ELSE 0
             /\ rec.turn \in gaveUp' \/ Left(Journal \o events, rec.turn, offered', Waiting')
  <2>1. /\ \A m \in DOMAIN events :
               events[m].turn = rec.turn /\ events[m].type # "turn/end"
        /\ AllPlaced(Journal \o events, Spoiled)
        /\ Closed(Journal \o events, gaveUp, offered)
        /\ Track(Journal \o events).turn = rec.turn
        /\ Track(Journal \o events).step = rec.step
    BY <1>2, InnerFacts
  <2>2. PICK J, N, t, now, new :
           /\ J = Journal /\ N = J \o events /\ t = rec.turn /\ now = offered' /\ new = Waiting'
    OBVIOUS
  <2>3. N \in Seq(Event) /\ Begins(N, N) /\ J \in Seq(Event)
    BY <1>1, <2>2, EventsConcat, EventBegins
  <2>4. Closed(N, gaveUp', now)
    <3>1. PICK given, more, asked : given = gaveUp /\ more = gaveUp' /\ asked = offered
      OBVIOUS
    <3>2. given \subseteq more /\ asked \subseteq now /\ Closed(N, given, asked)
      BY <2>1, <2>2, <3>1
    <3>3. Closed(N, more, now)
      BY <2>3, <3>2, ClosedPrefix
    <3> QED BY <3>1, <3>3
  <2>5. t \in gaveUp \/ Left(J, t, offered, Waiting)
    BY <1>1, <1>2, <2>2 DEF OwedInv
  <2>6. Left(J, t, offered, Waiting) => Left(N, t, now, new)
    BY <2>2, <2>3, LeftMore
  <2> QED BY <2>1, <2>2, <2>4, <2>5, <2>6
<1>3. r.step # 0
  BY <1>1 DEF PlaceInv
<1> QED BY <1>2, <1>3, RecorderKeeps

(* The call at the head of the queue.                                       *)
LEMMA HeadFacts ==
    ASSUME IInv, todo # <<>>
    PROVE  /\ TypeInv /\ Running /\ rec.open /\ ~rec.text /\ rec \in Recorder
           /\ rec.turn \in Nat /\ rec.step \in Nat
           /\ 1 \in DOMAIN todo /\ Head(todo) = todo[1] /\ todo[1] \in ToolCall
           /\ \A i \in DOMAIN todo : todo[i].id \in Ids
           /\ \A i \in DOMAIN todo : i # 1 =>
                 \E j \in DOMAIN Tail(todo) : Tail(todo)[j] = todo[i]
<1>1. TypeInv /\ ShapeInv /\ AskedLocal
  BY DEF IInv, AskedInv
<1>2. pc \in {"tools", "ask", "denied", "start", "invoke", "running"} /\ ~rec.text
  BY <1>1 DEF ShapeInv
<1>3. Running /\ rec.open
  BY <1>1, <1>2 DEF Running, AskedLocal
<1>4. rec \in Recorder
  BY <1>1 DEF TypeInv
<1>5. /\ 1 \in DOMAIN todo /\ Head(todo) = todo[1] /\ Head(todo) \in ToolCall
      /\ \A i \in DOMAIN todo : todo[i].id \in Ids
      /\ DOMAIN todo = 1 .. Len(todo) /\ Len(todo) \in Nat
      /\ DOMAIN Tail(todo) = 1 .. Len(todo) - 1
      /\ \A i \in DOMAIN Tail(todo) : Tail(todo)[i] = todo[i + 1]
  BY <1>1, TodoFacts
<1>6. ASSUME NEW i \in DOMAIN todo, i # 1
      PROVE  \E j \in DOMAIN Tail(todo) : Tail(todo)[j] = todo[i]
  <2>1. PICK j : j = i - 1
    OBVIOUS
  <2>2. j \in 1 .. Len(todo) - 1 /\ j + 1 = i
    BY <1>5, <1>6, <2>1
  <2>3. j \in DOMAIN Tail(todo)
    BY <1>5, <2>2
  <2> QED BY <1>5, <2>2, <2>3
<1> QED BY <1>1, <1>2, <1>3, <1>4, <1>5, <1>6, RunningBegun

(* Only the approver has written of a call before it starts.                *)
LEMMA HeadUnjournaled ==
    ASSUME IInv, todo # <<>>, pc \notin {"start", "invoke", "running", "denied"}
    PROVE  \A i \in DOMAIN todo :
              Sole(offered, rec.turn, todo[i].id) => todo[i].id \notin rec.journaled
<1>1. BarrierLocal
  BY DEF IInv, BarrierInv
<1> QED BY <1>1, SoleUnique DEF BarrierLocal

\* The queue stays, and what waits in it.
LEMMA QueueWaits ==
    ASSUME IInv, Transcript, Running, todo' = todo, offered' = offered,
           pc' = "denied" =>
              \A i \in DOMAIN todo :
                 i = 1 /\ Sole(offered, rec.turn, todo[i].id) => todo[i].id \notin rec'.journaled
    PROVE  /\ \A id \in Waiting : Sole(offered, rec.turn, id) => id \in Waiting'
           /\ ~fatal /\ ~rec.error =>
                rec.turn \in gaveUp \/ Left(Journal, rec.turn, offered', Waiting')
<1>1. ASSUME NEW id \in Waiting, Sole(offered, rec.turn, id) PROVE id \in Waiting'
  <2>1. PICK m \in DOMAIN todo : todo[m].id = id
    BY <1>1 DEF Waiting
  <2>2. m \in DOMAIN todo' /\ todo'[m].id = id
    BY <2>1
  <2>3. m = 1 /\ pc' = "denied" => id \notin rec'.journaled
    BY <1>1, <2>1
  <2> QED BY <2>2, <2>3 DEF Waiting
<1>2. ~fatal /\ ~rec.error => rec.turn \in gaveUp \/ Left(Journal, rec.turn, offered, Waiting)
  BY DEF Transcript, OwedInv
<1>3. Left(Journal, rec.turn, offered, Waiting) => Left(Journal, rec.turn, offered, Waiting')
  BY <1>1, LeftSame
<1> QED BY <1>1, <1>2, <1>3

(* A request for a tool stashes its call, which goes on waiting.           *)
LEMMA ToolRequestedComplete ==
    ASSUME IInv, Transcript, ToolRequested
    PROVE  Transcript'
<1> USE DEF ToolRequested
<1>1. pc = "tools" /\ todo # <<>> /\ TypeInv /\ "failed" \in Terminals
  BY DEF IInv, Terminals
<1>2. PICK r : r = Stash(rec, Head(todo))
  OBVIOUS
<1>3. SamePlace(r) /\ r.journaled = rec.journaled /\ r.error = rec.error
  BY <1>1, <1>2, TodoFacts, SamePlaceFacts
<1>4. CASE Stops(r, "failed")
  BY <1>1, <1>3, <1>4, StopsComplete
<1>5. CASE /\ pc' \in {"denied", "start", "ask"} /\ rec' = r
           /\ UNCHANGED journal \/ \E ok \in BOOLEAN : Durably(<<>>, ok)
           /\ UNCHANGED ToolVars
  <2>1. todo' = todo /\ offered' = offered /\ spoiled' = spoiled /\ gaveUp' = gaveUp
    BY <1>5 DEF ToolVars, history
  <2>2. /\ rec'.turn = rec.turn /\ rec'.step = rec.step /\ rec'.open = rec.open
        /\ rec'.error = rec.error /\ ~rec'.text /\ rec'.journaled = rec.journaled
    BY <1>1, <1>3, <1>5, HeadFacts DEF SamePlace
  <2>3. todo'[1] \in ToSet(rec'.stashed)
    <3>1. Head(todo) \in ToSet(Stash(rec, Head(todo)).stashed)
      BY <1>1, HeadFacts, StashPuts
    <3> QED BY <1>1, <1>2, <1>5, <2>1, <3>1, HeadFacts
  <2>4. ~fatal /\ ~rec.error =>
           rec.turn \in gaveUp \/ Left(Journal, rec.turn, offered', Waiting')
    <3>1. \A i \in DOMAIN todo :
             Sole(offered, rec.turn, todo[i].id) => todo[i].id \notin rec'.journaled
      BY <1>1, <2>2, HeadUnjournaled
    <3> QED BY <1>1, <2>1, <3>1, HeadFacts, QueueWaits
  <2>5. Running /\ Running'
    BY <1>1, <1>5 DEF Running
  <2> HIDE DEF ToolRequested
  <2> QED BY <1>5, <2>1, <2>2, <2>3, <2>4, <2>5, SilentKeeps
<1>6. \/ Stops(r, "failed")
      \/ /\ pc' \in {"denied", "start", "ask"} /\ rec' = r
         /\ UNCHANGED journal \/ \E ok \in BOOLEAN : Durably(<<>>, ok)
         /\ UNCHANGED ToolVars
  BY <1>2
<1> QED BY <1>4, <1>5, <1>6

(* The invocation writes nothing.                                          *)
LEMMA InvokeComplete ==
    ASSUME IInv, Transcript, Invoke
    PROVE  Transcript'
<1> USE DEF Invoke
<1>1. pc = "invoke" /\ pc' = "running" /\ todo # <<>> /\ UNCHANGED journal
      /\ UNCHANGED <<rec, todo, offered, gaveUp, spoiled>>
  BY DEF IInv, ShapeInv
<1>2. Running /\ Running' /\ ~rec.text
  BY <1>1, HeadFacts DEF Running
<1> HIDE DEF Invoke
<1>3. ~fatal /\ ~rec.error => rec.turn \in gaveUp \/ Left(Journal, rec.turn, offered', Waiting')
  BY <1>1, <1>2, QueueWaits
<1> QED BY <1>1, <1>2, <1>3, SilentKeeps

(* The barrier in front of an execution is no answer, and its call waits.  *)
LEMMA ToolStartedComplete ==
    ASSUME IInv, Transcript, ToolStarted
    PROVE  Transcript'
<1> USE DEF ToolStarted
<1>1. pc = "start" /\ pc' = "invoke" /\ todo # <<>>
      /\ UNCHANGED <<todo, offered, gaveUp, spoiled>>
  BY DEF IInv, ShapeInv
<1>2. Running /\ Running' /\ ~rec.text /\ TypeInv /\ rec \in Recorder /\ rec.open
  BY <1>1, HeadFacts DEF Running
<1>3. /\ \A id \in Waiting : Sole(offered, rec.turn, id) => id \in Waiting'
      /\ ~fatal /\ ~rec.error => rec.turn \in gaveUp \/ Left(Journal, rec.turn, offered', Waiting')
  <2> HIDE DEF ToolStarted
  <2> QED BY <1>1, <1>2, QueueWaits
<1>4. CASE Head(todo).id \in rec.journaled
  <2>1. UNCHANGED journal /\ rec' = rec
    BY <1>4
  <2> HIDE DEF ToolStarted
  <2> QED BY <1>1, <1>2, <1>3, <2>1, SilentKeeps
<1>5. CASE Head(todo).id \notin rec.journaled
  <2>1. PICK e, r, events : e = Called(rec.turn, rec.step, todo[1].id) /\ r = rec /\ events = <<e>>
    OBVIOUS
  <2>2. RecordFlush(r, events)
    BY <1>1, <1>5, <2>1, HeadFacts
  <2>3. e \in Event /\ e.type = "tool/call" /\ e.turn = rec.turn /\ e.step = rec.step
    BY <1>1, <2>1, HeadFacts, EventTyped DEF Called
  <2>4. /\ events \in Seq(Event)
        /\ \A m \in DOMAIN events : events[m] = e
    BY <2>1, <2>3, Singleton
  <2>5. \A m \in DOMAIN events : /\ events[m].type \in Inner
                                 /\ events[m].turn = rec.turn /\ events[m].step = rec.step
                                 /\ \A id : ~Names(events[m], rec.turn, id)
    BY <2>3, <2>4 DEF Inner, Names
  <2>6. r \in Recorder /\ r.turn = rec.turn /\ r.step = rec.step /\ r.open = rec.open
        /\ r.error = rec.error /\ ~r.text
    BY <1>2, <2>1
  <2>7. pc' \notin {"ask", "denied"}
    BY <1>1
  <2> HIDE DEF ToolStarted
  <2> QED BY <1>1, <1>2, <1>3, <2>2, <2>4, <2>5, <2>6, <2>7, InnerKeeps
<1> QED BY <1>4, <1>5

(* The decision is about the first call that waits, which is stashed.      *)
LEMMA DecideComplete ==
    ASSUME IInv, Transcript, Decide
    PROVE  Transcript'
<1>1. pc = "ask" /\ todo # <<>> /\ pc' \in {"start", "denied"}
      /\ UNCHANGED <<todo, offered, gaveUp, spoiled>>
  BY DEF Decide, IInv, ShapeInv, ToolVars, history
<1>2. /\ Running /\ Running' /\ TypeInv /\ rec \in Recorder /\ rec.open /\ ~rec.text
      /\ rec.turn \in Nat /\ rec.step \in Nat /\ PlaceInv /\ OwedInv /\ rec.step # 0
      /\ Head(todo) = todo[1] /\ todo[1].id \in Ids /\ 1 \in DOMAIN todo
  BY <1>1, HeadFacts DEF Running, Transcript, PlaceInv
<1>3. PICK id, t : id = todo[1].id /\ t = rec.turn
  OBVIOUS
<1>4. \E allow, ok \in BOOLEAN :
          /\ Durably(IF allow THEN <<Called(rec.turn, rec.step, id)>>
                     ELSE <<Result(rec.turn, rec.step, id, "denied")>>, ok)
          /\ rec' = IF ok THEN [rec EXCEPT !.journaled = @ \cup {id}] ELSE rec
          /\ pc' = IF allow /\ ok THEN "start" ELSE "denied"
  BY <1>2, <1>3 DEF Decide
<1>5. PICK allow \in BOOLEAN, ok \in BOOLEAN :
          /\ Durably(IF allow THEN <<Called(rec.turn, rec.step, id)>>
                     ELSE <<Result(rec.turn, rec.step, id, "denied")>>, ok)
          /\ rec' = IF ok THEN [rec EXCEPT !.journaled = @ \cup {id}] ELSE rec
          /\ pc' = IF allow /\ ok THEN "start" ELSE "denied"
  BY <1>4
<1>6. PICK e, events : /\ e = IF allow THEN Called(rec.turn, rec.step, id)
                                ELSE Result(rec.turn, rec.step, id, "denied")
                       /\ events = <<e>>
  OBVIOUS
<1>7. /\ e \in Event /\ e.turn = t /\ e.step = rec.step /\ e.id = id
      /\ e.type = IF allow THEN "tool/call" ELSE "tool/result"
  <2>1. e \in Event
    BY <1>2, <1>3, <1>6, EventTyped DEF Answers
  <2>2. e.turn = rec.turn /\ e.step = rec.step /\ e.id = id
        /\ e.type = IF allow THEN "tool/call" ELSE "tool/result"
    BY <1>6 DEF Called, Result
  <2> QED BY <1>3, <2>1, <2>2
<1>8. Durably(events, ok)
  BY <1>5, <1>6
<1>9. events \in Seq(Event) /\ DOMAIN events = {1} /\ events[1] = e
  BY <1>6, <1>7, Singleton
<1>10. /\ Grown(events)
       /\ ~fatal' => Journal' = Journal \o events /\ ~fatal
  BY <1>2, <1>8, <1>9, DurablyFacts
<1>11. fatal => Begins(Journal', Journal)
  <2>1. fatal => Journal' = Journal
    BY <1>8 DEF Durably, journal, Journal
  <2> QED BY <1>2, <1>9, <1>10, <2>1, GrownBegins, EventBegins
<1>12. /\ rec'.turn = rec.turn /\ rec'.step = rec.step /\ rec'.open = rec.open
       /\ ~rec'.text /\ rec'.stashed = rec.stashed /\ rec'.error = rec.error
       /\ rec'.journaled = IF ok THEN rec.journaled \cup {id} ELSE rec.journaled
  BY <1>2, <1>5 DEF Recorder
<1>13. ASSUME ~fatal
       PROVE  /\ \A m \in DOMAIN events :
                    events[m].turn = rec.turn /\ events[m].type # "turn/end"
              /\ AllPlaced(Journal \o events, Spoiled)
              /\ Closed(Journal \o events, gaveUp, offered)
              /\ Track(Journal \o events).turn = rec.turn
              /\ ~rec.error => Track(Journal \o events).step = rec.step
  <2>1. \A m \in DOMAIN events : /\ events[m].type \in Inner
                                 /\ events[m].turn = rec.turn /\ events[m].step = rec.step
    BY <1>3, <1>7, <1>9 DEF Inner
  <2> QED BY <1>2, <1>9, <1>13, <2>1, InnerFacts
<1>14. \A w \in Waiting : Sole(offered, t, w) =>
          w \in Waiting' \/ \E m \in DOMAIN events : IsAnswer(events[m], t, w)
  <2> SUFFICES ASSUME NEW w \in Waiting, Sole(offered, t, w), w \notin Waiting'
               PROVE  \E m \in DOMAIN events : IsAnswer(events[m], t, w)
    OBVIOUS
  <2>1. PICK m \in DOMAIN todo : todo[m].id = w
    BY DEF Waiting
  <2>2. m = 1 /\ pc' = "denied" /\ w \in rec'.journaled
    BY <1>1, <2>1 DEF Waiting
  <2>3. w \notin rec.journaled
    BY <1>1, <1>3, <2>1, HeadUnjournaled
  <2>4. ok /\ ~allow /\ w = id
    BY <1>3, <1>5, <1>12, <2>1, <2>2, <2>3
  <2> QED BY <1>7, <1>9, <2>4 DEF IsAnswer
<1>15. ~fatal' /\ ~rec'.error => t \in gaveUp \/ Left(Journal \o events, t, offered, Waiting')
  <2> SUFFICES ASSUME ~fatal', ~rec'.error, t \notin gaveUp
               PROVE  Left(Journal \o events, t, offered, Waiting')
    OBVIOUS
  <2>1. PICK J, asked, now, ids, new :
           /\ J = Journal /\ asked = offered /\ now = offered /\ ids = Waiting /\ new = Waiting'
    OBVIOUS
  <2>2. J \in Seq(Event) /\ Left(J, t, asked, ids)
    BY <1>2, <1>3, <1>10, <1>12, <2>1, JournalTyped DEF OwedInv
  <2>3. \A m \in DOMAIN events : \A w : ~Names(events[m], t, w)
    BY <1>7, <1>9 DEF Names
  <2>4. Left(J \o events, t, now, new)
    BY <1>9, <1>14, <2>1, <2>2, <2>3, LeftMore
  <2> QED BY <2>1, <2>4
<1>16. todo'[1] \in ToSet(rec'.stashed)
  BY <1>1, <1>2, <1>12 DEF OwedInv
<1>17. gaveUp' = gaveUp /\ offered' = offered /\ spoiled' = spoiled
  BY <1>1
<1>18. ~fatal' /\ ~rec'.error =>
         /\ Track(Journal \o events).step = IF rec'.open THEN rec'.step ELSE 0
         /\ rec.turn \in gaveUp' \/ Left(Journal \o events, rec.turn, offered', Waiting')
  BY <1>2, <1>3, <1>10, <1>12, <1>13, <1>15, <1>17
<1>19. \/ Begins(Journal', Journal)
       \/ /\ \A m \in DOMAIN events :
                events[m].turn = rec.turn /\ events[m].type # "turn/end"
          /\ ~fatal /\ AllPlaced(Journal \o events, Spoiled)
          /\ Closed(Journal \o events, gaveUp', offered')
  BY <1>11, <1>13, <1>17
<1>20. ~fatal /\ Journal' = Journal \o events => Track(Journal \o events).turn = rec.turn
  BY <1>13
<1> QED BY <1>2, <1>9, <1>10, <1>12, <1>16, <1>17, <1>18, <1>19, <1>20, RunKeeps

(* The calls behind the head of the queue still wait.                       *)
LEMMA TailWaits ==
    ASSUME IInv, todo # <<>>, todo' = Tail(todo), pc' # "denied"
    PROVE  \A m \in DOMAIN todo : m # 1 => todo[m].id \in Waiting'
<1> SUFFICES ASSUME NEW m \in DOMAIN todo, m # 1 PROVE todo[m].id \in Waiting'
  OBVIOUS
<1>1. PICK j \in DOMAIN Tail(todo) : Tail(todo)[j] = todo[m]
  BY HeadFacts
<1>2. j \in DOMAIN todo' /\ todo'[j] = todo[m]
  BY <1>1
<1> QED BY <1>2 DEF Waiting

(* A call that is stashed and of which nothing is written is found.         *)
LEMMA UnjournaledFound ==
    ASSUME NEW r \in Recorder, NEW c \in ToSet(r.stashed), c.id \notin r.journaled
    PROVE  UnjournaledByName(r, c.tool) # 0
<1> DEFINE I == {i \in 1 .. Len(r.stashed) :
                   r.stashed[i].tool = c.tool /\ r.stashed[i].id \notin r.journaled}
<1>1. UnjournaledByName(r, c.tool) = IF I # {} THEN Max(I) ELSE 0
  BY DEF UnjournaledByName, SelectLastInSeq
<1>2. Len(r.stashed) \in Nat /\ DOMAIN r.stashed = 1 .. Len(r.stashed)
  BY DEF Recorder
<1>3. I # {} /\ I \subseteq 1 .. Len(r.stashed)
  BY <1>2 DEF ToSet
<1>4. Max(I) # 0
  <2> HIDE DEF I
  <2>1. Max(I) \in I
    BY <1>2, <1>3, LastOf
  <2> QED BY <1>2, <1>3, <2>1
<1> QED BY <1>1, <1>3, <1>4

(* A denial answers the call it is about, when its tool was asked for once. *)
LEMMA PermissionDeniedComplete ==
    ASSUME IInv, Transcript, PermissionDenied
    PROVE  Transcript'
<1>1. pc = "denied" /\ todo # <<>> /\ pc' = "tools" /\ todo' = Tail(todo)
      /\ UNCHANGED <<offered, gaveUp, spoiled>>
  BY DEF PermissionDenied, IInv, ShapeInv, history
<1>2. /\ Running /\ Running' /\ TypeInv /\ rec \in Recorder /\ rec.open /\ ~rec.text
      /\ rec.turn \in Nat /\ rec.step \in Nat /\ OwedInv
      /\ Head(todo) = todo[1] /\ 1 \in DOMAIN todo
  BY <1>1, HeadFacts DEF Running, Transcript
<1>3. PICK at, head : at = UnjournaledByName(rec, Head(todo).tool) /\ head = todo[1]
  OBVIOUS
<1>4. \A m \in DOMAIN todo : m # 1 => todo[m].id \in Waiting'
  BY <1>1, TailWaits
<1>5. \A w \in Waiting : w \in Waiting' \/ (w = head.id /\ w \notin rec.journaled)
  <2> SUFFICES ASSUME NEW w \in Waiting, w \notin Waiting'
               PROVE  w = head.id /\ w \notin rec.journaled
    OBVIOUS
  <2>1. PICK m \in DOMAIN todo : todo[m].id = w /\ (m = 1 => w \notin rec.journaled)
    BY <1>1 DEF Waiting
  <2> QED BY <1>3, <1>4, <2>1
<1>6. head \in ToSet(rec.stashed) /\ head \in ToSet(todo)
  BY <1>1, <1>2, <1>3 DEF OwedInv, ToSet
<1>7. CASE at = 0 /\ UNCHANGED <<journal, rec, wanted>>
  <2>1. head.id \in rec.journaled
    <3>1. Head(todo).tool = head.tool
      BY <1>2, <1>3
    <3> QED BY <1>2, <1>3, <1>6, <1>7, <3>1, UnjournaledFound
  <2>2. \A w \in Waiting : w \in Waiting'
    BY <1>5, <2>1
  <2>3. ~fatal /\ ~rec.error => rec.turn \in gaveUp \/ Left(Journal, rec.turn, offered, Waiting)
    BY <1>2 DEF OwedInv
  <2>4. Left(Journal, rec.turn, offered, Waiting) => Left(Journal, rec.turn, offered, Waiting')
    BY <2>2, LeftSame
  <2>5. pc' \notin {"ask", "denied"} /\ offered' = offered /\ gaveUp' = gaveUp
        /\ spoiled' = spoiled /\ rec' = rec
    BY <1>1, <1>7
  <2> QED BY <1>2, <1>7, <2>3, <2>4, <2>5, SilentKeeps
<1>8. CASE /\ at # 0
           /\ RecordFlush([rec EXCEPT !.stashed = RemoveAt(@, at)],
                 <<Result(rec.turn, rec.step, rec.stashed[at].id, "denied")>>)
  <2>1. rec.stashed \in Seq(ToolCall)
    BY <1>2 DEF Recorder
  <2>2. at \in 1 .. Len(rec.stashed) /\ rec.stashed[at].tool = Head(todo).tool
    BY <1>2, <1>3, <1>8, UnjournaledFacts
  <2>3. PICK s, kept : s = rec.stashed[at] /\ kept = RemoveAt(rec.stashed, at)
    OBVIOUS
  <2>4. s \in ToSet(rec.stashed) /\ s.id \in Ids /\ s.tool = head.tool
    <3>1. at \in DOMAIN rec.stashed /\ s \in ToolCall
      BY <2>1, <2>2, <2>3
    <3> QED BY <1>2, <1>3, <2>2, <2>3, <3>1 DEF ToSet, ToolCall
  <2>5. kept \in Seq(ToolCall)
    BY <2>1, <2>2, <2>3, RemoveAtFacts
  <2>6. PICK r, e, events :
           /\ r = [rec EXCEPT !.stashed = kept] /\ e = Result(rec.turn, rec.step, s.id, "denied")
           /\ events = <<e>>
    OBVIOUS
  <2>7. /\ r \in Recorder /\ r.turn = rec.turn /\ r.step = rec.step /\ r.open = rec.open
        /\ r.error = rec.error /\ ~r.text
    <3>1. r \in Recorder
      BY <1>2, <2>5, <2>6, RecorderTyped
    <3> QED BY <1>2, <2>6, <3>1 DEF Recorder
  <2>8. /\ e \in Event /\ e.turn = rec.turn /\ e.step = rec.step /\ e.type = "tool/result"
        /\ e.id = s.id
    <3>1. e \in Event
      BY <1>2, <2>4, <2>6, EventTyped DEF Answers
    <3> QED BY <2>6, <3>1 DEF Result
  <2>9. RecordFlush(r, events)
    BY <1>8, <2>3, <2>6
  <2>10. events \in Seq(Event) /\ DOMAIN events = {1} /\ events[1] = e
    BY <2>6, <2>8, Singleton
  <2>11. /\ \A m \in DOMAIN events : /\ events[m].type \in Inner
                                     /\ events[m].turn = rec.turn /\ events[m].step = rec.step
         /\ \A m \in DOMAIN events : \A id : ~Names(events[m], rec.turn, id)
    BY <2>8, <2>10 DEF Inner, Names
  <2>12. Sole(offered, rec.turn, head.id) => IsAnswer(events[1], rec.turn, head.id)
    <3> SUFFICES ASSUME Sole(offered, rec.turn, head.id) PROVE s.id = head.id
      BY <2>8, <2>10 DEF IsAnswer
    <3>1. PICK c \in offered : c.turn = rec.turn /\ c.id = s.id /\ c.tool = s.tool
      BY <2>4, QueueAsked
    <3>2. PICK h \in offered : h.turn = rec.turn /\ h.id = head.id /\ h.tool = head.tool
      BY <1>6, QueueAsked
    <3> QED BY <2>4, <3>1, <3>2 DEF Sole
  <2>13. \A w \in Waiting : Sole(offered, rec.turn, w) =>
            w \in Waiting' \/ \E m \in DOMAIN events : IsAnswer(events[m], rec.turn, w)
    BY <1>5, <2>10, <2>12
  <2>14. pc' \notin {"ask", "denied"} /\ offered' = offered /\ gaveUp' = gaveUp
         /\ spoiled' = spoiled
    BY <1>1
  <2> QED BY <1>2, <2>7, <2>9, <2>10, <2>11, <2>13, <2>14, InnerKeeps
<1> QED BY <1>3, <1>7, <1>8 DEF PermissionDenied

(* A result answers the first call that waits.                             *)
LEMMA ToolFinishedComplete ==
    ASSUME IInv, Transcript, ToolFinished
    PROVE  Transcript'
<1>1. pc = "running" /\ todo # <<>>
  BY DEF ToolFinished, IInv, ShapeInv
<1>2. /\ Running /\ TypeInv /\ rec \in Recorder /\ rec.open /\ ~rec.text
      /\ rec.turn \in Nat /\ rec.step \in Nat
      /\ Head(todo) = todo[1] /\ todo[1].id \in Ids
  BY <1>1, HeadFacts DEF Running
<1>3. ASSUME NEW terminal \in {"cancelled", "failed", "none"}, Stops(rec, terminal)
      PROVE  Transcript'
  <2>1. PICK r : r = rec
    OBVIOUS
  <2>2. SamePlace(r) /\ r.error = rec.error
    BY <1>2, <2>1, SamePlaceFacts
  <2>3. Stops(r, terminal) /\ terminal \in Terminals /\ terminal # "completed"
    BY <1>3, <2>1 DEF Stops, Terminals
  <2> QED BY <1>1, <2>2, <2>3, StopsComplete
<1>4. CASE /\ Record(rec, <<Output(Head(todo).id)>>)
           /\ pc' = "tools" /\ todo' = Tail(todo)
           /\ UNCHANGED <<cancelled, crashes, history>>
  <2>1. PICK r, e, events : /\ r = rec /\ e = Output(todo[1].id) /\ events = <<e>>
    OBVIOUS
  <2>2. /\ e \in Event /\ e.turn = rec.turn /\ e.step = rec.step /\ e.type = "tool/result"
        /\ e.id = todo[1].id
    <3>1. e \in Event
      BY <1>2, <2>1, EventTyped DEF Answers, Output
    <3> QED BY <2>1, <3>1 DEF Output, Result
  <2>3. Record(r, events)
    BY <1>2, <1>4, <2>1
  <2>4. events \in Seq(Event) /\ DOMAIN events = {1} /\ events[1] = e
    BY <2>1, <2>2, Singleton
  <2>5. /\ \A m \in DOMAIN events : /\ events[m].type \in Inner
                                    /\ events[m].turn = rec.turn /\ events[m].step = rec.step
        /\ \A m \in DOMAIN events : \A id : ~Names(events[m], rec.turn, id)
    BY <2>2, <2>4 DEF Inner, Names
  <2>6. \A m \in DOMAIN todo : m # 1 => todo[m].id \in Waiting'
    BY <1>1, <1>4, TailWaits
  <2>7. \A w \in Waiting : w \in Waiting' \/ \E m \in DOMAIN events : IsAnswer(events[m], rec.turn, w)
    <3> SUFFICES ASSUME NEW w \in Waiting, w \notin Waiting' PROVE IsAnswer(events[1], rec.turn, w)
      BY <2>4
    <3>1. PICK m \in DOMAIN todo : todo[m].id = w
      BY DEF Waiting
    <3>2. w = todo[1].id
      BY <2>6, <3>1
    <3> QED BY <2>2, <2>4, <3>2 DEF IsAnswer
  <2>8. pc' \notin {"ask", "denied"} /\ Running' /\ offered' = offered /\ gaveUp' = gaveUp
        /\ spoiled' = spoiled
    BY <1>4 DEF Running, history
  <2>9. /\ r \in Recorder /\ r.turn = rec.turn /\ r.step = rec.step /\ r.open = rec.open
        /\ r.error = rec.error /\ ~r.text
    BY <1>2, <2>1
  <2> QED BY <1>2, <2>3, <2>4, <2>5, <2>7, <2>8, <2>9, InnerKeeps
<1>5. CASE \E terminal \in {"cancelled", "failed", "none"} : Stops(rec, terminal)
  BY <1>3, <1>5
<1> QED BY <1>4, <1>5 DEF ToolFinished

(* A boundary answers every call that waits, the first and the skipped.    *)
LEMMA ToolBoundaryComplete ==
    ASSUME IInv, Transcript, ToolBoundary
    PROVE  Transcript'
<1>1. /\ pc = "running" /\ todo # <<>> /\ pc' = "finish" /\ todo' = <<>>
      /\ gaveUp' = gaveUp /\ spoiled' = spoiled /\ offered' = offered
  BY DEF ToolBoundary, Ends, IInv, ShapeInv
<1>2. /\ Running /\ Running' /\ TypeInv /\ rec \in Recorder /\ rec.open /\ ~rec.text
      /\ rec.turn \in Nat /\ rec.step \in Nat
  BY <1>1, HeadFacts DEF Running
<1>3. PICK t, s, calls : t = rec.turn /\ s = rec.step /\ calls = todo
  OBVIOUS
<1>4. /\ calls \in Seq(ToolCall) /\ DOMAIN calls = 1 .. Len(calls) /\ Len(calls) \in Nat
      /\ 1 \in DOMAIN calls /\ Head(calls) = calls[1] /\ \A i \in DOMAIN calls : calls[i].id \in Ids
  BY <1>1, <1>2, <1>3, TodoFacts
<1>5. PICK first, rest, answers :
         /\ rest = [i \in 1 .. Len(calls) - 1 |-> Result(t, s, calls[i + 1].id, "skipped")]
         /\ first = Result(t, s, calls[1].id, "output")
         /\ answers = <<first>> \o rest
  OBVIOUS
<1>6. /\ \A i \in DOMAIN calls : \A a \in Answers :
            LET e == Result(t, s, calls[i].id, a) IN
            /\ e \in Event /\ e.type = "tool/result" /\ e.turn = t /\ e.step = s
            /\ e.id = calls[i].id
      /\ "output" \in Answers /\ "skipped" \in Answers
  BY <1>2, <1>3, <1>4, EventTyped DEF Answers, Result
<1>7. /\ rest \in Seq(Event) /\ DOMAIN rest = 1 .. Len(calls) - 1 /\ Len(rest) = Len(calls) - 1
      /\ \A i \in 1 .. Len(calls) - 1 :
            rest[i].type = "tool/result" /\ rest[i].turn = t /\ rest[i].step = s
            /\ rest[i].id = calls[i + 1].id
  <2>1. \A i \in 1 .. Len(calls) - 1 : i + 1 \in DOMAIN calls
    BY <1>4
  <2>2. Len(calls) - 1 \in Nat
    BY <1>4
  <2> QED BY <1>5, <1>6, <2>1, <2>2
<1>8. /\ first \in Event /\ first.type = "tool/result" /\ first.turn = t /\ first.step = s
      /\ first.id = calls[1].id /\ <<first>> \in Seq(Event)
  <2>1. /\ first \in Event /\ first.type = "tool/result" /\ first.turn = t /\ first.step = s
        /\ first.id = calls[1].id
    BY <1>4, <1>5, <1>6
  <2> QED BY <2>1, Singleton
<1>9. /\ answers \in Seq(Event) /\ DOMAIN answers = DOMAIN calls
      /\ \A i \in DOMAIN calls :
            answers[i].type = "tool/result" /\ answers[i].turn = t /\ answers[i].step = s
            /\ answers[i].id = calls[i].id
  <2>1. answers \in Seq(Event) /\ Len(answers) = Len(calls) /\ answers[1] = first
        /\ \A i \in 1 .. Len(calls) - 1 : answers[i + 1] = rest[i]
    BY <1>4, <1>5, <1>7, <1>8
  <2>2. ASSUME NEW i \in DOMAIN calls, i # 1
        PROVE  answers[i].type = "tool/result" /\ answers[i].turn = t /\ answers[i].step = s
               /\ answers[i].id = calls[i].id
    <3>1. PICK j : j = i - 1
      OBVIOUS
    <3>2. j \in 1 .. Len(calls) - 1 /\ j + 1 = i
      BY <1>4, <2>2, <3>1
    <3> QED BY <1>7, <2>1, <3>2
  <2> QED BY <1>4, <1>8, <2>1, <2>2
<1>10. PICK r : r = [rec EXCEPT !.terminal = "completed"]
  OBVIOUS
<1>11. /\ r \in Recorder /\ r.turn = rec.turn /\ r.step = rec.step /\ r.open = rec.open
       /\ r.error = rec.error /\ ~r.text
  <2>1. r \in Recorder
    BY <1>2, <1>10, RecorderTyped DEF Terminals
  <2> QED BY <1>2, <1>10, <2>1 DEF Recorder
<1>12. Record(r, answers)
  <2>1. Head(todo).id = calls[1].id
    BY <1>3, <1>4
  <2>2. <<first>> = <<Output(Head(todo).id)>>
    BY <1>3, <1>5, <2>1 DEF Output
  <2>3. rest = [i \in 1 .. Len(todo) - 1 |-> Result(rec.turn, rec.step, todo[i + 1].id, "skipped")]
    BY <1>3, <1>5
  <2> QED BY <1>5, <1>10, <2>2, <2>3 DEF ToolBoundary
<1>13. /\ \A m \in DOMAIN answers : /\ answers[m].type \in Inner
                                    /\ answers[m].turn = rec.turn /\ answers[m].step = rec.step
       /\ \A m \in DOMAIN answers : \A id : ~Names(answers[m], rec.turn, id)
  BY <1>3, <1>9 DEF Inner, Names
<1>14. \A w \in Waiting : \E m \in DOMAIN answers : IsAnswer(answers[m], rec.turn, w)
  <2> TAKE w \in Waiting
  <2>1. PICK m \in DOMAIN todo : todo[m].id = w
    BY DEF Waiting
  <2> QED BY <1>3, <1>9, <2>1 DEF IsAnswer
<1>15. pc' \notin {"ask", "denied"}
  BY <1>1
<1> QED BY <1>1, <1>2, <1>9, <1>11, <1>12, <1>13, <1>14, <1>15, InnerKeeps

(* The calls of a response wait, from the first to the last.               *)
LEMMA ModelRespondedComplete ==
    ASSUME IInv, Transcript, ModelResponded
    PROVE  Transcript'
<1>1. PICK calls \in Responses[rec.turn][rec.step] :
         \E q \in Streamed(calls) : \E terminal \in {"none", "completed", "cancelled", "failed"} :
         /\ calls # <<>> => terminal = "none"
         /\ Record([q EXCEPT !.emitted = TRUE, !.completed = calls, !.terminal = terminal],
                   <<Message(rec.turn, rec.step, IdsOf(calls))>>)
         /\ Offer(calls)
         /\ todo' = calls
         /\ pc' = CASE terminal # "none" -> "finish"
                    [] calls = <<>>      -> "request"
                    [] OTHER             -> "tools"
         /\ gaveUp' = gaveUp \cup
               IF terminal \in {"cancelled", "failed"} THEN {rec.turn} ELSE {}
  BY DEF ModelResponded
<1>2. PICK q \in Streamed(calls), terminal \in {"none", "completed", "cancelled", "failed"} :
         /\ Record([q EXCEPT !.emitted = TRUE, !.completed = calls, !.terminal = terminal],
                   <<Message(rec.turn, rec.step, IdsOf(calls))>>)
         /\ Offer(calls)
         /\ todo' = calls
         /\ pc' \in {"finish", "request", "tools"}
         /\ gaveUp \subseteq gaveUp'
  BY <1>1
<1>3. pc = "stream" /\ spoiled' = spoiled /\ Running /\ Running'
  BY <1>2 DEF ModelResponded, Running
<1>4. /\ TypeInv /\ ShapeInv /\ rec.open /\ ~rec.text /\ todo = <<>>
      /\ rec.turn \in Nat /\ rec.step \in Nat
  BY <1>3, RunningBegun DEF IInv, AskedInv, AskedLocal, ShapeInv
<1>5. /\ calls \in Seq(ToolCall) /\ IdsOf(calls) \in Seq(Ids)
      /\ ToSet(IdsOf(calls)) = {calls[i].id : i \in DOMAIN calls}
  BY <1>3, ResponseFacts
<1>6. PICK r, e, events :
         /\ r = [q EXCEPT !.emitted = TRUE, !.completed = calls, !.terminal = terminal]
         /\ e = Message(rec.turn, rec.step, IdsOf(calls)) /\ events = <<e>>
  OBVIOUS
<1>7. /\ r \in Recorder /\ r.turn = rec.turn /\ r.step = rec.step /\ r.open = rec.open
      /\ ~r.text /\ r.error = rec.error
  <2>1. SamePlace(q) /\ q.error = rec.error
    BY <1>3, StreamedFacts
  <2>2. /\ r.turn = q.turn /\ r.step = q.step /\ r.open = q.open /\ r.text = q.text
        /\ r.error = q.error
    BY <1>6, <2>1 DEF SamePlace, Recorder
  <2>3. r \in Recorder
    BY <1>5, <1>6, <2>1 DEF SamePlace, Recorder, Terminals
  <2> QED BY <1>4, <2>1, <2>2, <2>3 DEF SamePlace
<1>8. /\ e \in Event /\ e.turn = rec.turn /\ e.step = rec.step /\ e.type = "assistant/message"
      /\ e.calls = IdsOf(calls)
  <2>1. e \in Event
    BY <1>4, <1>5, <1>6, EventTyped
  <2> QED BY <1>6, <2>1 DEF Message
<1>9. events \in Seq(Event) /\ DOMAIN events = {1} /\ events[1] = e
  BY <1>6, <1>8, Singleton
<1>10. Record(r, events)
  BY <1>2, <1>6
<1>11. \A m \in DOMAIN events : /\ events[m].type \in Inner
                                /\ events[m].turn = rec.turn /\ events[m].step = rec.step
  BY <1>8, <1>9 DEF Inner
<1>12. \A m \in DOMAIN events : \A id : Names(events[m], rec.turn, id) => id \in Waiting'
  <2> SUFFICES ASSUME NEW id, Names(e, rec.turn, id) PROVE id \in Waiting'
    BY <1>9
  <2>1. PICK i \in DOMAIN calls : calls[i].id = id
    BY <1>5, <1>8 DEF Names
  <2>2. i \in DOMAIN todo' /\ todo'[i].id = id /\ pc' # "denied"
    BY <1>2, <2>1
  <2> QED BY <2>2 DEF Waiting
<1>13. Waiting = {}
  <2>1. DOMAIN todo = {}
    BY <1>4
  <2> QED BY <2>1 DEF Waiting
<1>14. pc' \notin {"ask", "denied"}
  BY <1>2
<1>15. offered \subseteq offered'
  BY <1>2 DEF Offer
<1>16. gaveUp \subseteq gaveUp'
  BY <1>2
<1> QED BY <1>3, <1>4, <1>7, <1>9, <1>10, <1>11, <1>12, <1>13, <1>14, <1>15, <1>16, InnerKeeps

-----------------------------------------------------------------------------
(* The end of a round, and of a process *)

(* Between two runs: the journal is a beginning of what was to be written.  *)
LEMMA BetweenComplete ==
    ASSUME NEW N \in Seq(Event), Journal' \in Seq(Event), Begins(Journal', N),
           NEW failed, failed \subseteq Spoiled', AllPlaced(N, failed),
           Final(N), Closed(N, gaveUp', offered'),
           rec'.step # 0, ~rec'.text, pc' \in {"idle", "down", "request"},
           ~fatal' /\ pc' = "idle" =>
              Track(Journal').turn = 0 \/ Track(Journal').turn \in spoiled',
           ~fatal' /\ pc' = "request" =>
              /\ Track(Journal').turn = rec'.turn /\ Track(Journal').step = 0
              /\ ~rec'.open /\ todo' = <<>> /\ Settled(Journal', rec'.turn, offered')
    PROVE  Transcript'
<1>1. PICK K, more, given, now :
         K = Journal' /\ more = Spoiled' /\ given = gaveUp' /\ now = offered'
  OBVIOUS
<1>2. AllPlaced(K, more) /\ Final(K) /\ Closed(K, given, now)
  BY <1>1, PlacedPrefix, FinalPrefix, ClosedPrefix
<1>3. AllPlaced(Journal, Spoiled)' /\ Final(Journal)' /\ Closed(Journal, gaveUp, offered)'
      /\ Track(Journal)' = Track(K)
  BY <1>1, <1>2 DEF AllPlaced, Final, Closed, Track
<1>4. PlaceInv'
  BY <1>1, <1>3 DEF PlaceInv, Running
<1>5. (Running /\ ~fatal /\ ~rec.error =>
         rec.turn \in gaveUp \/ Left(Journal, rec.turn, offered, Waiting))'
  <2> SUFFICES ASSUME Running', ~fatal' PROVE Left(K, rec'.turn, now, Waiting')
    BY <1>1 DEF Left
  <2>1. pc' = "request"
    BY DEF Running
  <2>2. Waiting' = {}
    BY <2>1, NoneWaiting
  <2>3. PICK t : t = rec'.turn
    OBVIOUS
  <2>4. Settled(K, t, now)
    BY <1>1, <2>1, <2>3
  <2>5. Left(K, t, now, {})
    BY <2>4, LeftNothing
  <2> QED BY <2>2, <2>3, <2>5
<1>6. OwedInv'
  BY <1>3, <1>5 DEF OwedInv
<1> QED BY <1>4, <1>6 DEF Transcript

(* A run without a recorder's error is spoiled only by what it reported.    *)
LEMMA SpoiledIs ==
    /\ ~rec.error => Spoiled = spoiled
    /\ ~rec'.error => Spoiled' = spoiled'
    /\ Spoiled \subseteq spoiled \cup {rec.turn}
  BY DEF Spoiled

(* A run that is admitted starts with a journal that owes nothing.         *)
LEMMA AdmitComplete ==
    ASSUME IInv, Transcript, Admit
    PROVE  Transcript'
<1>1. /\ pc = "idle" /\ ~fatal /\ TypeInv /\ todo' = <<>>
      /\ turns \in Nat /\ rec = NewRecorder(0)
      /\ offered' = offered /\ gaveUp' = gaveUp
  BY BoundsAssumption DEF Admit, IInv, TypeInv, ShapeInv, Running
<1>2. PICK ok \in BOOLEAN :
          /\ Durably(<<TurnStart(turns + 1)>>, ok)
          /\ \/ /\ ok
                /\ pc' = "request" /\ rec' = NewRecorder(turns + 1)
                /\ UNCHANGED spoiled
             \/ /\ ~ok
                /\ spoiled' = spoiled \cup {turns + 1}
                /\ UNCHANGED <<pc, rec>>
  BY DEF Admit
<1>3. PICK t, e, J, N : t = turns + 1 /\ e = TurnStart(turns + 1) /\ J = Journal /\ N = J \o <<e>>
  OBVIOUS
<1>4. e \in Event /\ e.turn = t /\ e.type = "turn/start" /\ t \in Nat /\ t # 0
  <2>1. e \in Event /\ t \in Nat /\ t # 0
    BY <1>1, <1>3, EventTyped
  <2> QED BY <1>3, <2>1 DEF TurnStart
<1>5. /\ <<e>> \in Seq(Event) /\ DOMAIN <<e>> = {1} /\ <<e>>[1] = e /\ Len(<<e>>) = 1
  BY <1>4, Singleton
<1>6. /\ Grown(<<e>>) /\ (ok => ~fatal')
      /\ ~fatal' => Journal' = Journal \o <<e>>
  BY <1>1, <1>2, <1>3, <1>5, DurablyFacts
<1>7. J \in Seq(Event) /\ N \in Seq(Event) /\ Journal' \in Seq(Event) /\ Begins(Journal', N)
  BY <1>1, <1>3, <1>4, <1>5, <1>6, GrownBegins, OneMore
<1>8. \A i \in DOMAIN J : J[i].turn \in 1 .. turns
  BY <1>3 DEF IInv, TurnInv, TurnOrder
<1>9. /\ AllPlaced(J, spoiled) /\ Final(J) /\ Closed(J, gaveUp, offered)
      /\ Track(J).turn = 0 \/ Track(J).turn \in spoiled
  <2>1. ~rec.error
    BY <1>1 DEF NewRecorder
  <2>2. Spoiled = spoiled
    BY <2>1, SpoiledIs
  <2> QED BY <1>1, <1>3, <2>2 DEF Transcript, PlaceInv, OwedInv
<1>10. AllPlaced(N, spoiled)
  <2>1. Placed(e, Track(J), spoiled)
    BY <1>4, <1>9 DEF Placed
  <2> QED BY <1>3, <1>4, <1>7, <1>9, <2>1, PlacedAppend
<1>11. Final(N)
  <2>1. Unended(J, t)
    BY <1>1, <1>3, <1>8 DEF Unended
  <2> QED BY <1>3, <1>4, <1>5, <1>7, <1>9, <2>1, FinalMore
<1>12. Closed(N, gaveUp, offered)
  <2>1. \A m \in DOMAIN <<e>> : \A u : IsEnd(<<e>>[m], u) => u \in gaveUp
    BY <1>4, <1>5 DEF IsEnd
  <2> QED BY <1>3, <1>5, <1>7, <1>9, <2>1, ClosedMore
<1>13. Track(N).turn = t /\ Track(N).step = 0
  <2>1. Track(J) \in TrackerState /\ Track(N) = Observe(Track(J), e)
    BY <1>3, <1>4, <1>7, TrackAppend
  <2> QED BY <1>4, <2>1, ObservePlace
<1>14. Settled(N, t, offered)
  <2> SUFFICES ASSUME NEW i \in DOMAIN N, NEW id, Names(N[i], t, id) PROVE FALSE
    BY DEF Settled
  <2>1. CASE i \in DOMAIN J
    <3>1. N[i] = J[i]
      BY <1>3, <1>4, <1>7, <2>1, OneMore
    <3> QED BY <1>1, <1>3, <1>8, <2>1, <3>1 DEF Names
  <2>2. CASE i \notin DOMAIN J
    <3>1. DOMAIN N = 1 .. Len(N) /\ DOMAIN J = 1 .. Len(J) /\ Len(N) = Len(J) + 1
          /\ Len(J) \in Nat /\ N[Len(J) + 1] = e
      BY <1>3, <1>4, <1>7, OneMore
    <3>2. N[i] = e
      BY <2>2, <3>1
    <3> QED BY <1>4, <3>2 DEF Names
  <2> QED BY <2>1, <2>2
<1>15. /\ rec'.step # 0 /\ ~rec'.text /\ ~rec'.error /\ ~rec'.open
       /\ ok => rec'.turn = t
  BY <1>1, <1>2, <1>3 DEF NewRecorder
<1>16. /\ pc' \in {"idle", "request"} /\ spoiled \subseteq spoiled'
       /\ pc' = "request" => ok
       /\ pc' = "idle" => t \in spoiled'
  BY <1>1, <1>2, <1>3
<1>17. spoiled \subseteq Spoiled'
  BY <1>15, <1>16, SpoiledIs
<1>18. ~fatal' => Journal' = N
  BY <1>3, <1>6
<1>19. Closed(N, gaveUp', offered')
  BY <1>1, <1>12
<1>20. ~fatal' /\ pc' = "request" => Settled(Journal', rec'.turn, offered')
  BY <1>1, <1>14, <1>15, <1>16, <1>18
<1>21. ~fatal' => Track(Journal').turn = t /\ Track(Journal').step = 0
  BY <1>13, <1>18
<1> QED BY <1>1, <1>7, <1>10, <1>11, <1>15, <1>16, <1>17, <1>19, <1>20, <1>21, BetweenComplete

(* What ends a turn, behind what closes its step.                           *)
LEMMA EnderFacts ==
    ASSUME IInv, Transcript, Running, todo = <<>>, ~fatal, ~rec.error,
           NEW e \in Event, e.type = "turn/end", e.turn = rec.turn,
           NEW N, N = Journal \o (StepClosers(rec) \o <<e>>)
    PROVE  /\ N \in Seq(Event) /\ AllPlaced(N, Spoiled) /\ Final(N)
           /\ Closed(N, gaveUp, offered) /\ Track(N).turn = 0
<1>1. PICK J, R, failed, t : J = Journal /\ R = StepClosers(rec) /\ failed = Spoiled /\ t = rec.turn
  OBVIOUS
<1>2. J \in Seq(Event) /\ Ordered(J) /\ Started(J)
  BY <1>1, JournalOrder
<1>3. PICK M : M = J \o R
  OBVIOUS
<1>4. /\ R \in Seq(Event) /\ M \in Seq(Event)
      /\ \A m \in DOMAIN R : R[m].turn = t /\ R[m].type # "turn/end"
      /\ AllPlaced(M, failed) /\ Closed(M, gaveUp, offered)
      /\ Track(M).turn = t /\ Track(M).step = 0
      /\ t \in gaveUp \/ Settled(M, t, offered)
  BY <1>1, <1>3, CloserFacts
<1>5. <<e>> \in Seq(Event)
  BY Singleton
<1>6. N = M \o <<e>> /\ N \in Seq(Event)
  BY <1>1, <1>2, <1>3, <1>4, <1>5, EventsAssociate, OneMore
<1>7. Placed(e, Track(M), failed)
  BY <1>1, <1>4 DEF Placed
<1>8. AllPlaced(N, failed)
  BY <1>4, <1>6, <1>7, PlacedAppend
<1>9. Track(N).turn = 0
  <2>1. Track(M) \in TrackerState /\ Track(N) = Observe(Track(M), e)
    BY <1>4, <1>6, TrackAppend
  <2> QED BY <2>1, ObservePlace
<1>10. Closed(N, gaveUp, offered)
  <2>1. \A u : IsEnd(e, u) => u \in gaveUp \/ Settled(M, u, offered)
    BY <1>1, <1>4 DEF IsEnd
  <2> QED BY <1>4, <1>6, <2>1, ClosedEnd
<1>11. Final(N)
  <2>1. Final(J) /\ Track(J).turn = t /\ t # 0
    BY <1>1, RunningBegun DEF Transcript, PlaceInv
  <2>2. Unended(J, t)
    BY <1>2, <2>1, OpenUnended
  <2>3. PICK Q : Q = R \o <<e>>
    OBVIOUS
  <2>4. /\ Q \in Seq(Event) /\ Len(Q) = Len(R) + 1 /\ Q[Len(R) + 1] = e
        /\ \A i \in 1 .. Len(R) : Q[i] = R[i]
        /\ Len(R) \in Nat /\ DOMAIN Q = 1 .. Len(Q) /\ DOMAIN R = 1 .. Len(R)
    BY <1>4, <2>3, OneMore
  <2>5. \A m \in DOMAIN Q : Q[m].turn = t /\ (Q[m].type = "turn/end" => m = Len(Q))
    <3>1. \A m \in DOMAIN Q : m \in DOMAIN R \/ m = Len(R) + 1
      BY <2>4
    <3> QED BY <1>1, <1>4, <2>4, <3>1
  <2>6. N = J \o Q
    BY <1>1, <2>3
  <2> QED BY <1>2, <2>1, <2>2, <2>4, <2>5, <2>6, FinalMore
<1> QED BY <1>1, <1>6, <1>8, <1>9, <1>10, <1>11

(* The end of a run stands behind its last step, and behind every answer.  *)
LEMMA FinishComplete ==
    ASSUME IInv, Transcript, Finish
    PROVE  Transcript'
<1>1. pc = "finish" /\ TypeInv /\ Running /\ rec \in Recorder
      /\ rec.turn \in Nat /\ todo = <<>> /\ PlaceInv /\ OwedInv
  BY RunningBegun DEF Finish, IInv, Running, ShapeInv, TypeInv, Transcript
<1>2. PICK broken \in BOOLEAN, ok \in BOOLEAN :
          LET events == StepClosers(rec) \o <<TurnEnd(rec.turn, Reason(broken))>>
              r == [StepClosed(rec) EXCEPT
                       !.terminal = IF broken THEN "failed" ELSE @,
                       !.error = @ \/ ~ok]
          IN  /\ Durably(IF rec.error THEN <<>> ELSE events, ok)
              /\ spoiled' = IF r.error THEN spoiled \cup {rec.turn} ELSE spoiled
  BY DEF Finish
<1>3. /\ pc' = "idle" /\ rec' = NewRecorder(0)
      /\ UNCHANGED <<offered, gaveUp>>
  BY DEF Finish
<1>4. PICK t, e : t = rec.turn /\ e = TurnEnd(rec.turn, Reason(broken))
  OBVIOUS
<1>5. PICK all, events : /\ all = StepClosers(rec) \o <<e>>
                         /\ events = IF rec.error THEN <<>> ELSE all
  OBVIOUS
<1>6. e \in Event /\ e.turn = rec.turn /\ e.type = "turn/end"
  <2>1. Reason(broken) \in Reasons
    BY DEF Reason, Reasons
  <2>2. e \in Event
    BY <1>1, <1>4, <2>1, EventTyped
  <2> QED BY <1>4, <2>2 DEF TurnEnd
<1>7. all \in Seq(Event) /\ events \in Seq(Event)
  <2>1. StepClosers(rec) \in Seq(Event) /\ <<e>> \in Seq(Event)
    BY <1>1, <1>6, StepClosersFacts, Singleton
  <2>2. all \in Seq(Event)
    BY <1>5, <2>1, EventsConcat
  <2> QED BY <1>5, <2>2, NoEvents
<1>8. Durably(events, ok)
  BY <1>2, <1>4, <1>5
<1>9. /\ spoiled \subseteq spoiled'
      /\ rec.error \/ ~ok => rec.turn \in spoiled'
  <2>1. StepClosed(rec) \in Recorder /\ StepClosed(rec).error = rec.error
    BY <1>1, RecorderTyped DEF StepClosed, Recorder
  <2>2. PICK r : r = [StepClosed(rec) EXCEPT
                       !.terminal = IF broken THEN "failed" ELSE @,
                       !.error = @ \/ ~ok]
    OBVIOUS
  <2>3. r.error = (rec.error \/ ~ok)
    BY <2>1, <2>2 DEF Recorder
  <2>4. spoiled' = IF r.error THEN spoiled \cup {rec.turn} ELSE spoiled
    BY <1>2, <2>2
  <2> QED BY <2>3, <2>4
<1>10. /\ Grown(events)
       /\ ~fatal' => Journal' = Journal \o events /\ ~fatal
  BY <1>1, <1>7, <1>8, DurablyFacts
<1>11. ~rec'.error /\ rec'.step # 0 /\ ~rec'.text
  BY <1>3 DEF NewRecorder
<1>12. Spoiled \subseteq Spoiled'
  <2>1. Spoiled' = spoiled'
    BY <1>11, SpoiledIs
  <2>2. CASE rec.error
    BY <1>9, <2>1, <2>2, SpoiledIs
  <2>3. CASE ~rec.error
    BY <1>9, <2>1, <2>3, SpoiledIs
  <2> QED BY <2>2, <2>3
<1>13. PICK J, failed : J = Journal /\ failed = Spoiled
  OBVIOUS
<1>14. J \in Seq(Event) /\ Journal' \in Seq(Event) /\ Begins(Journal', J \o events)
  BY <1>1, <1>7, <1>10, <1>13, GrownBegins
<1>15. /\ AllPlaced(J, failed) /\ Final(J) /\ Closed(J, gaveUp', offered')
       /\ ~fatal => Track(J).turn = rec.turn
  BY <1>1, <1>3, <1>13 DEF PlaceInv, OwedInv
<1>16. CASE fatal \/ rec.error
  <2>1. Begins(Journal', J) /\ (~fatal' => Journal' = J)
    <3>1. CASE rec.error
      <4>1. J \o events = J
        BY <1>5, <1>14, <3>1, EventsConcat
      <4> QED BY <1>10, <1>13, <1>14, <4>1
    <3>2. CASE fatal
      <4>1. Journal' = J
        BY <1>8, <1>13, <3>2 DEF Durably, journal, Journal
      <4> QED BY <1>14, <4>1, EventBegins
    <3> QED BY <1>16, <3>1, <3>2
  <2>2. ~fatal' => Track(Journal').turn \in spoiled'
    <3>1. ~fatal' => rec.error /\ ~fatal
      BY <1>10, <1>16
    <3> QED BY <1>9, <1>15, <2>1, <3>1
  <2>3. pc' \in {"idle", "down", "request"} /\ pc' # "request"
    BY <1>3
  <2> QED BY <1>11, <1>12, <1>13, <1>14, <1>15, <2>1, <2>2, <2>3, BetweenComplete
<1>17. CASE ~fatal /\ ~rec.error
  <2>1. PICK N : N = J \o all
    OBVIOUS
  <2>2. /\ N \in Seq(Event) /\ AllPlaced(N, failed) /\ Final(N)
        /\ Closed(N, gaveUp, offered) /\ Track(N).turn = 0
    BY <1>1, <1>5, <1>6, <1>13, <1>17, <2>1, EnderFacts
  <2>3. Begins(Journal', N) /\ (~fatal' => Journal' = N)
    BY <1>5, <1>10, <1>13, <1>14, <1>17, <2>1
  <2>4. Closed(N, gaveUp', offered') /\ (~fatal' => Track(Journal').turn = 0)
    BY <1>3, <2>2, <2>3
  <2>5. pc' \in {"idle", "down", "request"} /\ pc' # "request"
    BY <1>3
  <2> QED BY <1>11, <1>12, <1>13, <1>14, <2>2, <2>3, <2>4, <2>5, BetweenComplete
<1> QED BY <1>16, <1>17

(* A process that goes down leaves what its journal began with.            *)
LEMMA GoesDownComplete ==
    ASSUME IInv, Transcript, GoesDown
    PROVE  Transcript'
<1>1. /\ pc' = "down" /\ buffer' = <<>> /\ log' = log /\ rec' = NewRecorder(0)
      /\ spoiled' = Spoiled /\ offered' = offered /\ gaveUp' = gaveUp
  BY DEF GoesDown
<1>2. TypeInv /\ PlaceInv /\ OwedInv
  BY DEF IInv, Transcript
<1>3. PICK L, J : L = log /\ J = Journal
  OBVIOUS
<1>4. L \in Seq(Event) /\ J \in Seq(Event) /\ Journal' = L /\ Begins(L, J)
  <2>1. log \in Seq(Event) /\ buffer \in Seq(Event) /\ Journal \in Seq(Event)
    BY <1>2, JournalTyped
  <2>2. log \o <<>> = log /\ Begins(log, log \o buffer)
    BY <2>1, EventsConcat, EventBegins
  <2> QED BY <1>1, <1>3, <2>1, <2>2 DEF Journal
<1>5. ~rec'.error /\ rec'.step # 0 /\ ~rec'.text
  BY <1>1 DEF NewRecorder
<1>6. PICK failed : failed = Spoiled
  OBVIOUS
<1>7. failed \subseteq Spoiled'
  BY <1>1, <1>5, <1>6, SpoiledIs
<1>8. AllPlaced(J, failed) /\ Final(J) /\ Closed(J, gaveUp', offered')
  BY <1>1, <1>2, <1>3, <1>6 DEF PlaceInv, OwedInv
<1>9. Journal' \in Seq(Event) /\ Begins(Journal', J)
  BY <1>4
<1>10. pc' \in {"idle", "down", "request"} /\ pc' # "idle" /\ pc' # "request"
  BY <1>1
<1> QED BY <1>4, <1>5, <1>7, <1>8, <1>9, <1>10, BetweenComplete

(* A crash leaves a prefix.                                                *)
LEMMA CrashComplete == IInv /\ Transcript /\ Crash => Transcript'
  BY GoesDownComplete DEF Crash

(* So does a recorder that is retired.                                     *)
LEMMA RetireComplete == IInv /\ Transcript /\ Retire => Transcript'
  BY GoesDownComplete DEF Retire

(* Recovery closes what is open: it answers what is pending and ends the
   step and the turn, and a repair that is cut leaves a part of that.      *)
LEMMA RepairComplete ==
    ASSUME IInv, Transcript, Repair
    PROVE  Transcript'
<1>1. PICK L, closers : L = log /\ closers = Closers(Track(log))
  OBVIOUS
<1>2. PICK k \in 0 .. Len(closers) :
         log' = log \o SubSeq(closers, 1, k) /\ (pc' = "idle" => k = Len(closers))
  BY <1>1 DEF Repair
<1>3. /\ pc = "down" /\ pc' \in {"idle", "down"}
      /\ UNCHANGED <<buffer, fatal, rec, offered, gaveUp, spoiled>>
  BY DEF Repair, history
<1>4. /\ TypeInv /\ PlaceInv /\ OwedInv
      /\ buffer = <<>> /\ rec = NewRecorder(0) /\ log \in Seq(Event)
  <2>1. TypeInv /\ ShapeInv
    BY DEF IInv
  <2> QED BY <1>3, <2>1 DEF ShapeInv, Running, Transcript, TypeInv
<1>5. Journal = L /\ L \in Seq(Event)
  <2>1. log \o <<>> = log
    BY <1>4, EventsConcat
  <2> QED BY <1>1, <1>4, <2>1 DEF Journal
<1>6. PICK failed, N : failed = Spoiled /\ N = L \o closers
  OBVIOUS
<1>7. Ordered(L) /\ Started(L)
  BY <1>5, JournalOrder
<1>8. AllPlaced(L, failed) /\ Final(L) /\ Closed(L, gaveUp, offered)
  BY <1>4, <1>5, <1>6 DEF PlaceInv, OwedInv
<1>9. /\ N \in Seq(Event) /\ AllPlaced(N, failed) /\ Closed(N, gaveUp, offered)
      /\ Track(N).turn = 0
  BY <1>1, <1>5, <1>6, <1>7, <1>8, ClosersClose
<1>10. closers \in Seq(Event) /\ Final(N)
  BY <1>1, <1>5, <1>6, <1>7, <1>8, ClosersFinal
<1>11. PICK part : part = SubSeq(closers, 1, k)
  OBVIOUS
<1>12. part \in Seq(Event) /\ Begins(part, closers) /\ (k = Len(closers) => part = closers)
  <2>1. part \in Seq(Event) /\ Begins(part, closers)
    BY <1>10, <1>11, EventBegins
  <2>2. k = Len(closers) => part = closers
    BY <1>10, <1>11
  <2> QED BY <2>1, <2>2
<1>13. Journal' = L \o part /\ Journal' \in Seq(Event)
  <2>1. log' = L \o part /\ L \o part \in Seq(Event)
    BY <1>1, <1>2, <1>5, <1>11, <1>12, EventsConcat
  <2>2. (L \o part) \o <<>> = L \o part
    BY <2>1, EventsConcat
  <2> QED BY <1>3, <1>4, <2>1, <2>2 DEF Journal
<1>14. Begins(L \o part, N)
  <2>1. PICK K : K = L \o part
    OBVIOUS
  <2>2. /\ Len(K) = Len(L) + Len(part) /\ Len(N) = Len(L) + Len(closers)
        /\ Len(L) \in Nat /\ Len(part) \in Nat /\ Len(closers) \in Nat
        /\ \A i \in 1 .. Len(L) : K[i] = L[i] /\ N[i] = L[i]
        /\ \A i \in 1 .. Len(part) : K[Len(L) + i] = part[i]
        /\ \A i \in 1 .. Len(closers) : N[Len(L) + i] = closers[i]
    BY <1>5, <1>6, <1>10, <1>12, <2>1
  <2>3. Len(part) <= Len(closers) /\ \A i \in 1 .. Len(part) : part[i] = closers[i]
    BY <1>12 DEF Begins
  <2>4. ASSUME NEW i \in 1 .. Len(K) PROVE K[i] = N[i]
    <3>1. CASE i \in 1 .. Len(L)
      BY <2>2, <3>1
    <3>2. CASE i \notin 1 .. Len(L)
      <4>1. PICK m : m = i - Len(L)
        OBVIOUS
      <4>3. /\ i \in 1 .. Len(L) + Len(part) /\ i \notin 1 .. Len(L)
            /\ Len(L) \in Nat /\ Len(part) \in Nat
        BY <2>2, <3>2
      <4>4. i \in Nat /\ i > Len(L) /\ i <= Len(L) + Len(part)
        BY <4>3
      <4>2. m \in 1 .. Len(part) /\ m \in 1 .. Len(closers) /\ i = Len(L) + m
        BY <2>2, <2>3, <4>1, <4>4
      <4> QED BY <2>2, <2>3, <4>2
    <3> QED BY <3>1, <3>2
  <2> QED BY <2>1, <2>2, <2>3, <2>4 DEF Begins
<1>15. rec'.step # 0 /\ ~rec'.text /\ ~rec.error
  BY <1>3, <1>4 DEF NewRecorder
<1>16. failed \subseteq Spoiled'
  BY <1>3, <1>6 DEF Spoiled
<1>17. pc' = "idle" => Track(Journal').turn = 0
  BY <1>2, <1>6, <1>9, <1>12, <1>13
<1>18. /\ Closed(N, gaveUp', offered') /\ pc' \in {"idle", "down", "request"}
       /\ pc' # "request" /\ Begins(Journal', N)
  BY <1>3, <1>9, <1>13, <1>14
<1> QED BY <1>9, <1>10, <1>13, <1>15, <1>16, <1>17, <1>18, BetweenComplete

-----------------------------------------------------------------------------
(* The theorem *)

(* The first journal is empty.                                             *)
LEMMA InitTranscript == Init => Transcript
<1> SUFFICES ASSUME Init PROVE Transcript
  OBVIOUS
<1>1. /\ log = <<>> /\ buffer = <<>> /\ rec = NewRecorder(0) /\ pc = "idle"
  BY DEF Init
<1>2. PICK J : J = Journal
  OBVIOUS
<1>3. J = <<>> /\ J \in Seq(Event) /\ DOMAIN J = {} /\ Len(J) = 0
  <2>1. <<>> \o <<>> = <<>> /\ <<>> \in Seq(Event)
    BY NoEvents, EventsConcat
  <2> QED BY <1>1, <1>2, <2>1 DEF Journal
<1>4. Track(J) = NoTurn
  BY <1>3, TrackerStep DEF Track
<1>5. AllPlaced(J, Spoiled) /\ Final(J) /\ Closed(J, gaveUp, offered)
  BY <1>3 DEF AllPlaced, Final, Closed
<1>6. rec.step # 0 /\ ~rec.text /\ Track(J).turn = 0 /\ ~Running
  BY <1>1, <1>4, NoTurnFacts DEF NewRecorder, Running
<1>7. PlaceInv
  BY <1>1, <1>2, <1>5, <1>6 DEF PlaceInv
<1>8. OwedInv
  BY <1>1, <1>2, <1>5, <1>6 DEF OwedInv
<1> QED BY <1>7, <1>8 DEF Transcript

(* Every step keeps the transcript complete.                               *)
LEMMA NextComplete == IInv /\ Transcript /\ [Next]_vars => Transcript'
<1> SUFFICES ASSUME IInv, Transcript, [Next]_vars PROVE Transcript'
  OBVIOUS
<1>1. CASE Drain
  BY <1>1, DrainComplete
<1>2. CASE Admit
  BY <1>2, AdmitComplete
<1>3. CASE Cancel
  BY <1>3, CancelComplete
<1>4. CASE StopBeforeRequest
  BY <1>4, StopBeforeRequestComplete
<1>5. CASE ApplySteering
  BY <1>5, ApplySteeringComplete
<1>6. CASE ContextBoundary
  BY <1>6, ContextBoundaryComplete
<1>7. CASE ModelRequested
  BY <1>7, ModelRequestedComplete
<1>8. CASE ModelResponded
  BY <1>8, ModelRespondedComplete
<1>9. CASE StreamCut
  BY <1>9, StreamCutComplete
<1>10. CASE NextStep
  BY <1>10, NextStepComplete
<1>11. CASE StopBeforeTool
  BY <1>11, StopBeforeToolComplete
<1>12. CASE ToolRequested
  BY <1>12, ToolRequestedComplete
<1>13. CASE Decide
  BY <1>13, DecideComplete
<1>14. CASE PermissionDenied
  BY <1>14, PermissionDeniedComplete
<1>15. CASE ToolStarted
  BY <1>15, ToolStartedComplete
<1>16. CASE Invoke
  BY <1>16, InvokeComplete
<1>17. CASE ToolFinished
  BY <1>17, ToolFinishedComplete
<1>18. CASE ToolBoundary
  BY <1>18, ToolBoundaryComplete
<1>19. CASE Finish
  BY <1>19, FinishComplete
<1>20. CASE Crash
  BY <1>20, CrashComplete
<1>21. CASE Retire
  BY <1>21, RetireComplete
<1>22. CASE Repair
  BY <1>22, RepairComplete
<1>23. CASE UNCHANGED vars
  BY <1>23, StutterComplete
<1> QED BY <1>1, <1>2, <1>3, <1>4, <1>5, <1>6, <1>7, <1>8, <1>9, <1>10, <1>11, <1>12, <1>13,
           <1>14, <1>15, <1>16, <1>17, <1>18, <1>19, <1>20, <1>21, <1>22, <1>23 DEF Next

(* The invariant of the transcript, beside the one of the executions.      *)
LEMMA TranscriptInv == Spec => [](IInv /\ Transcript)
<1>1. Init => IInv /\ Transcript
  BY InitIInv, InitTranscript
<1>2. IInv /\ Transcript /\ [Next]_vars => IInv' /\ Transcript'
  BY NextKeeps, NextComplete
<1> QED BY <1>1, <1>2, PTL DEF Spec

(* The log is a transcript that a later run and a provider accept: what     *)
(* RecoveryTracker (src/session/recovery.rs) finds open is what is open, and *)
(* a run that completed, or was interrupted and closed by recovery, leaves   *)
(* no call without an answer, whatever failed or crashed in between.  An     *)
(* answer is owed from the message to the end of its step.                  *)
THEOREM TranscriptsComplete == Spec => []TurnsComplete
<1>1. IInv /\ Transcript => TurnsComplete
  <2> SUFFICES ASSUME IInv, Transcript PROVE TurnsComplete
    OBVIOUS
  <2>1. PICK L, J : L = log /\ J = Journal
    OBVIOUS
  <2>2. L \in Seq(Event) /\ J \in Seq(Event) /\ Begins(L, J)
    <3>1. log \in Seq(Event) /\ buffer \in Seq(Event) /\ Journal \in Seq(Event)
      BY JournalTyped DEF IInv
    <3>2. Begins(log, log \o buffer)
      BY <3>1, EventBegins
    <3> QED BY <2>1, <3>1, <3>2 DEF Journal
  <2>3. PICK failed, given, asked : failed = Spoiled /\ given = gaveUp /\ asked = offered
    OBVIOUS
  <2>4. AllPlaced(L, failed) /\ Final(L) /\ Closed(L, given, asked)
    <3>1. AllPlaced(J, failed) /\ Final(J) /\ Closed(J, given, asked)
      BY <2>1, <2>3 DEF Transcript, PlaceInv, OwedInv
    <3> QED BY <2>2, <3>1, PlacedPrefix, FinalPrefix, ClosedPrefix
  <2>5. Nested
    <3> SUFFICES ASSUME NEW i \in DOMAIN log PROVE Fits(log[i], Tracker(log)[i - 1])
      BY DEF Nested
    <3>1. PICK e, o : e = log[i] /\ o = Tracker(log)[i - 1]
      OBVIOUS
    <3>2. Placed(e, o, Spoiled)
      BY <2>1, <2>3, <2>4, <3>1 DEF AllPlaced
    <3>3. Fits(e, o)
      BY <3>2 DEF Placed, Fits
    <3> QED BY <3>1, <3>3
  <2>6. Answered
    <3> SUFFICES ASSUME NEW i \in DOMAIN log, NEW j \in DOMAIN log,
                        log[i].type = "assistant/message", log[j].type = "turn/end",
                        log[i].turn = log[j].turn, log[i].turn \notin gaveUp,
                        NEW call \in offered,
                        call.turn = log[i].turn, call.id \in ToSet(log[i].calls),
                        Lone(call), OnlyUse(call)
                 PROVE  \E k \in i .. j : AnswerOf(log[k], call)
      BY DEF Answered
    <3>1. PICK t, id : t = call.turn /\ id = call.id
      OBVIOUS
    <3>2. Sole(asked, t, id)
      BY <2>3, <3>1, OnlyUseFacts DEF Sole
    <3>3. Names(L[i], t, id) /\ IsEnd(L[j], t) /\ t \notin given /\ i <= j
      BY <2>1, <2>3, <2>4, <3>1 DEF Names, IsEnd, Final
    <3>4. PICK k \in DOMAIN L : i <= k /\ k <= j /\ IsAnswer(L[k], t, id)
      BY <2>1, <2>4, <3>2, <3>3 DEF Closed
    <3>5. k \in i .. j
      <4>1. DOMAIN L = 1 .. Len(L) /\ Len(L) \in Nat
        BY <2>2
      <4> QED BY <2>1, <3>4, <4>1
    <3> QED BY <2>1, <3>1, <3>4, <3>5 DEF IsAnswer, AnswerOf
  <2> QED BY <2>5, <2>6 DEF TurnsComplete
<1> QED BY <1>1, TranscriptInv, PTL
===============================================================================
