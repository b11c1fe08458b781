------------------------ MODULE JournalDurabilityProofs ------------------------
(***************************************************************************)
(* Proofs about SessionJournal, continued: what is reported durable is      *)
(* whole in the log for ever, and without closers the journal implements   *)
(* DurableLog.                                                             *)
(***************************************************************************)
EXTENDS SessionJournalProofs, FiniteSetTheorems

(* The log as it is if everything queued is written in its turn.           *)
Stream == log \o Queue

(* The events of group g are those of one block of n, which ends within     *)
(* the first k events.                                                     *)
Whole(g, n, events, k) ==
    \E before \in 0 .. k - n :
        \A i \in DOMAIN events :
            events[i].grp = g <=> before < i /\ i <= before + n

Without(g, events) == \A i \in DOMAIN events : events[i].grp # g

(* Nothing of group g is to be written any more. *)
Absent(g) == Without(g, InFlight) /\ Without(g, pending)

(* The call of client c is a durable append that holds on to its group. *)
Appending(c) == call[c] = "durable" /\ pc[c] # "rollback"

(* The groups client c may still be told are durable. *)
Claimed(c) == mine[c] \cup (IF Appending(c) THEN {txn[c].grp} ELSE {})

(* Groups are numbered as they are submitted; only submitted groups are in  *)
(* the log, in the queue, with a client or in the books, and the group of a *)
(* durable append is nobody else's.                                        *)
NamesInv ==
    /\ \E n \in 0 .. MaxGroups : Submitted = 1 .. n
    /\ \A g \in Groups \ Submitted : Without(g, log) /\ Absent(g)
    /\ acked \subseteq Submitted
    /\ \A c \in Clients : Claimed(c) \subseteq Submitted
    /\ \A c, d \in Clients : Appending(c) => txn[c].grp \notin mine[d]
    /\ ~up => \A c \in Clients : Claimed(c) = {}

(* A coordinator without its handle is fatal or retired, and one that is    *)
(* not fatal works on a log with no torn frame.                            *)
HandleInv ==
    /\ workerPc = "exited" => closed
    /\ up /\ joined => closed
    /\ up /\ ~handle => fatal \/ closed
    /\ ~up => ~handle /\ ~fatal
    /\ handle => ~fatal
    /\ up /\ ~fatal => torn = 0

(* What is queued from the start of a durable append on is its group, and   *)
(* nothing before it is: no one enqueues before the append is decided.     *)
TailInv ==
    up /\ ~fatal =>
        \A c \in Clients : Appending(c) =>
            \A events \in {InFlight, pending} : \A i \in DOMAIN events :
                events[i].seq >= txn[c].start <=> events[i].grp = txn[c].grp

(* What clients are still answerable for is whole, written or queued.      *)
ClaimsInv ==
    up /\ ~fatal =>
        \A c \in Clients : \A g \in Claimed(c) \ lost :
            Whole(g, size[g], Stream, Len(Stream))

(* Nothing is queued of what a flush has reported.                         *)
FlushedInv ==
    up /\ ~fatal =>
        \A c \in Clients : pc[c] = "flushed" /\ result[c] = "ok" =>
            \A g \in Claimed(c) \ lost : Absent(g)

(* What was reported durable is whole, outside a torn frame, and nothing of *)
(* it can be written again.                                                *)
AckedInv ==
    \A g \in acked \ lost :
        Whole(g, size[g], log, Len(log) - torn) /\ Absent(g)

DInv == NamesInv /\ HandleInv /\ TailInv /\ ClaimsInv /\ FlushedInv /\ AckedInv
-----------------------------------------------------------------------------
(* Sequences of events and the blocks of a group in them *)

LEMMA Concat ==
    ASSUME NEW s \in Seq(Event), NEW t \in Seq(Event)
    PROVE  /\ s \o t \in Seq(Event)
           /\ Len(s) \in Nat /\ Len(t) \in Nat
           /\ Len(s \o t) = Len(s) + Len(t)
           /\ DOMAIN s = 1 .. Len(s) /\ DOMAIN t = 1 .. Len(t)
           /\ DOMAIN (s \o t) = 1 .. Len(s) + Len(t)
           /\ \A i \in 1 .. Len(s) : (s \o t)[i] = s[i]
           /\ \A i \in 1 .. Len(t) : (s \o t)[Len(s) + i] = t[i]
           /\ \A i \in Len(s) + 1 .. Len(s) + Len(t) :
                 (s \o t)[i] = t[i - Len(s)] /\ i - Len(s) \in 1 .. Len(t)
<1>1. /\ s \o t \in Seq(Event) /\ Len(s \o t) = Len(s) + Len(t)
      /\ \A i \in 1 .. Len(s) + Len(t) :
            (s \o t)[i] = IF i <= Len(s) THEN s[i] ELSE t[i - Len(s)]
  BY ConcatProperties
<1>2. /\ Len(s) \in Nat /\ DOMAIN s = 1 .. Len(s)
      /\ Len(t) \in Nat /\ DOMAIN t = 1 .. Len(t)
      /\ DOMAIN (s \o t) = 1 .. Len(s \o t)
  BY <1>1, LenProperties
<1>3. \A i \in 1 .. Len(s) : (s \o t)[i] = s[i]
  BY <1>1, <1>2
<1>4. \A i \in Len(s) + 1 .. Len(s) + Len(t) :
         (s \o t)[i] = t[i - Len(s)] /\ i - Len(s) \in 1 .. Len(t)
  BY <1>1, <1>2
<1>5. ASSUME NEW i \in 1 .. Len(t) PROVE (s \o t)[Len(s) + i] = t[i]
  <2>1. Len(s) + i \in Len(s) + 1 .. Len(s) + Len(t) /\ (Len(s) + i) - Len(s) = i
    BY <1>2
  <2> QED BY <1>4, <2>1
<1> QED BY <1>1, <1>2, <1>3, <1>4, <1>5

(* Two sequences of one length that agree everywhere are the same. *)
LEMMA SameSeq ==
    ASSUME NEW S, NEW s \in Seq(S), NEW t \in Seq(S), Len(s) = Len(t),
           \A i \in 1 .. Len(s) : s[i] = t[i]
    PROVE  s = t
BY SeqEqual, LenProperties

LEMMA ConcatAssociates ==
    ASSUME NEW s \in Seq(Event), NEW t \in Seq(Event), NEW u \in Seq(Event)
    PROVE  (s \o t) \o u = s \o (t \o u)
<1>1. PICK st \in Seq(Event) : st = s \o t
  BY Concat
<1>2. PICK tu \in Seq(Event) : tu = t \o u
  BY Concat
<1>3. Len(s) \in Nat /\ Len(t) \in Nat /\ Len(u) \in Nat
      /\ Len(st) = Len(s) + Len(t) /\ Len(tu) = Len(t) + Len(u)
  BY <1>1, <1>2, Concat
<1>4. /\ st \o u \in Seq(Event) /\ s \o tu \in Seq(Event)
      /\ Len(st \o u) = Len(st) + Len(u) /\ Len(s \o tu) = Len(s) + Len(tu)
  BY Concat
<1>5. ASSUME NEW i \in 1 .. Len(s) + Len(t) + Len(u)
      PROVE  (st \o u)[i] = (s \o tu)[i]
  <2>1. CASE i <= Len(s)
    <3>1. i \in 1 .. Len(s) /\ i \in 1 .. Len(st)
      BY <1>3, <2>1
    <3>2. (st \o u)[i] = st[i] /\ (s \o tu)[i] = s[i]
      BY <3>1, Concat
    <3>3. st[i] = s[i]
      BY <1>1, <3>1, Concat
    <3> QED BY <3>2, <3>3
  <2>2. CASE i > Len(s) /\ i <= Len(s) + Len(t)
    <3> DEFINE j == i - Len(s)
    <3>1. j \in 1 .. Len(t) /\ i = Len(s) + j /\ i \in 1 .. Len(st)
          /\ j \in 1 .. Len(tu)
      BY <1>3, <2>2
    <3> HIDE DEF j
    <3>2. (st \o u)[i] = st[i] /\ (s \o tu)[Len(s) + j] = tu[j]
      BY <3>1, Concat
    <3>3. st[Len(s) + j] = t[j] /\ tu[j] = t[j]
      BY <1>1, <1>2, <3>1, Concat
    <3> QED BY <3>1, <3>2, <3>3
  <2>3. CASE i > Len(s) + Len(t)
    <3> DEFINE j == i - Len(s) - Len(t)
               l == Len(t) + j
    <3>1. /\ j \in 1 .. Len(u) /\ i = Len(st) + j
          /\ l = Len(t) + j /\ i = Len(s) + l /\ l \in 1 .. Len(tu)
      BY <1>3, <2>3
    <3> HIDE DEF j, l
    <3>2. (st \o u)[Len(st) + j] = u[j] /\ (s \o tu)[Len(s) + l] = tu[l]
      BY <3>1, Concat
    <3>3. tu[Len(t) + j] = u[j]
      BY <1>2, <3>1, Concat
    <3> QED BY <3>1, <3>2, <3>3
  <2>4. i <= Len(s) \/ (i > Len(s) /\ i <= Len(s) + Len(t))
        \/ i > Len(s) + Len(t)
    BY <1>3
  <2> QED BY <2>1, <2>2, <2>3, <2>4
<1>6. Len(st \o u) = Len(s \o tu) /\ Len(st \o u) = Len(s) + Len(t) + Len(u)
  BY <1>3, <1>4
<1> QED BY <1>1, <1>2, <1>4, <1>5, <1>6, SameSeq

LEMMA ConcatEmpty ==
    ASSUME NEW s \in Seq(Event) PROVE s \o <<>> = s /\ <<>> \o s = s
<1>1. PICK e \in Seq(Event) : e = <<>>
  BY EmptySeq
<1>2. Len(e) = 0 /\ Len(s) \in Nat
  BY <1>1, EmptySeq, LenProperties
<1>3. /\ s \o e \in Seq(Event) /\ e \o s \in Seq(Event)
      /\ Len(s \o e) = Len(s) /\ Len(e \o s) = Len(s)
  BY <1>2, Concat
<1>4. \A i \in 1 .. Len(s) : (s \o e)[i] = s[i]
  BY Concat
<1>5. \A i \in 1 .. Len(s) : (e \o s)[Len(e) + i] = s[i]
  BY Concat
<1>6. \A i \in 1 .. Len(s) : (e \o s)[i] = s[i]
  BY <1>2, <1>5
<1> QED BY <1>1, <1>3, <1>4, <1>6, SameSeq

LEMMA WithoutConcat ==
    ASSUME NEW s \in Seq(Event), NEW t \in Seq(Event), NEW g
    PROVE  Without(g, s \o t) <=> Without(g, s) /\ Without(g, t)
<1>1. ASSUME Without(g, s), Without(g, t) PROVE Without(g, s \o t)
  <2>1. ASSUME NEW i \in DOMAIN (s \o t) PROVE (s \o t)[i].grp # g
    <3>1. i \in 1 .. Len(s) \/ i \in Len(s) + 1 .. Len(s) + Len(t)
      BY Concat
    <3>2. CASE i \in 1 .. Len(s)
      BY <1>1, <3>2, Concat DEF Without
    <3>3. CASE i \in Len(s) + 1 .. Len(s) + Len(t)
      BY <1>1, <3>3, Concat DEF Without
    <3> QED BY <3>1, <3>2, <3>3
  <2> QED BY <2>1 DEF Without
<1>2. ASSUME Without(g, s \o t) PROVE Without(g, s)
  <2>1. \A i \in 1 .. Len(s) : i \in DOMAIN (s \o t) /\ (s \o t)[i] = s[i]
    BY Concat
  <2> QED BY <1>2, <2>1, Concat DEF Without
<1>3. ASSUME Without(g, s \o t) PROVE Without(g, t)
  <2>1. ASSUME NEW i \in 1 .. Len(t) PROVE t[i].grp # g
    <3>1. Len(s) + i \in 1 .. Len(s) + Len(t)
      BY Concat
    <3>2. (s \o t)[Len(s) + i].grp # g
      BY <1>3, <3>1, Concat DEF Without
    <3> QED BY <3>2, Concat
  <2> QED BY <2>1, Concat DEF Without
<1> QED BY <1>1, <1>2, <1>3

LEMMA Cut ==
    ASSUME NEW s \in Seq(Event), NEW k \in 0 .. Len(s)
    PROVE  /\ SubSeq(s, 1, k) \in Seq(Event) /\ Len(SubSeq(s, 1, k)) = k
           /\ DOMAIN SubSeq(s, 1, k) = 1 .. k
           /\ \A i \in 1 .. k : SubSeq(s, 1, k)[i] = s[i]
           /\ Len(s) \in Nat /\ DOMAIN s = 1 .. Len(s)
<1>1. Len(s) \in Nat /\ DOMAIN s = 1 .. Len(s) /\ \A i \in 1 .. k : s[i] \in Event
  BY LenProperties, ElementOfSeq
<1>2. /\ SubSeq(s, 1, k) \in Seq(Event)
      /\ Len(SubSeq(s, 1, k)) = k
      /\ \A i \in 1 .. k : SubSeq(s, 1, k)[i] = s[i]
  BY <1>1, SubSeqProperties
<1>3. DOMAIN SubSeq(s, 1, k) = 1 .. k
  BY <1>2, LenProperties
<1> QED BY <1>1, <1>2, <1>3

(* A sequence is its first k events followed by the others. *)
LEMMA Split ==
    ASSUME NEW s \in Seq(Event), NEW k \in 0 .. Len(s)
    PROVE  /\ SubSeq(s, k + 1, Len(s)) \in Seq(Event)
           /\ Len(SubSeq(s, k + 1, Len(s))) = Len(s) - k
           /\ DOMAIN SubSeq(s, k + 1, Len(s)) = 1 .. Len(s) - k
           /\ \A i \in 1 .. Len(s) - k :
                 SubSeq(s, k + 1, Len(s))[i] = s[k + i] /\ k + i \in DOMAIN s
           /\ SubSeq(s, 1, k) \o SubSeq(s, k + 1, Len(s)) = s
<1>1. Len(s) \in Nat /\ DOMAIN s = 1 .. Len(s)
  BY LenProperties
<1>2. \A i \in k + 1 .. Len(s) : s[i] \in Event
  BY <1>1, ElementOfSeq
<1> DEFINE r == SubSeq(s, k + 1, Len(s))
<1>3. /\ r \in Seq(Event) /\ Len(r) = Len(s) - k
      /\ \A i \in 1 .. Len(s) - k : r[i] = s[k + i]
  <2>1. PICK m \in 1 .. Len(s) + 1 : m = k + 1
    BY <1>1
  <2>2. PICK l \in Nat : l = Len(s)
    BY <1>1
  <2>3. /\ SubSeq(s, m, l) \in Seq(Event)
        /\ Len(SubSeq(s, m, l)) = (IF m <= l THEN l - m + 1 ELSE 0)
        /\ \A i \in 1 .. l - m + 1 : SubSeq(s, m, l)[i] = s[m + i - 1]
    BY <1>1, <1>2, <2>1, <2>2, SubSeqProperties
  <2>4. Len(SubSeq(s, m, l)) = l - k
    BY <2>1, <2>2, <2>3
  <2>5. ASSUME NEW i \in 1 .. l - k PROVE SubSeq(s, m, l)[i] = s[k + i]
    <3>1. i \in 1 .. l - m + 1 /\ m + i - 1 = k + i
      BY <2>1, <2>2
    <3> QED BY <2>3, <3>1
  <2> QED BY <2>1, <2>2, <2>3, <2>4, <2>5
<1>4. DOMAIN r = 1 .. Len(s) - k
  BY <1>3, LenProperties
<1>5. \A i \in 1 .. Len(s) - k : k + i \in DOMAIN s
  BY <1>1
<1> HIDE DEF r
<1>6. PICK c \in Seq(Event) : /\ c = SubSeq(s, 1, k) /\ Len(c) = k
                             /\ \A i \in 1 .. k : c[i] = s[i]
  BY Cut
<1>7. c \o r \in Seq(Event) /\ Len(c \o r) = Len(s)
  <2>1. c \o r \in Seq(Event) /\ Len(c \o r) = Len(c) + Len(r)
    BY <1>3, Concat
  <2>2. Len(c \o r) = k + (Len(s) - k)
    BY <1>3, <1>6, <2>1
  <2>3. k + (Len(s) - k) = Len(s)
    BY <1>1
  <2> QED BY <2>1, <2>2, <2>3
<1>8. ASSUME NEW i \in 1 .. Len(s) PROVE (c \o r)[i] = s[i]
  <2>1. CASE i \in 1 .. k
    BY <1>3, <1>6, <2>1, Concat
  <2>2. CASE i \in k + 1 .. Len(s)
    <3>1. i \in Len(c) + 1 .. Len(c) + Len(r) /\ k + (i - Len(c)) = i
      BY <1>1, <1>3, <1>6, <2>2
    <3>2. (c \o r)[i] = r[i - Len(c)] /\ i - Len(c) \in 1 .. Len(r)
      BY <1>3, <3>1, Concat
    <3> QED BY <1>3, <3>1, <3>2
  <2>3. i \in 1 .. k \/ i \in k + 1 .. Len(s)
    BY <1>1
  <2> QED BY <2>1, <2>2, <2>3
<1>9. c \o r = s
  BY <1>7, <1>8, SameSeq
<1> QED BY <1>3, <1>4, <1>5, <1>6, <1>9 DEF r

LEMMA WithoutCut ==
    ASSUME NEW s \in Seq(Event), NEW k \in 0 .. Len(s), NEW g, Without(g, s)
    PROVE  Without(g, SubSeq(s, 1, k))
BY Cut DEF Without

(* A block stays one when the sequence goes on without its group ... *)
LEMMA WholeExtended ==
    ASSUME NEW s \in Seq(Event), NEW t \in Seq(Event), NEW g, NEW n \in Nat,
           NEW k \in 0 .. Len(s), NEW l \in k .. Len(s \o t),
           Whole(g, n, s, k), Without(g, t)
    PROVE  Whole(g, n, s \o t, l)
<1>1. PICK b \in 0 .. k - n :
         \A i \in DOMAIN s : s[i].grp = g <=> b < i /\ i <= b + n
  BY DEF Whole
<1>2. b \in 0 .. l - n /\ b + n <= Len(s)
  BY Concat
<1>3. ASSUME NEW i \in DOMAIN (s \o t)
      PROVE  (s \o t)[i].grp = g <=> b < i /\ i <= b + n
  <2>1. i \in 1 .. Len(s) \/ i \in Len(s) + 1 .. Len(s) + Len(t)
    BY Concat
  <2>2. CASE i \in 1 .. Len(s)
    BY <1>1, <2>2, Concat
  <2>3. CASE i \in Len(s) + 1 .. Len(s) + Len(t)
    <3>1. (s \o t)[i] = t[i - Len(s)] /\ i - Len(s) \in DOMAIN t
      BY <2>3, Concat
    <3>2. (s \o t)[i].grp # g
      BY <3>1 DEF Without
    <3>3. ~(i <= b + n)
      BY <1>2, <2>3, Concat
    <3> QED BY <3>2, <3>3
  <2> QED BY <2>1, <2>2, <2>3
<1> QED BY <1>2, <1>3 DEF Whole

(* ... or is cut where nothing of its group is left ... *)
LEMMA WholeCut ==
    ASSUME NEW s \in Seq(Event), NEW k \in 0 .. Len(s), NEW g,
           NEW n \in Nat \ {0}, NEW l \in 0 .. Len(s), Whole(g, n, s, l),
           \A i \in k + 1 .. Len(s) : s[i].grp # g
    PROVE  Whole(g, n, SubSeq(s, 1, k), k)
<1>1. PICK b \in 0 .. l - n :
         \A i \in DOMAIN s : s[i].grp = g <=> b < i /\ i <= b + n
  BY DEF Whole
<1>2. b + n <= k
  <2>1. SUFFICES ASSUME b + n > k PROVE FALSE
    BY <1>1, Cut
  <2>2. b + n \in k + 1 .. Len(s) /\ b < b + n
    BY <1>1, <2>1, Cut
  <2>3. s[b + n].grp = g
    BY <1>1, <2>2, Cut
  <2> QED BY <2>2, <2>3
<1>3. b \in 0 .. k - n
  BY <1>1, <1>2, Cut
<1>4. ASSUME NEW i \in DOMAIN SubSeq(s, 1, k)
      PROVE  SubSeq(s, 1, k)[i].grp = g <=> b < i /\ i <= b + n
  <2>1. i \in DOMAIN s /\ SubSeq(s, 1, k)[i] = s[i]
    BY Cut
  <2> QED BY <1>1, <2>1
<1> QED BY <1>3, <1>4 DEF Whole

(* ... and a cut behind the block keeps it.                                *)
LEMMA WholeKept ==
    ASSUME NEW s \in Seq(Event), NEW k \in 0 .. Len(s), NEW g, NEW n \in Nat,
           NEW l \in 0 .. k, Whole(g, n, s, l)
    PROVE  Whole(g, n, SubSeq(s, 1, k), l)
<1>1. PICK b \in 0 .. l - n :
         \A i \in DOMAIN s : s[i].grp = g <=> b < i /\ i <= b + n
  BY DEF Whole
<1>2. \A i \in 1 .. k : i \in DOMAIN s
  BY Cut
<1> QED BY <1>1, <1>2, Cut, ZenonT(40) DEF Whole

LEMMA WholeWeakened ==
    ASSUME NEW s \in Seq(Event), NEW g, NEW n \in Nat, NEW k \in 0 .. Len(s),
           NEW l \in k .. Len(s), Whole(g, n, s, k)
    PROVE  Whole(g, n, s, l)
<1>1. PICK b \in 0 .. k - n :
         \A i \in DOMAIN s : s[i].grp = g <=> b < i /\ i <= b + n
  BY DEF Whole
<1>2. b \in 0 .. l - n
  BY LenProperties
<1> QED BY <1>1, <1>2 DEF Whole

(* A new group is a block behind everything else. *)
LEMMA WholeNew ==
    ASSUME NEW s \in Seq(Event), NEW t \in Seq(Event), NEW g, Without(g, s),
           \A i \in DOMAIN t : t[i].grp = g
    PROVE  Whole(g, Len(t), s \o t, Len(s \o t))
<1>1. Len(s) \in 0 .. Len(s \o t) - Len(t)
  BY Concat
<1>2. ASSUME NEW i \in DOMAIN (s \o t)
      PROVE  (s \o t)[i].grp = g <=> Len(s) < i /\ i <= Len(s) + Len(t)
  <2>1. i \in 1 .. Len(s) \/ i \in Len(s) + 1 .. Len(s) + Len(t)
    BY Concat
  <2>2. CASE i \in 1 .. Len(s)
    <3>1. (s \o t)[i].grp # g
      BY <2>2, Concat DEF Without
    <3> QED BY <2>2, <3>1, Concat
  <2>3. CASE i \in Len(s) + 1 .. Len(s) + Len(t)
    <3>1. (s \o t)[i].grp = g
      BY <2>3, Concat
    <3> QED BY <2>3, <3>1, Concat
  <2> QED BY <2>1, <2>2, <2>3
<1> QED BY <1>1, <1>2 DEF Whole

(* A group that is whole in a sequence and not in the end of it is whole in *)
(* the beginning.                                                          *)
LEMMA WholeBefore ==
    ASSUME NEW s \in Seq(Event), NEW t \in Seq(Event), NEW g,
           NEW n \in Nat \ {0}, Whole(g, n, s \o t, Len(s \o t)), Without(g, t)
    PROVE  Whole(g, n, s, Len(s))
<1>1. PICK b \in 0 .. Len(s \o t) - n :
         \A i \in DOMAIN (s \o t) :
            (s \o t)[i].grp = g <=> b < i /\ i <= b + n
  BY DEF Whole
<1>2. b + n <= Len(s)
  <2>1. SUFFICES ASSUME b + n > Len(s) PROVE FALSE
    BY <1>1, Concat
  <2>2. b + n \in Len(s) + 1 .. Len(s) + Len(t) /\ b < b + n
    BY <1>1, <2>1, Concat
  <2>3. (s \o t)[b + n].grp = g
    <3>1. b + n \in DOMAIN (s \o t)
      BY <2>2, Concat
    <3> QED BY <1>1, <2>2, <3>1
  <2>4. (s \o t)[b + n] = t[b + n - Len(s)] /\ b + n - Len(s) \in DOMAIN t
    BY <2>2, Concat
  <2> QED BY <2>3, <2>4 DEF Without
<1>3. b \in 0 .. Len(s) - n
  BY <1>1, <1>2, Concat
<1>4. ASSUME NEW i \in DOMAIN s
      PROVE  s[i].grp = g <=> b < i /\ i <= b + n
  <2>1. i \in DOMAIN (s \o t) /\ (s \o t)[i] = s[i]
    BY Concat
  <2> QED BY <1>1, <2>1
<1> QED BY <1>3, <1>4 DEF Whole

(* A block has as many events as it says. *)
LEMMA CountOfWhole ==
    ASSUME NEW s \in Seq(Event), NEW g, NEW n \in Nat, NEW k \in 0 .. Len(s),
           Whole(g, n, s, k)
    PROVE  CountOf(g, s) = n
<1>1. PICK b \in 0 .. k - n :
         \A i \in DOMAIN s : s[i].grp = g <=> b < i /\ i <= b + n
  BY DEF Whole
<1>2. Len(s) \in Nat /\ DOMAIN s = 1 .. Len(s)
  BY LenProperties
<1>3. {i \in DOMAIN s : s[i].grp = g} = b + 1 .. b + n
  BY <1>1, <1>2
<1>4. Cardinality(b + 1 .. b + n) = n
  <2>1. b + 1 \in Int /\ b + n \in Int /\ (b + 1 > b + n <=> n = 0)
        /\ (b + n) - (b + 1) + 1 = n
    BY <1>1
  <2> QED BY <2>1, FS_Interval
<1> QED BY <1>3, <1>4 DEF CountOf

-----------------------------------------------------------------------------
(* The parts of the state as sequences of events *)

LEMMA Shape ==
    ASSUME TypeOK
    PROVE  /\ log \in Seq(Event) /\ batch \in Seq(Event)
           /\ pending \in Seq(Event) /\ InFlight \in Seq(Event)
           /\ Queue \in Seq(Event) /\ Stream \in Seq(Event)
           /\ Len(log) \in Nat /\ torn \in 0 .. Len(log)
           /\ Len(log) - torn \in 0 .. Len(log)
           /\ Len(Stream) = Len(log) + Len(InFlight) + Len(pending)
           /\ Len(InFlight) \in Nat /\ Len(pending) \in Nat
           /\ \A g \in Groups : size[g] \in Nat
<1>1. /\ log \in Seq(Event) /\ batch \in Seq(Event) /\ pending \in Seq(Event)
      /\ torn \in 0 .. Len(log)
  BY DEF TypeOK, DiskType, QueueType, WorkerType
<1>2. InFlight \in Seq(Event)
  BY <1>1, EmptySeq DEF InFlight
<1>3. /\ Queue \in Seq(Event) /\ Len(Queue) = Len(InFlight) + Len(pending)
      /\ Len(InFlight) \in Nat /\ Len(pending) \in Nat
  BY <1>1, <1>2, Concat DEF Queue
<1>4. /\ Stream \in Seq(Event) /\ Len(Stream) = Len(log) + Len(Queue)
      /\ Len(log) \in Nat
  BY <1>1, <1>3, Concat DEF Stream
<1>5. \A g \in Groups : size[g] \in Nat
  BY BoundsAssumption DEF TypeOK, AuxType
<1>6. Len(log) - torn \in 0 .. Len(log)
  BY <1>1, <1>4
<1>7. Len(Stream) = Len(log) + Len(InFlight) + Len(pending)
  BY <1>3, <1>4
<1> QED BY <1>1, <1>2, <1>3, <1>4, <1>5, <1>6, <1>7

LEMMA GroupEventsGroup ==
    ASSUME NEW g \in 0 .. MaxGroups + 1, NEW start \in Nat, NEW n \in Nat
    PROVE  /\ GroupEvents(g, start, n) \in Seq(Event)
           /\ Len(GroupEvents(g, start, n)) = n
           /\ DOMAIN GroupEvents(g, start, n) = 1 .. n
           /\ \A i \in 1 .. n : /\ GroupEvents(g, start, n)[i].grp = g
                                /\ GroupEvents(g, start, n)[i].seq = start + i - 1
<1>1. DOMAIN GroupEvents(g, start, n) = 1 .. n
  BY DEF GroupEvents
<1>2. \A i \in 1 .. n : GroupEvents(g, start, n)[i].grp = g
  BY DEF GroupEvents
<1> QED BY <1>1, <1>2, GroupEventsProperties

(* Closers belong to no group. *)
LEMMA ClosingsShape ==
    ASSUME TypeOK, NEW closers \in Closings
    PROVE  /\ closers \in Seq(Event)
           /\ \A g \in Groups : Without(g, closers)
           /\ closers = <<>> \/ (Len(closers) = 1 /\ closers[1].grp = Closer)
<1>1. closers \in Seq(Event)
  BY Shape, ClosingsContinue DEF Continues
<1>2. CASE closers = <<>>
  <2>1. DOMAIN closers = {}
    BY <1>2, EmptySeq
  <2> QED BY <1>1, <1>2, <2>1 DEF Without
<1>3. CASE closers = GroupEvents(Closer, Len(log), 1)
  <2>1. PICK n \in Nat : n = 1
    OBVIOUS
  <2>2. Closer \in 0 .. MaxGroups + 1 /\ Len(log) \in Nat /\ Closer \notin Groups
    BY Shape, BoundsAssumption DEF Closer, Groups
  <2>3. PICK l \in Nat : closers = GroupEvents(Closer, l, n)
    BY <1>3, <2>1, <2>2
  <2>4. /\ Len(closers) = n /\ DOMAIN closers = 1 .. n
        /\ \A i \in 1 .. n : closers[i].grp = Closer
    <3>1. PICK g \in 0 .. MaxGroups + 1 : g = Closer
      BY <2>2
    <3>2. /\ Len(GroupEvents(g, l, n)) = n
          /\ DOMAIN GroupEvents(g, l, n) = 1 .. n
      BY GroupEventsGroup
    <3>3. \A i \in 1 .. n : GroupEvents(g, l, n)[i].grp = g
      BY GroupEventsGroup
    <3> QED BY <2>3, <3>1, <3>2, <3>3
  <2>5. Len(closers) = 1 /\ closers[1].grp = Closer
    BY <2>1, <2>4
  <2> QED BY <1>1, <2>2, <2>4, <2>5 DEF Without
<1> QED BY <1>2, <1>3 DEF Closings

(* What an interrupted append leaves is a part of the batch. *)
LEMMA RemnantsShape ==
    ASSUME TypeOK, NEW r \in Remnants
    PROVE  \E k \in 0 .. Len(batch) : r = SubSeq(batch, 1, k)
<1>1. Len(batch) \in Nat
  BY Shape, LenProperties
<1>2. \A k \in (IF log = <<>> THEN {0, Len(batch)} ELSE 0 .. Len(batch)) :
         k \in 0 .. Len(batch)
  BY <1>1
<1> QED BY <1>2 DEF Remnants

(* The next group is the one behind those that were submitted. *)
LEMMA NextGroupIsNew ==
    ASSUME NamesInv, NextGroup \in Groups
    PROVE  /\ NextGroup \notin Submitted
           /\ Submitted \cup {NextGroup} = 1 .. NextGroup
           /\ NextGroup \in 0 .. MaxGroups
           /\ Without(NextGroup, log) /\ Absent(NextGroup)
<1>1. PICK n \in 0 .. MaxGroups : Submitted = 1 .. n
  BY DEF NamesInv
<1>2. Cardinality(1 .. n) = n
  <2>1. 1 \in Int /\ n \in Int /\ (1 > n <=> n = 0) /\ n - 1 + 1 = n
    BY <1>1, BoundsAssumption
  <2> QED BY <2>1, FS_Interval
<1>3. NextGroup = n + 1
  BY <1>1, <1>2 DEF NextGroup
<1>4. NextGroup \notin Submitted
  BY <1>1, <1>3, BoundsAssumption
<1>5. Submitted \cup {NextGroup} = 1 .. NextGroup /\ NextGroup \in 0 .. MaxGroups
  BY <1>1, <1>3, BoundsAssumption DEF Groups
<1> QED BY <1>4, <1>5 DEF NamesInv

-----------------------------------------------------------------------------
(* The log: a group of which nothing is being written keeps the block it    *)
(* has outside a torn frame, and if it has none it gets none.              *)
LEMMA LogStep ==
    ASSUME TypeOK, [Next]_vars, NEW g \in Groups, Without(g, InFlight)
    PROVE  /\ \A n \in Nat : Whole(g, n, log, Len(log) - torn) =>
                 Whole(g, n, log', Len(log') - torn')
           /\ Without(g, log) => Without(g, log')
<1> DEFINE Goal ==
      /\ \A n \in Nat : Whole(g, n, log, Len(log) - torn) =>
            Whole(g, n, log', Len(log') - torn')
      /\ Without(g, log) => Without(g, log')
<1>p. /\ log \in Seq(Event) /\ batch \in Seq(Event)
      /\ Len(log) \in Nat /\ torn \in 0 .. Len(log)
      /\ Len(log) - torn \in 0 .. Len(log)
  BY Shape
<1>g. ASSUME NEW t \in Seq(Event), Without(g, t), log' = log \o t,
             torn' \in {0, torn, Len(t)}
      PROVE  Goal
  <2>1. /\ log' \in Seq(Event) /\ Len(log') = Len(log) + Len(t)
        /\ Len(t) \in Nat
    BY <1>g, <1>p, Concat
  <2>2. Len(log') - torn' \in Len(log) - torn .. Len(log')
    BY <1>g, <1>p, <2>1
  <2>3. \A n \in Nat : Whole(g, n, log, Len(log) - torn) =>
           Whole(g, n, log \o t, Len(log') - torn')
    BY <1>g, <1>p, <2>2, WholeExtended
  <2>4. Without(g, log) => Without(g, log \o t)
    BY <1>g, <1>p, WithoutConcat
  <2> QED BY <1>g, <2>3, <2>4
<1>u. ASSUME UNCHANGED <<log, torn>> PROVE Goal
  BY <1>u
<1>b. workerPc = "write" => Without(g, batch)
  BY DEF InFlight
<1>r. ASSUME workerPc = "write", NEW r \in Remnants, Interrupted(r) PROVE Goal
  <2>1. PICK k \in 0 .. Len(batch) : r = SubSeq(batch, 1, k)
    BY RemnantsShape
  <2>2. r \in Seq(Event) /\ Without(g, r)
    BY <1>b, <1>p, <1>r, <2>1, Cut, WithoutCut
  <2>3. log' = log \o r /\ torn' \in {0, torn, Len(r)}
    BY <1>r DEF Interrupted
  <2> QED BY <1>g, <2>2, <2>3
<1>1. CASE WriteCommits
  BY <1>1, <1>b, <1>g, <1>p DEF WriteCommits
<1>2. CASE WriteUnknown
  BY <1>2, <1>r, <1>u DEF WriteUnknown
<1>3. CASE Crash
  BY <1>3, <1>r, <1>u DEF Crash
<1>4. CASE LoadRepair \/ Reopen
  <2>1. PICK closers \in Closings : log' = log \o closers /\ torn' = 0
    BY <1>4 DEF LoadRepair, Reopen, Repaired
  <2>2. closers \in Seq(Event) /\ Without(g, closers)
    BY ClosingsShape
  <2> QED BY <1>g, <2>1, <2>2
<1>5. CASE RepairInterrupted
  <2>0. PICK closers \in Closings :
           \E k \in Len(log) - torn .. Len(log \o closers) :
              /\ log' = SubSeq(log \o closers, 1, k)
              /\ torn' \in {0, k - (Len(log) - torn)}
    BY <1>5 DEF RepairInterrupted
  <2>1. PICK k \in Len(log) - torn .. Len(log \o closers) :
           /\ log' = SubSeq(log \o closers, 1, k)
           /\ torn' \in {0, k - (Len(log) - torn)}
    BY <2>0
  <2>2. closers \in Seq(Event) /\ Without(g, closers)
    BY ClosingsShape
  <2>3. PICK s \in Seq(Event) : s = log \o closers
    BY <1>p, <2>2, Concat
  <2>4. PICK m \in Nat : m = Len(log) - torn
    BY <1>p
  <2>5. Len(s) \in Nat /\ m \in 0 .. Len(log) /\ m \in m .. Len(s)
    BY <1>p, <2>2, <2>3, <2>4, Concat
  <2>6. k \in 0 .. Len(s) /\ m \in 0 .. k /\ k \in m .. Len(s)
    BY <1>p, <2>1, <2>3, <2>4, <2>5
  <2>7. /\ SubSeq(s, 1, k) \in Seq(Event) /\ Len(SubSeq(s, 1, k)) = k
        /\ log' = SubSeq(s, 1, k)
    BY <2>1, <2>3, <2>6, Cut
  <2>8. k - torn' \in m .. k
    <3>1. PICK d \in {0, k - m} : d = torn'
      BY <2>1, <2>4
    <3>2. k \in Int /\ m \in Int /\ m <= k
      BY <2>5, <2>6
    <3>3. (d = 0 \/ d = k - m) => k - d \in m .. k
      BY <3>2
    <3> QED BY <3>1, <3>3
  <2>9. ASSUME NEW n \in Nat, Whole(g, n, log, m)
        PROVE  Whole(g, n, SubSeq(s, 1, k), k - torn')
    <3>1. Whole(g, n, s, m)
      BY <1>p, <2>2, <2>3, <2>5, <2>9, WholeExtended
    <3>2. Whole(g, n, SubSeq(s, 1, k), m)
      BY <2>6, <3>1, WholeKept
    <3>3. m \in 0 .. Len(SubSeq(s, 1, k)) /\ k - torn' \in m .. Len(SubSeq(s, 1, k))
      BY <2>6, <2>7, <2>8
    <3> QED BY <2>7, <3>2, <3>3, WholeWeakened
  <2>10. Without(g, log) => Without(g, SubSeq(s, 1, k))
    BY <1>p, <2>2, <2>3, <2>6, WithoutConcat, WithoutCut
  <2> QED BY <2>4, <2>7, <2>9, <2>10
<1>6. CASE \E c \in Clients : ClientCall(c) \/ ClientStep(c)
  <2>1. UNCHANGED <<log, torn, poisoned>>
    BY <1>6 DEF ClientCall, ClientStep, diskVars, AppendAtomic, FlushStart,
       DurableStart, CloseStart, CloseAgain, FlushEnter, FlushWake,
       FlushReturn, DurableCommitted, DurableFailed, DiscardTail,
       DiscardRefused, DurableRollback, CloseJoin
  <2> QED BY <1>u, <2>1
<1>7. CASE \/ EnqueueSeed \/ WorkerTake \/ WriteNotCommitted
           \/ SettleCommitted \/ SettleRestored \/ SettleDropped \/ WorkerExit
           \/ WindowExpires \/ Release \/ UNCHANGED vars
  <2>1. UNCHANGED <<log, torn, poisoned>>
    BY <1>7 DEF vars, diskVars, EnqueueSeed, WorkerTake, WriteNotCommitted,
       SettleCommitted, SettleRestored, SettleDropped, WorkerExit,
       WindowExpires, Release
  <2> QED BY <1>u, <2>1
<1> QED
  BY <1>1, <1>2, <1>3, <1>4, <1>5, <1>6, <1>7 DEF Next, WorkerStep

-----------------------------------------------------------------------------
(* Groups get their size when they are submitted, as the next group. *)
LEMMA SizeStep ==
    ASSUME [Next]_vars
    PROVE  \/ size' = size
           \/ /\ NextGroup \in Groups
              /\ \E n \in 1 .. MaxGroupSize :
                    size' = [size EXCEPT ![NextGroup] = n]
<1>1. CASE \E c \in Clients : AppendAtomic(c) \/ DurableStart(c)
  BY <1>1 DEF AppendAtomic, DurableStart
<1>2. ASSUME NEW c \in Clients,
             \/ FlushStart(c) \/ CloseStart(c) \/ CloseAgain(c) \/ ClientStep(c)
      PROVE  size' = size
  BY <1>2 DEF FlushStart, CloseStart, CloseAgain, ClientStep,
     FlushEnter, FlushWake, FlushReturn, DurableCommitted, DurableFailed,
     DiscardTail, DiscardRefused, DurableRollback, CloseJoin, auxVars
<1>3. CASE EnqueueSeed \/ WorkerStep \/ WindowExpires \/ UNCHANGED vars
  BY <1>3 DEF EnqueueSeed, WorkerStep, WorkerTake, WriteCommits,
     WriteNotCommitted, WriteUnknown, SettleCommitted, SettleRestored,
     SettleDropped, WorkerExit, WindowExpires, vars, auxVars
<1>4. CASE Crash \/ Release \/ LoadRepair \/ RepairInterrupted \/ Reopen
  BY <1>4 DEF Crash, Release, LoadRepair, RepairInterrupted, Reopen, auxVars
<1> QED BY <1>1, <1>2, <1>3, <1>4 DEF Next, ClientCall

LEMMA SubmittedStep ==
    ASSUME TypeOK, NamesInv, [Next]_vars
    PROVE  /\ \E n \in 0 .. MaxGroups : Submitted' = 1 .. n
           /\ Submitted \subseteq Submitted'
           /\ \A g \in Submitted : size'[g] = size[g]
           /\ \A g \in Groups \ Submitted' : size'[g] = size[g]
<1>1. CASE size' = size
  <2>1. Submitted' = Submitted
    BY <1>1 DEF Submitted
  <2> QED BY <1>1, <2>1 DEF NamesInv
<1>2. ASSUME NextGroup \in Groups, NEW n \in 1 .. MaxGroupSize,
             size' = [size EXCEPT ![NextGroup] = n]
      PROVE  /\ \E k \in 0 .. MaxGroups : Submitted' = 1 .. k
             /\ Submitted \subseteq Submitted'
             /\ \A g \in Submitted : size'[g] = size[g]
             /\ \A g \in Groups \ Submitted' : size'[g] = size[g]
  <2>1. PICK h \in Groups : h = NextGroup
    BY <1>2
  <2>2. /\ size \in [Groups -> 0 .. MaxGroupSize]
        /\ size' = [size EXCEPT ![h] = n] /\ n > 0
    BY <1>2, <2>1 DEF TypeOK, AuxType
  <2>3. Submitted' = Submitted \cup {h}
    BY <2>2 DEF Submitted
  <2>4. h \notin Submitted /\ Submitted \cup {h} = 1 .. h /\ h \in 0 .. MaxGroups
    BY <2>1, NextGroupIsNew
  <2>5. \A g \in Groups : g # h => size'[g] = size[g]
    BY <2>2
  <2> QED BY <2>3, <2>4, <2>5 DEF Submitted
<1> QED BY <1>1, <1>2, SizeStep

(* What is queued after a step was queued before it or is enqueued by it.   *)
Queued(e) == \E events \in {InFlight, pending} :
                \E i \in DOMAIN events : events[i] = e

Enqueued(e) ==
    /\ up /\ ~fatal /\ ~closed /\ transaction = Nobody
    /\ e.seq >= nextSeq
    /\ \/ EnqueueSeed /\ e.grp = Seed
       \/ /\ \E c \in Clients : AppendAtomic(c) \/ DurableStart(c)
          /\ e.grp = NextGroup /\ NextGroup \in Groups

LEMMA QueuedStep ==
    ASSUME TypeOK, [Next]_vars, NEW e, Queued(e)'
    PROVE  Queued(e) \/ Enqueued(e)
<1>p. /\ pending \in Seq(Event) /\ batch \in Seq(Event)
      /\ InFlight \in Seq(Event) /\ nextSeq \in Nat
  BY Shape DEF TypeOK, CoreType
<1>e. DOMAIN <<>> = {}
  BY EmptySeq
<1>a. \/ \E i \in DOMAIN InFlight' : InFlight'[i] = e
      \/ \E i \in DOMAIN pending' : pending'[i] = e
  BY DEF Queued
<1>u. ASSUME pending' = pending \/ pending' = <<>>,
             InFlight' = InFlight \/ InFlight' = <<>>
      PROVE  Queued(e)
  BY <1>a, <1>e, <1>u DEF Queued
<1>q. ASSUME NEW h \in 0 .. MaxGroups + 1, NEW n \in 1 .. MaxGroupSize,
             EnqueueGroup(h, n), UNCHANGED workerVars, ~Queued(e)
      PROVE  ~fatal /\ ~closed /\ e.grp = h /\ e.seq >= nextSeq
  <2>1. n \in Nat /\ pending' = pending \o GroupEvents(h, nextSeq, n)
    BY <1>q, BoundsAssumption DEF EnqueueGroup, Enqueue
  <2>2. PICK t \in Seq(Event) :
           /\ t = GroupEvents(h, nextSeq, n)
           /\ DOMAIN t = 1 .. n
           /\ \A i \in 1 .. n : t[i].grp = h /\ t[i].seq = nextSeq + i - 1
    BY <1>p, <2>1, GroupEventsGroup, ZenonT(40)
  <2>3. InFlight' = InFlight
    BY <1>q DEF workerVars, InFlight
  <2>4. PICK i \in DOMAIN (pending \o t) : (pending \o t)[i] = e
    BY <1>a, <1>q, <2>1, <2>2, <2>3 DEF Queued
  <2>5. CASE i \in 1 .. Len(pending)
    <3>1. i \in DOMAIN pending /\ pending[i] = e
      BY <1>p, <2>4, <2>5, Concat
    <3> QED BY <1>q, <3>1 DEF Queued
  <2>6. CASE i \in Len(pending) + 1 .. Len(pending) + Len(t)
    <3>1. PICK j \in DOMAIN t : t[j] = e
      BY <1>p, <2>4, <2>6, Concat
    <3>2. e.grp = h /\ e.seq >= nextSeq
      BY <1>p, <2>2, <3>1
    <3> QED BY <1>q, <3>2 DEF EnqueueGroup, Enqueue
  <2>7. i \in 1 .. Len(pending) \/ i \in Len(pending) + 1 .. Len(pending) + Len(t)
    BY <1>p, <2>4, Concat
  <2> QED BY <2>5, <2>6, <2>7
<1>1. ASSUME NEW c \in Clients, AppendAtomic(c) \/ DurableStart(c)
      PROVE  Queued(e) \/ Enqueued(e)
  <2>1. NextGroup \in Groups /\ UNCHANGED workerVars /\ up /\ transaction = Nobody
    BY <1>1 DEF AppendAtomic, DurableStart
  <2>2. PICK n \in 1 .. MaxGroupSize : EnqueueGroup(NextGroup, n)
    BY <1>1 DEF AppendAtomic, DurableStart
  <2>3. NextGroup \in 0 .. MaxGroups + 1
    BY <2>1, BoundsAssumption DEF Groups
  <2> QED BY <1>1, <1>q, <2>1, <2>2, <2>3 DEF Enqueued
<1>2. CASE EnqueueSeed
  <2>1. EnqueueGroup(Seed, 1) /\ UNCHANGED workerVars /\ up /\ transaction = Nobody
    BY <1>2 DEF EnqueueSeed
  <2>2. Seed \in 0 .. MaxGroups + 1 /\ 1 \in 1 .. MaxGroupSize
    BY BoundsAssumption DEF Seed
  <2> QED BY <1>2, <1>q, <2>1, <2>2 DEF Enqueued
<1>3. ASSUME NEW c \in Clients, DiscardTail(c) PROVE Queued(e)
  <2>1. PICK k \in 0 .. Len(pending) : pending' = SubSeq(pending, 1, k)
    BY <1>3 DEF DiscardTail
  <2>2. InFlight' = InFlight
    BY <1>3 DEF DiscardTail, workerVars, InFlight
  <2>3. \A i \in DOMAIN pending' : i \in DOMAIN pending /\ pending'[i] = pending[i]
    BY <1>p, <2>1, Cut
  <2> QED BY <1>a, <2>2, <2>3 DEF Queued
<1>4. CASE WorkerTake
  <2>1. pending' = <<>> /\ batch' = pending /\ workerPc' = "write"
    BY <1>4 DEF WorkerTake
  <2>2. InFlight' = pending
    BY <2>1 DEF InFlight
  <2> QED BY <1>a, <1>e, <2>1, <2>2 DEF Queued
<1>5. CASE SettleRestored
  <2>1. /\ pending' = batch \o pending /\ workerPc' = "wait"
        /\ workerPc = "settle" /\ written = "failed"
    BY <1>5 DEF SettleRestored, Restored
  <2>2. InFlight = batch /\ InFlight' = <<>>
    BY <2>1 DEF InFlight
  <2>3. PICK i \in DOMAIN (batch \o pending) : (batch \o pending)[i] = e
    BY <1>a, <1>e, <2>1, <2>2
  <2>4. \/ \E j \in DOMAIN batch : batch[j] = e
        \/ \E j \in DOMAIN pending : pending[j] = e
    <3>1. i \in 1 .. Len(batch) \/ i \in Len(batch) + 1 .. Len(batch) + Len(pending)
      BY <1>p, <2>3, Concat
    <3> QED BY <1>p, <2>3, <3>1, Concat
  <2> QED BY <2>2, <2>4 DEF Queued
<1>6. CASE WriteCommits \/ WriteNotCommitted \/ WriteUnknown \/ SettleCommitted
           \/ SettleDropped
  BY <1>6, <1>u DEF WriteCommits, WriteNotCommitted, WriteUnknown, WriteOutcome,
     SettleCommitted, SettleDropped, InFlight, queueVars
<1>7. ASSUME NEW c \in Clients,
             \/ FlushStart(c) \/ CloseStart(c) \/ CloseAgain(c) \/ FlushEnter(c)
             \/ FlushWake(c) \/ FlushReturn(c) \/ DurableCommitted(c)
             \/ DurableFailed(c) \/ DiscardRefused(c) \/ DurableRollback(c)
             \/ CloseJoin(c)
      PROVE  Queued(e)
  <2>1. UNCHANGED <<pending, workerPc, batch, written>>
    BY <1>7 DEF FlushStart, CloseStart, CloseAgain, FlushEnter, FlushWake,
       FlushReturn, DurableCommitted, DurableFailed, DiscardRefused,
       DurableRollback, CloseJoin, queueVars, workerVars
  <2> QED BY <1>u, <2>1 DEF InFlight
<1>8. CASE WorkerExit \/ WindowExpires \/ UNCHANGED vars
           \/ LoadRepair \/ RepairInterrupted \/ Reopen
  BY <1>8, <1>u DEF WorkerExit, WindowExpires, LoadRepair, RepairInterrupted,
     Reopen, vars, queueVars, workerVars, InFlight
<1>9. CASE Crash \/ Release
  BY <1>9, <1>u DEF Crash, Release, Forget, InFlight
<1> QED
  BY <1>1, <1>2, <1>3, <1>4, <1>5, <1>6, <1>7, <1>8, <1>9
     DEF Next, ClientCall, ClientStep, WorkerStep

(* A group of which nothing is queued stays so, unless it is submitted. *)
LEMMA AbsentStep ==
    ASSUME TypeOK, [Next]_vars, NEW g \in Groups, Absent(g),
           NamesInv, size'[g] = size[g]
    PROVE  Absent(g)'
<1>1. ASSUME NEW e, Queued(e)' PROVE e.grp # g
  <2>1. CASE Queued(e)
    BY <2>1 DEF Queued, Absent, Without
  <2>2. CASE Enqueued(e)
    <3>1. Seed # g
      BY BoundsAssumption DEF Seed, Groups
    <3>2. SUFFICES ASSUME NextGroup = g,
                          \E c \in Clients : AppendAtomic(c) \/ DurableStart(c)
                   PROVE  FALSE
      BY <2>2, <3>1 DEF Enqueued
    <3>3. \E n \in 1 .. MaxGroupSize : size' = [size EXCEPT ![g] = n]
      BY <3>2 DEF AppendAtomic, DurableStart
    <3>4. size'[g] > 0 /\ ~(size[g] > 0)
      BY <3>2, <3>3, NextGroupIsNew, BoundsAssumption
         DEF TypeOK, AuxType, Submitted
    <3> QED BY <3>4
  <2> QED BY <1>1, <2>1, <2>2, QueuedStep
<1>2. /\ \A i \in DOMAIN InFlight' : InFlight'[i].grp # g
      /\ \A i \in DOMAIN pending' : pending'[i].grp # g
  BY <1>1 DEF Queued
<1> QED BY <1>2 DEF Absent, Without

-----------------------------------------------------------------------------
(* A client gets a claim by submitting the next group.                     *)
LEMMA ClaimStep ==
    ASSUME IInv, [Next]_vars, NEW c \in Clients, NEW g \in Claimed(c)'
    PROVE  \/ g \in Claimed(c)
           \/ /\ g = NextGroup /\ pc[c] = "idle" /\ up /\ transaction = Nobody
              /\ AppendAtomic(c) \/ DurableStart(c)
<1>p. ClientType
  BY DEF IInv, TypeOK
<1>1. ASSUME NEW d \in Clients, AppendAtomic(d) \/ DurableStart(d)
      PROVE  \/ g \in Claimed(c)
             \/ /\ g = NextGroup /\ pc[c] = "idle" /\ up /\ transaction = Nobody
                /\ AppendAtomic(c) \/ DurableStart(c)
  <2>1. CASE d # c
    BY <1>1, <1>p, <2>1
       DEF AppendAtomic, DurableStart, ClientType, Claimed, Appending
  <2>2. CASE d = c
    <3>1. pc[c] = "idle" /\ up /\ transaction = Nobody
      BY <1>1, <2>2 DEF AppendAtomic, DurableStart
    <3>2. g \in mine[c] \/ g = NextGroup
                \/ (Appending(c) /\ g = txn[c].grp)
      BY <1>1, <1>p, <2>2
         DEF AppendAtomic, DurableStart, ClientType, Claimed, Appending
    <3> QED BY <1>1, <2>2, <3>1, <3>2 DEF Claimed
  <2> QED BY <2>1, <2>2
<1>2. ASSUME NEW d \in Clients,
             FlushStart(d) \/ CloseStart(d) \/ CloseAgain(d) \/ ClientStep(d)
      PROVE  g \in Claimed(c)
  BY <1>2, <1>p
     DEF FlushStart, CloseStart, CloseAgain, ClientStep,
     FlushEnter, FlushWake, FlushReturn, DurableCommitted, DurableFailed,
     DiscardTail, DiscardRefused, DurableRollback, CloseJoin, DurableReturn,
     Return, ClientType, Claimed, Appending, clientVars
<1>3. CASE EnqueueSeed \/ WorkerStep \/ WindowExpires \/ UNCHANGED vars
           \/ LoadRepair \/ RepairInterrupted \/ Reopen
  BY <1>3 DEF EnqueueSeed, WorkerStep, WorkerTake, WriteCommits,
     WriteNotCommitted, WriteUnknown, WriteOutcome, SettleCommitted,
     SettleRestored, SettleDropped, WorkerExit, WindowExpires, LoadRepair,
     RepairInterrupted, Reopen, vars, clientVars, Claimed, Appending
<1>4. CASE Crash \/ Release
  BY <1>4 DEF Crash, Release, Forget, Claimed, Appending
<1> QED BY <1>1, <1>2, <1>3, <1>4 DEF Next, ClientCall

(* A durable append keeps its group and range until it is decided.         *)
LEMMA AppendingStep ==
    ASSUME IInv, [Next]_vars, NEW c \in Clients, Appending(c)'
    PROVE  DurableStart(c) \/ (Appending(c) /\ txn'[c] = txn[c])
<1>p. ClientType
  BY DEF IInv, TypeOK
<1>1. ASSUME NEW d \in Clients, AppendAtomic(d) \/ DurableStart(d)
      PROVE  DurableStart(c) \/ (Appending(c) /\ txn'[c] = txn[c])
  <2>1. CASE d # c
    BY <1>1, <1>p, <2>1
       DEF AppendAtomic, DurableStart, ClientType, Appending
  <2>2. CASE d = c
    BY <1>1, <1>p, <2>2
       DEF AppendAtomic, DurableStart, ClientType, Appending
  <2> QED BY <2>1, <2>2
<1>2. ASSUME NEW d \in Clients,
             FlushStart(d) \/ CloseStart(d) \/ CloseAgain(d) \/ ClientStep(d)
      PROVE  Appending(c) /\ txn'[c] = txn[c]
  BY <1>2, <1>p
     DEF FlushStart, CloseStart, CloseAgain, ClientStep,
     FlushEnter, FlushWake, FlushReturn, DurableCommitted, DurableFailed,
     DiscardTail, DiscardRefused, DurableRollback, CloseJoin, DurableReturn,
     Return, ClientType, Appending, clientVars
<1>3. CASE EnqueueSeed \/ WorkerStep \/ WindowExpires \/ UNCHANGED vars
           \/ LoadRepair \/ RepairInterrupted \/ Reopen
  BY <1>3 DEF EnqueueSeed, WorkerStep, WorkerTake, WriteCommits,
     WriteNotCommitted, WriteUnknown, WriteOutcome, SettleCommitted,
     SettleRestored, SettleDropped, WorkerExit, WindowExpires, LoadRepair,
     RepairInterrupted, Reopen, vars, clientVars, Appending
<1>4. CASE Crash \/ Release
  BY <1>4 DEF Crash, Release, Forget, Appending
<1> QED BY <1>1, <1>2, <1>3, <1>4 DEF Next, ClientCall

(* A group is reported durable to the client that claims it, after a flush  *)
(* that succeeded and while the coordinator is not fatal.                  *)
LEMMA AckStep ==
    ASSUME IInv, [Next]_vars, NEW g \in acked', g \notin acked
    PROVE  /\ up /\ ~fatal /\ UNCHANGED <<log, torn, lost>>
           /\ \E c \in Clients : /\ pc[c] = "flushed" /\ result[c] = "ok"
                                 /\ g \in Claimed(c)
<1>1. ASSUME NEW c \in Clients, up, FlushReturn(c)
      PROVE  /\ ~fatal /\ UNCHANGED <<log, torn, lost>>
             /\ pc[c] = "flushed" /\ result[c] = "ok" /\ g \in Claimed(c)
  BY <1>1 DEF FlushReturn, Claimed, diskVars
<1>2. ASSUME NEW c \in Clients, up, DurableCommitted(c)
      PROVE  /\ ~fatal /\ UNCHANGED <<log, torn, lost>>
             /\ pc[c] = "flushed" /\ result[c] = "ok" /\ g \in Claimed(c)
  BY <1>2 DEF DurableCommitted, Claimed, Appending, diskVars
<1>3. ASSUME NEW c \in Clients,
             \/ AppendAtomic(c) \/ DurableStart(c)
             \/ FlushStart(c) \/ CloseStart(c) \/ CloseAgain(c) \/ FlushEnter(c)
             \/ FlushWake(c) \/ DurableFailed(c) \/ DiscardTail(c)
             \/ DiscardRefused(c) \/ DurableRollback(c) \/ CloseJoin(c)
      PROVE  FALSE
  BY <1>3 DEF AppendAtomic, DurableStart, FlushStart, CloseStart, CloseAgain,
     FlushEnter, FlushWake, DurableFailed, DiscardTail, DiscardRefused,
     DurableRollback, CloseJoin, auxVars
<1>4. CASE EnqueueSeed \/ WorkerStep \/ WindowExpires \/ UNCHANGED vars
           \/ Crash \/ Release \/ LoadRepair \/ RepairInterrupted \/ Reopen
  BY <1>4 DEF EnqueueSeed, WorkerStep, WorkerTake, WriteCommits,
     WriteNotCommitted, WriteUnknown, SettleCommitted, SettleRestored,
     SettleDropped, WorkerExit, WindowExpires, Crash, Release, LoadRepair,
     RepairInterrupted, Reopen, vars, auxVars
<1> QED BY <1>1, <1>2, <1>3, <1>4 DEF Next, ClientCall, ClientStep

(* A process ends by a crash or the release of its coordinator and starts   *)
(* by opening the log; as long as it runs it stays fatal once it is.       *)
LEMMA UpStep ==
    ASSUME [Next]_vars
    PROVE  /\ up /\ ~up' => Crash \/ Release
           /\ ~up /\ up' => Reopen
           /\ up /\ up' /\ fatal => fatal'
<1>1. ASSUME NEW c \in Clients, ClientCall(c) \/ ClientStep(c)
      PROVE  up' = up /\ fatal' = fatal
  BY <1>1
     DEF ClientCall, ClientStep, AppendAtomic, DurableStart, EnqueueGroup,
     FlushStart, CloseStart, CloseAgain, FlushEnter, FlushWake, FlushReturn,
     DurableCommitted, DurableFailed, DiscardTail, DiscardRefused,
     DurableRollback, CloseJoin, coreVars, clientVars
<1>2. CASE EnqueueSeed \/ WorkerStep \/ WindowExpires \/ UNCHANGED vars
  BY <1>2
     DEF EnqueueSeed, EnqueueGroup, WorkerStep, WorkerTake, WriteCommits,
     WriteNotCommitted, WriteUnknown, WriteOutcome, SettleCommitted,
     SettleRestored, SettleDropped, WorkerExit, WindowExpires, vars,
     coreVars, clientVars
<1>4. CASE LoadRepair \/ RepairInterrupted
  <2>1. ~up /\ up' = up
    BY <1>4 DEF LoadRepair, RepairInterrupted, clientVars
  <2> QED BY <2>1
<1>5. Reopen => ~up
  BY DEF Reopen
<1>6. Crash \/ Release => up /\ ~up'
  BY DEF Crash, Release, Forget
<1> QED BY <1>1, <1>2, <1>4, <1>5, <1>6 DEF Next

(* What a closed writer dropped stays dropped. *)
LEMMA LostStep == [Next]_vars => lost \subseteq lost'
<1> SUFFICES ASSUME [Next]_vars PROVE lost \subseteq lost'
  OBVIOUS
<1>1. ASSUME NEW c \in Clients, ClientCall(c) \/ ClientStep(c)
      PROVE  lost' = lost
  BY <1>1
     DEF ClientCall, ClientStep, AppendAtomic, DurableStart,
     FlushStart, CloseStart, CloseAgain, FlushEnter, FlushWake, FlushReturn,
     DurableCommitted, DurableFailed, DiscardTail, DiscardRefused,
     DurableRollback, CloseJoin, auxVars
<1>2. CASE EnqueueSeed \/ WorkerStep \/ WindowExpires \/ UNCHANGED vars
  BY <1>2
     DEF EnqueueSeed, WorkerStep, WorkerTake, WriteCommits,
     WriteNotCommitted, WriteUnknown, SettleCommitted,
     SettleRestored, SettleDropped, WorkerExit, WindowExpires, vars, auxVars
<1>3. CASE Crash \/ Release \/ LoadRepair \/ RepairInterrupted \/ Reopen
  BY <1>3 DEF Crash, Release, LoadRepair, RepairInterrupted, Reopen, auxVars
<1> QED BY <1>1, <1>2, <1>3 DEF Next

-----------------------------------------------------------------------------
LEMMA NamesStep == IInv /\ DInv /\ [Next]_vars => NamesInv'
<1> SUFFICES ASSUME IInv, DInv, [Next]_vars PROVE NamesInv'
  OBVIOUS
<1>p. TypeOK /\ NamesInv /\ ClientControl /\ ClientType
  BY DEF IInv, ControlInv, DInv, TypeOK
<1>s. /\ \E n \in 0 .. MaxGroups : Submitted' = 1 .. n
      /\ Submitted \subseteq Submitted'
      /\ \A g \in Groups \ Submitted' : size'[g] = size[g]
  BY <1>p, SubmittedStep
<1>n. ASSUME NEW c \in Clients, AppendAtomic(c) \/ DurableStart(c)
      PROVE  NextGroup \in Submitted' /\ NextGroup \notin Submitted
  <2>1. PICK h \in Groups : h = NextGroup
    BY <1>n DEF AppendAtomic, DurableStart
  <2>2. PICK n \in 1 .. MaxGroupSize : size' = [size EXCEPT ![h] = n]
    BY <1>n, <2>1 DEF AppendAtomic, DurableStart
  <2>3. size'[h] = n /\ n > 0
    BY <1>p, <2>2 DEF TypeOK, AuxType
  <2> QED BY <1>p, <2>1, <2>3, NextGroupIsNew DEF Submitted
<1>1. ASSUME NEW g \in Groups \ Submitted'
      PROVE  Without(g, log)' /\ Absent(g)'
  <2>1. g \in Groups /\ g \notin Submitted /\ size'[g] = size[g]
    BY <1>s
  <2>2. Without(g, log) /\ Absent(g)
    BY <1>p, <2>1 DEF NamesInv
  <2>3. Without(g, log')
    BY <1>p, <2>1, <2>2, LogStep DEF Absent
  <2>4. Absent(g)'
    BY <1>p, <2>1, <2>2, AbsentStep
  <2> QED BY <2>3, <2>4
<1>2. ASSUME NEW c \in Clients, NEW g \in Claimed(c)' PROVE g \in Submitted'
  BY <1>2, <1>n, <1>p, <1>s, ClaimStep DEF NamesInv
<1>3. acked' \subseteq Submitted'
  BY <1>p, <1>s, AckStep DEF NamesInv
<1>4. ASSUME NEW c \in Clients, NEW d \in Clients, Appending(c)'
      PROVE  txn'[c].grp \notin mine'[d]
  <2>1. CASE DurableStart(c)
    <3>1. txn'[c].grp = NextGroup /\ mine' = mine
      BY <1>p, <2>1 DEF DurableStart, ClientType
    <3>2. mine[d] \subseteq Submitted
      BY <1>p DEF NamesInv, Claimed
    <3> QED BY <1>n, <2>1, <3>1, <3>2
  <2>2. CASE Appending(c) /\ txn'[c] = txn[c]
    <3>1. transaction = c
      BY <1>p, <2>2 DEF ClientControl, Appending
    <3>2. ASSUME NEW g \in mine'[d] PROVE g \in Claimed(d)
      <4>1. g \in Claimed(d)'
        BY <3>2 DEF Claimed
      <4> QED BY <3>1, <4>1, ClaimStep, NobodyAssumption
    <3>3. ASSUME d # c PROVE Claimed(d) = mine[d]
      BY <1>p, <3>1, <3>3 DEF ClientControl, Claimed, Appending
    <3>4. mine'[c] \subseteq mine[c]
      <4>1. \A e \in Clients : ~AppendAtomic(e)
        BY <3>1, NobodyAssumption DEF AppendAtomic
      <4>2. CASE \E e \in Clients : FlushReturn(e)
        BY <1>p, <4>2 DEF FlushReturn, ClientType
      <4>3. CASE Crash \/ Release
        BY <4>3 DEF Crash, Release, Forget
      <4>4. CASE \E e \in Clients :
                    \/ DurableStart(e) \/ FlushStart(e) \/ CloseStart(e)
                    \/ CloseAgain(e) \/ FlushEnter(e) \/ FlushWake(e)
                    \/ DurableCommitted(e) \/ DurableFailed(e)
                    \/ DiscardTail(e) \/ DiscardRefused(e)
                    \/ DurableRollback(e) \/ CloseJoin(e)
        BY <4>4 DEF DurableStart, FlushStart, CloseStart, CloseAgain,
           FlushEnter, FlushWake, DurableCommitted, DurableFailed,
           DiscardTail, DiscardRefused, DurableRollback, CloseJoin, clientVars
      <4>5. CASE EnqueueSeed \/ WorkerStep \/ WindowExpires \/ UNCHANGED vars
                 \/ LoadRepair \/ RepairInterrupted \/ Reopen
        BY <4>5 DEF EnqueueSeed, WorkerStep, WorkerTake, WriteCommits,
           WriteNotCommitted, WriteUnknown, WriteOutcome, SettleCommitted,
           SettleRestored, SettleDropped, WorkerExit, WindowExpires,
           LoadRepair, RepairInterrupted, Reopen, vars, clientVars
      <4> QED BY <4>1, <4>2, <4>3, <4>4, <4>5 DEF Next, ClientCall, ClientStep
    <3>5. txn[c].grp \notin mine[d]
      BY <1>p, <2>2 DEF NamesInv
    <3>6. CASE d = c
      BY <2>2, <3>4, <3>5, <3>6
    <3>7. CASE d # c
      BY <2>2, <3>2, <3>3, <3>5, <3>7
    <3> QED BY <3>6, <3>7
  <2> QED BY <1>4, <2>1, <2>2, AppendingStep
<1>5. ASSUME ~up', NEW c \in Clients, NEW g \in Claimed(c)' PROVE FALSE
  <2>1. CASE up
    <3>1. Crash \/ Release
      BY <1>5, <2>1, UpStep
    <3> QED BY <1>5, <3>1 DEF Crash, Release, Forget, Claimed, Appending
  <2>2. CASE ~up
    <3>1. Claimed(c) = {}
      BY <1>p, <2>2 DEF NamesInv
    <3> QED BY <1>5, <2>2, <3>1, ClaimStep
  <2> QED BY <2>1, <2>2
<1> QED BY <1>s, <1>1, <1>2, <1>3, <1>4, <1>5 DEF NamesInv

-----------------------------------------------------------------------------
LEMMA HandleStep == IInv /\ DInv /\ [Next]_vars => HandleInv'
<1> SUFFICES ASSUME IInv, DInv, [Next]_vars PROVE HandleInv'
  OBVIOUS
<1>p. HandleInv /\ DownControl
  BY DEF DInv, IInv, ControlInv
<1>1. ASSUME NEW c \in Clients,
             \/ AppendAtomic(c) \/ DurableStart(c) \/ FlushStart(c)
             \/ FlushEnter(c) \/ FlushWake(c) \/ FlushReturn(c)
             \/ DurableCommitted(c) \/ DurableFailed(c) \/ DiscardTail(c)
             \/ DiscardRefused(c) \/ DurableRollback(c)
      PROVE  HandleInv'
  <2>1. UNCHANGED <<torn, handle, fatal, closed, joined, workerPc, up>>
    BY <1>1 DEF AppendAtomic, DurableStart, EnqueueGroup, Enqueue, FlushStart,
       FlushEnter, FlushWake, FlushReturn, DurableCommitted, DurableFailed,
       DiscardTail, DiscardRefused, DurableRollback, diskVars, coreVars,
       queueVars, workerVars, clientVars
  <2> QED BY <1>p, <2>1 DEF HandleInv
<1>2. ASSUME NEW c \in Clients, CloseStart(c) \/ CloseJoin(c) \/ CloseAgain(c)
      PROVE  HandleInv'
  <2>0. UNCHANGED <<torn, fatal, workerPc, up>>
    BY <1>2 DEF CloseStart, CloseJoin, CloseAgain, diskVars, coreVars,
       workerVars, clientVars
  <2>1. handle' => handle
    BY <1>2 DEF CloseStart, CloseJoin, CloseAgain, CloseCore, coreVars
  <2>2. (joined' = joined \/ workerPc = "exited") /\ (closed' = closed \/ closed')
    BY <1>2 DEF CloseStart, CloseJoin, CloseAgain, queueVars, workerVars
  <2>3. up' /\ ~handle' => fatal \/ closed'
    BY <1>2, <1>p DEF CloseStart, CloseJoin, CloseAgain, CloseCore,
       HandleInv, coreVars, queueVars, workerVars, clientVars
  <2> QED BY <1>p, <2>0, <2>1, <2>2, <2>3 DEF HandleInv
<1>3. CASE EnqueueSeed \/ WindowExpires \/ UNCHANGED vars
  BY <1>3, <1>p DEF EnqueueSeed, EnqueueGroup, Enqueue, WindowExpires, vars,
     HandleInv, diskVars, coreVars, queueVars, workerVars, clientVars
<1>4. CASE WorkerStep
  BY <1>4, <1>p DEF WorkerStep, WorkerTake, WriteCommits,
     WriteNotCommitted, WriteUnknown, WriteOutcome, SettleCommitted,
     SettleRestored, SettleDropped, WorkerExit, HandleInv,
     diskVars, coreVars, queueVars, workerVars, clientVars
<1>5. CASE Crash \/ Release
  BY <1>5 DEF Crash, Release, Forget, HandleInv
<1>6. CASE LoadRepair \/ RepairInterrupted \/ Reopen
  <2>1. /\ ~up /\ ~closed /\ workerPc = "wait" /\ UNCHANGED <<closed, workerPc>>
        /\ fatal' = fatal
    BY <1>6, <1>p DEF LoadRepair, RepairInterrupted, Reopen, DownControl,
       coreVars, queueVars, workerVars
  <2>2. \/ ~up' /\ handle' = handle
        \/ up' /\ handle' /\ ~joined' /\ torn' = 0
    BY <1>6, <1>p DEF LoadRepair, RepairInterrupted, Reopen, Repaired,
       coreVars, clientVars
  <2> QED BY <1>p, <2>1, <2>2 DEF HandleInv
<1> QED BY <1>1, <1>2, <1>3, <1>4, <1>5, <1>6
     DEF Next, ClientCall, ClientStep

-----------------------------------------------------------------------------
(* What is queued while a handle is open comes before the next seq.        *)
LEMMA QueuedBelow ==
    ASSUME IInv, up, handle, ~closed, \A c \in Clients : pc[c] # "rollback",
           NEW e, Queued(e)
    PROVE  e.seq < nextSeq
<1>1. /\ pending \in Seq(Event) /\ InFlight \in Seq(Event)
      /\ cursor \in Nat /\ nextSeq \in Nat
      /\ Len(InFlight) \in Nat /\ Len(pending) \in Nat
  BY Shape DEF IInv, TypeOK, CoreType
<1>2. nextSeq = cursor + Len(InFlight) + Len(pending)
  BY DEF IInv, QueueInv, TailAt
<1>3. CASE \E i \in DOMAIN pending : pending[i] = e
  <2>1. PICK i \in 1 .. Len(pending) : pending[i] = e
    BY <1>1, <1>3, Concat
  <2>2. i \in DOMAIN pending
    BY <1>1, <2>1, Concat
  <2>3. e.seq = cursor + Len(InFlight) + i - 1
    BY <2>1, <2>2 DEF IInv, QueueInv
  <2> QED BY <1>1, <1>2, <2>1, <2>3
<1>4. CASE \E i \in DOMAIN InFlight : InFlight[i] = e
  <2>1. PICK i \in 1 .. Len(InFlight) : InFlight[i] = e
    BY <1>1, <1>4, Concat
  <2>2. InFlight = batch /\ Undecided
    BY <1>1, <2>1, EmptySeq DEF InFlight, Undecided
  <2>3. i \in DOMAIN batch
    BY <1>1, <2>1, <2>2, Concat
  <2>4. e.seq = cursor + i - 1
    BY <2>1, <2>2, <2>3 DEF IInv, QueueInv
  <2> QED BY <1>1, <1>2, <2>1, <2>4
<1> QED BY <1>3, <1>4 DEF Queued

LEMMA TailStep == IInv /\ DInv /\ [Next]_vars => TailInv'
<1> SUFFICES ASSUME IInv, DInv, [Next]_vars, up', ~fatal',
                    NEW c \in Clients, Appending(c)', NEW e, Queued(e)'
             PROVE  e.seq >= txn'[c].start <=> e.grp = txn'[c].grp
  BY DEF TailInv, Queued
<1>p. TypeOK /\ NamesInv /\ HandleInv /\ TailInv /\ ClientControl /\ ClientType
      /\ DownControl
  BY DEF IInv, ControlInv, DInv, TypeOK
<1>1. CASE DurableStart(c)
  <2>1. /\ up /\ transaction = Nobody /\ NextGroup \in Groups
        /\ transaction' = c
    BY <1>1 DEF DurableStart
  <2>2. PICK n \in 1 .. MaxGroupSize :
           /\ EnqueueGroup(NextGroup, n)
           /\ txn' = [txn EXCEPT ![c] = [grp |-> NextGroup, start |-> nextSeq,
                                         end |-> nextSeq + n - 1]]
    BY <1>1 DEF DurableStart
  <2>3. txn'[c].grp = NextGroup /\ txn'[c].start = nextSeq
    BY <1>p, <2>2 DEF ClientType
  <2>4. ~fatal /\ ~closed /\ handle
    BY <1>p, <2>1, <2>2 DEF EnqueueGroup, Enqueue, HandleInv
  <2>5. CASE Queued(e)
    <3>1. \A d \in Clients : pc[d] # "rollback"
      BY <1>p, <2>1, NobodyAssumption DEF ClientControl
    <3>2. e.seq < nextSeq
      BY <2>1, <2>4, <2>5, <3>1, QueuedBelow
    <3>3. e.grp # NextGroup
      BY <1>p, <2>1, <2>5, NextGroupIsNew DEF Queued, Absent, Without
    <3>4. e.seq \in Nat /\ nextSeq \in Nat
      <4>1. e \in Event
        BY <1>p, <2>5, Shape, ElementOfSeq, LenProperties DEF Queued
      <4> QED BY <1>p, <4>1 DEF Event, TypeOK, CoreType
    <3> QED BY <2>3, <3>2, <3>3, <3>4
  <2>6. CASE Enqueued(e)
    <3>1. ~EnqueueSeed
      BY <2>1, NobodyAssumption DEF EnqueueSeed
    <3> QED BY <2>3, <2>6, <3>1 DEF Enqueued
  <2> QED BY <1>p, <2>5, <2>6, QueuedStep
<1>2. CASE Appending(c) /\ txn'[c] = txn[c]
  <2>1. transaction = c /\ transaction # Nobody
    BY <1>2, <1>p, NobodyAssumption DEF ClientControl, Appending
  <2>2. Queued(e)
    BY <1>p, <2>1, QueuedStep DEF Enqueued
  <2>3. up /\ ~fatal
    BY <1>2, <1>p, UpStep DEF DownControl, Appending
  <2> QED BY <1>2, <1>p, <2>2, <2>3 DEF TailInv, Queued
<1> QED BY <1>1, <1>2, AppendingStep

LEMMA FlushedStep == IInv /\ DInv /\ [Next]_vars => FlushedInv'
<1> SUFFICES ASSUME IInv, DInv, [Next]_vars, up', ~fatal',
                    NEW c \in Clients, pc'[c] = "flushed", result'[c] = "ok",
                    NEW g \in Claimed(c)', g \notin lost'
             PROVE  Absent(g)'
  BY DEF FlushedInv
<1>p. TypeOK /\ NamesInv /\ FlushedInv /\ ClientType /\ WriterControl
  BY DEF IInv, ControlInv, DInv, TypeOK
<1>u. up /\ ~fatal
  <2>1. ASSUME ~up PROVE FALSE
    BY <1>p, <2>1, ClaimStep DEF NamesInv
  <2> QED BY <2>1, UpStep
<1>g. g \in Claimed(c) /\ g \in Groups
  <2>1. ~AppendAtomic(c) /\ ~DurableStart(c)
    BY <1>p DEF AppendAtomic, DurableStart, ClientType
  <2>2. g \in Claimed(c)
    BY <2>1, ClaimStep
  <2> QED BY <1>p, <2>2 DEF NamesInv, Submitted
<1>s. size'[g] = size[g]
  BY <1>g, <1>p, SubmittedStep DEF NamesInv
<1>l. g \notin lost
  <2>1. lost \subseteq lost'
    BY LostStep
  <2> QED BY <2>1
<1>1. CASE pc[c] = "flushed" /\ result[c] = "ok"
  <2>1. Absent(g)
    BY <1>1, <1>g, <1>l, <1>p, <1>u DEF FlushedInv
  <2> QED BY <1>g, <1>p, <1>s, <2>1, AbsentStep
<1>2. CASE FlushEnter(c) \/ FlushWake(c)
  <2>1. Drained /\ UNCHANGED <<pending, workerPc, batch, written>>
    BY <1>2, <1>p DEF FlushEnter, FlushWake, Decided, workerVars, ClientType
  <2>2. pending = <<>> /\ InFlight = <<>>
    BY <1>p, <2>1 DEF Drained, WriterControl, InFlight
  <2>3. Absent(g)
    BY <2>2, EmptySeq DEF Absent, Without
  <2> QED BY <1>g, <1>p, <1>s, <2>3, AbsentStep
<1>3. CASE ~(pc[c] = "flushed" /\ result[c] = "ok")
           /\ ~FlushEnter(c) /\ ~FlushWake(c)
  <2>1. ASSUME NEW d \in Clients, d # c, FlushEnter(d) \/ FlushWake(d)
        PROVE  FALSE
    BY <1>3, <1>p, <2>1 DEF FlushEnter, FlushWake, ClientType
  <2>2. ASSUME NEW d \in Clients,
               \/ AppendAtomic(d) \/ DurableStart(d) \/ FlushStart(d)
               \/ CloseStart(d) \/ CloseAgain(d) \/ FlushReturn(d)
               \/ DurableCommitted(d) \/ DurableFailed(d) \/ DiscardTail(d)
               \/ DiscardRefused(d) \/ DurableRollback(d) \/ CloseJoin(d)
        PROVE  FALSE
    BY <1>3, <1>p, <2>2 DEF AppendAtomic, DurableStart, FlushStart, CloseStart,
       CloseAgain, FlushReturn, DurableCommitted, DurableFailed, DiscardTail,
       DiscardRefused, DurableRollback, CloseJoin, DurableReturn, Return,
       ClientType, clientVars
  <2>3. CASE EnqueueSeed \/ WorkerStep \/ WindowExpires \/ UNCHANGED vars
             \/ LoadRepair \/ RepairInterrupted \/ Reopen
    BY <1>3, <2>3 DEF EnqueueSeed, WorkerStep, WorkerTake, WriteCommits,
       WriteNotCommitted, WriteUnknown, WriteOutcome, SettleCommitted,
       SettleRestored, SettleDropped, WorkerExit, WindowExpires, LoadRepair,
       RepairInterrupted, Reopen, vars, clientVars
  <2>4. CASE Crash \/ Release
    BY <2>4 DEF Crash, Release, Forget
  <2> QED BY <1>3, <2>1, <2>2, <2>3, <2>4 DEF Next, ClientCall, ClientStep
<1> QED BY <1>1, <1>2, <1>3

-----------------------------------------------------------------------------
(* The stream: what is to be written is moved between the log, the writer   *)
(* and the queue without a change of the stream; it is extended by a group  *)
(* and loses the tail of a durable append, or what a closed writer drops.  *)

(* An admitted group is appended to the stream. *)
LEMMA StreamGrows ==
    ASSUME TypeOK, NEW g \in 0 .. MaxGroups + 1, NEW n \in 1 .. MaxGroupSize,
           EnqueueGroup(g, n), UNCHANGED <<log, workerVars>>
    PROVE  \E e \in Seq(Event) :
              /\ Len(e) = n /\ DOMAIN e = 1 .. n
              /\ \A i \in 1 .. n : e[i].grp = g
              /\ pending' = pending \o e /\ InFlight' = InFlight
              /\ Queue' = Queue \o e /\ Stream' = Stream \o e
<1>p. /\ log \in Seq(Event) /\ InFlight \in Seq(Event) /\ pending \in Seq(Event)
      /\ Queue \in Seq(Event) /\ nextSeq \in Nat /\ n \in Nat
  BY Shape, BoundsAssumption DEF TypeOK, CoreType
<1>0. /\ GroupEvents(g, nextSeq, n) \in Seq(Event)
      /\ Len(GroupEvents(g, nextSeq, n)) = n
      /\ DOMAIN GroupEvents(g, nextSeq, n) = 1 .. n
      /\ \A i \in 1 .. n : GroupEvents(g, nextSeq, n)[i].grp = g
  BY <1>p, GroupEventsGroup
<1>1. PICK e \in Seq(Event) :
         /\ e = GroupEvents(g, nextSeq, n)
         /\ Len(e) = n /\ DOMAIN e = 1 .. n
         /\ \A i \in 1 .. n : e[i].grp = g
  BY <1>0
<1>2. pending' = pending \o e
  BY <1>1 DEF EnqueueGroup, Enqueue
<1>3. InFlight' = InFlight
  BY DEF workerVars, InFlight
<1>4. Queue' = Queue \o e
  BY <1>p, <1>2, <1>3, ConcatAssociates DEF Queue
<1>5. Stream' = Stream \o e
  BY <1>p, <1>4, ConcatAssociates DEF Stream
<1> QED BY <1>1, <1>2, <1>3, <1>4, <1>5

(* The writer moves the queue into its batch and the batch into the log. *)
LEMMA StreamKept ==
    ASSUME TypeOK, [Next]_vars, up, up', ~SettleDropped, ~WriteUnknown,
           \A c \in Clients :
              ~AppendAtomic(c) /\ ~DurableStart(c) /\ ~DiscardTail(c),
           ~EnqueueSeed
    PROVE  Stream' = Stream /\ (~WriteCommits => log' = log /\ Queue' = Queue)
<1>p. /\ log \in Seq(Event) /\ InFlight \in Seq(Event) /\ pending \in Seq(Event)
      /\ batch \in Seq(Event) /\ Queue \in Seq(Event)
  BY Shape
<1>g. ASSUME log' = log, Queue' = Queue
      PROVE  Stream' = Stream /\ (~WriteCommits => log' = log /\ Queue' = Queue)
  BY <1>g DEF Stream
<1>u. ASSUME log' = log, InFlight' = InFlight, pending' = pending
      PROVE  Stream' = Stream /\ (~WriteCommits => log' = log /\ Queue' = Queue)
  BY <1>g, <1>u DEF Queue
<1>1. ASSUME NEW c \in Clients,
             \/ FlushStart(c) \/ CloseStart(c) \/ CloseAgain(c) \/ FlushEnter(c)
             \/ FlushWake(c) \/ FlushReturn(c) \/ DurableCommitted(c)
             \/ DurableFailed(c) \/ DiscardRefused(c) \/ DurableRollback(c)
             \/ CloseJoin(c)
      PROVE  Stream' = Stream /\ (~WriteCommits => log' = log /\ Queue' = Queue)
  <2>1. UNCHANGED <<log, pending, workerPc, batch, written>>
    BY <1>1 DEF FlushStart, CloseStart, CloseAgain, FlushEnter, FlushWake,
       FlushReturn, DurableCommitted, DurableFailed, DiscardRefused,
       DurableRollback, CloseJoin, diskVars, queueVars, workerVars
  <2> QED BY <1>u, <2>1 DEF InFlight
<1>2. CASE WorkerTake
  <2>1. /\ pending' = <<>> /\ batch' = pending /\ workerPc = "wait"
        /\ workerPc' = "write" /\ log' = log
    BY <1>2 DEF WorkerTake, diskVars
  <2>2. InFlight = <<>> /\ InFlight' = pending
    BY <2>1 DEF InFlight
  <2>3. Queue' = pending \o <<>> /\ Queue = <<>> \o pending
    BY <2>1, <2>2 DEF Queue
  <2>4. Queue' = Queue
    BY <1>p, <2>3, ConcatEmpty
  <2> QED BY <1>g, <2>1, <2>4
<1>3. CASE WriteCommits
  <2>1. /\ pending' = pending /\ workerPc = "write" /\ workerPc' = "settle"
        /\ written' = "ok" /\ log' = log \o batch
    BY <1>3 DEF WriteCommits, WriteOutcome, queueVars
  <2>2. InFlight = batch /\ InFlight' = <<>>
    BY <2>1 DEF InFlight
  <2>3. Stream' = (log \o batch) \o (<<>> \o pending)
        /\ Stream = log \o (batch \o pending)
    BY <2>1, <2>2 DEF Stream, Queue
  <2>4. <<>> \o pending = pending
    BY <1>p, ConcatEmpty
  <2>5. Stream' = (log \o batch) \o pending
    BY <2>3, <2>4
  <2> QED BY <1>3, <1>p, <2>3, <2>5, ConcatAssociates
<1>4. CASE WriteNotCommitted \/ SettleCommitted
  BY <1>4, <1>u DEF WriteNotCommitted, WriteOutcome, SettleCommitted, InFlight,
     diskVars, queueVars
<1>5. CASE SettleRestored
  <2>1. /\ pending' = batch \o pending /\ workerPc' = "wait"
        /\ workerPc = "settle" /\ written = "failed" /\ log' = log
    BY <1>5 DEF SettleRestored, Restored, diskVars
  <2>2. InFlight = batch /\ InFlight' = <<>>
    BY <2>1 DEF InFlight
  <2>3. PICK s \in Seq(Event) : s = batch \o pending
    BY <1>p, Concat
  <2>4. Queue' = <<>> \o s /\ Queue = s
    BY <2>1, <2>2, <2>3 DEF Queue
  <2>5. Queue' = Queue
    BY <2>4, ConcatEmpty
  <2> QED BY <1>g, <2>1, <2>5
<1>6. CASE WorkerExit \/ WindowExpires \/ UNCHANGED vars
  BY <1>6, <1>u DEF WorkerExit, WindowExpires, InFlight, vars, diskVars,
     queueVars, workerVars
<1>7. ~Crash /\ ~Release /\ ~LoadRepair /\ ~RepairInterrupted /\ ~Reopen
  BY DEF Crash, Release, Forget, LoadRepair, RepairInterrupted, Reopen
<1> QED
  BY <1>1, <1>2, <1>3, <1>4, <1>5, <1>6, <1>7
     DEF Next, ClientCall, ClientStep, WorkerStep

(* The tail that a durable append takes back is its own group. *)
LEMMA StreamCut ==
    ASSUME IInv, DInv, NEW c \in Clients, up, ~fatal, DiscardTail(c)
    PROVE  \E r \in Seq(Event) :
              /\ r # <<>> /\ \A i \in DOMAIN r : r[i].grp = txn[c].grp
              /\ Without(txn[c].grp, pending')
              /\ InFlight = <<>> /\ InFlight' = <<>> /\ log' = log
              /\ pending = pending' \o r /\ pending' \in Seq(Event)
              /\ Queue = Queue' \o r /\ Stream = Stream' \o r
<1>p. /\ log \in Seq(Event) /\ pending \in Seq(Event) /\ TypeOK
      /\ WriterControl /\ ClientControl /\ TailInv
  BY Shape DEF IInv, ControlInv, DInv
<1>1. /\ pc[c] = "discard" /\ CanDiscard(txn[c])
      /\ UNCHANGED <<log, workerPc, batch, written>>
  BY DEF DiscardTail, diskVars, workerVars
<1>2. PICK k \in 0 .. Len(pending) :
         /\ \A i \in 1 .. k : pending[i].seq < txn[c].start
         /\ \A i \in k + 1 .. Len(pending) : pending[i].seq >= txn[c].start
         /\ pending' = SubSeq(pending, 1, k)
  BY DEF DiscardTail
<1>3. InFlight = <<>> /\ InFlight' = <<>>
  BY <1>1, <1>p DEF CanDiscard, WriterControl, InFlight
<1>4. PICK r \in Seq(Event) :
         /\ r = SubSeq(pending, k + 1, Len(pending))
         /\ Len(r) = Len(pending) - k
         /\ DOMAIN r = 1 .. Len(pending) - k
         /\ \A i \in 1 .. Len(pending) - k :
               r[i] = pending[k + i] /\ k + i \in DOMAIN pending
         /\ pending = SubSeq(pending, 1, k) \o r
  BY <1>p, Split
<1>5. Appending(c)
  BY <1>1, <1>p DEF ClientControl, Appending
<1>6. \A i \in DOMAIN pending :
         pending[i].seq >= txn[c].start <=> pending[i].grp = txn[c].grp
  BY <1>5, <1>p DEF TailInv
<1>t. txn[c].start \in Nat /\ txn[c].end \in Nat /\ txn[c].start <= txn[c].end
  BY <1>5, <1>p DEF ClientControl, Appending, TypeOK, ClientType
<1>l. Len(pending) \in Nat /\ DOMAIN pending = 1 .. Len(pending)
      /\ \A i \in 1 .. Len(pending) : pending[i].seq \in Nat
  <2>1. Len(pending) \in Nat /\ DOMAIN pending = 1 .. Len(pending)
    BY <1>p, LenProperties
  <2>2. \A i \in 1 .. Len(pending) : pending[i] \in Event
    BY <1>p, ElementOfSeq
  <2> QED BY <2>1, <2>2 DEF Event
<1>7. ASSUME NEW i \in DOMAIN r PROVE r[i].grp = txn[c].grp
  <2>0. i \in 1 .. Len(pending) - k
    BY <1>4
  <2>1. r[i] = pending[k + i] /\ k + i \in DOMAIN pending
    BY <1>4, <2>0
  <2>2. k + i \in k + 1 .. Len(pending)
    BY <1>l, <2>0
  <2> QED BY <1>2, <1>6, <2>1, <2>2
<1>8. ASSUME NEW i \in 1 .. k PROVE pending[i].grp # txn[c].grp
  <2>1. i \in DOMAIN pending /\ pending[i].seq < txn[c].start
        /\ pending[i].seq \in Nat
    BY <1>2, <1>l
  <2> QED BY <1>6, <1>t, <2>1
<1>9. Without(txn[c].grp, pending') /\ pending' \in Seq(Event)
  BY <1>2, <1>8, <1>p, Cut DEF Without
<1>10. r # <<>>
  <2>0. txn[c].start \in txn[c].start .. txn[c].end
    BY <1>t
  <2>1. PICK j \in 1 .. Len(pending) : pending[j].seq = txn[c].start
    BY <1>1, <1>l, <2>0 DEF CanDiscard
  <2>2. ~(j <= k)
    BY <1>2, <1>t, <2>1
  <2>3. Len(r) > 0
    BY <1>4, <1>l, <2>1, <2>2
  <2> QED BY <2>3, EmptySeq
<1>11. pending = pending' \o r
  BY <1>2, <1>4
<1>12. Queue = pending /\ Queue' = pending'
  BY <1>3, <1>9, <1>p, ConcatEmpty DEF Queue
<1>13. Stream = Stream' \o r
  <2>1. Stream = log \o (pending' \o r) /\ Stream' = log \o pending'
    BY <1>1, <1>11, <1>12 DEF Stream
  <2> QED BY <1>9, <1>p, <2>1, ConcatAssociates
<1> QED BY <1>1, <1>3, <1>7, <1>9, <1>10, <1>11, <1>12, <1>13

-----------------------------------------------------------------------------
(* A block of the stream stays one, but for a group that is taken back or   *)
(* dropped.                                                                *)
LEMMA StreamStep ==
    ASSUME IInv, DInv, [Next]_vars, up, up', ~fatal',
           NEW g \in Groups, g \notin lost', NEW n \in Nat \ {0},
           Whole(g, n, Stream, Len(Stream)), size'[g] = size[g],
           g \in Submitted,
           \A c \in Clients : DiscardTail(c) => txn[c].grp # g
    PROVE  Whole(g, n, Stream', Len(Stream'))
<1>p. /\ log \in Seq(Event) /\ batch \in Seq(Event) /\ pending \in Seq(Event)
      /\ Stream \in Seq(Event) /\ TypeOK /\ NamesInv /\ ~fatal
  BY Shape, UpStep DEF IInv, DInv
<1>g. ASSUME NEW h \in 0 .. MaxGroups + 1, h # g, NEW m \in 1 .. MaxGroupSize,
             EnqueueGroup(h, m), UNCHANGED <<log, workerVars>>
      PROVE  Whole(g, n, Stream', Len(Stream'))
  <2>1. PICK e \in Seq(Event) :
           /\ Len(e) = m /\ DOMAIN e = 1 .. m
           /\ \A i \in 1 .. m : e[i].grp = h
           /\ pending' = pending \o e /\ InFlight' = InFlight
           /\ Queue' = Queue \o e /\ Stream' = Stream \o e
    <3>1. TypeOK /\ EnqueueGroup(h, m) /\ UNCHANGED <<log, workerVars>>
      BY <1>g, <1>p
    <3> QED BY <3>1, StreamGrows, ZenonT(40)
  <2>2. Without(g, e)
    BY <1>g, <2>1 DEF Without
  <2>3. Len(Stream) \in 0 .. Len(Stream)
        /\ Len(Stream \o e) \in Len(Stream) .. Len(Stream \o e)
    BY <1>p, Concat
  <2> QED BY <1>p, <2>1, <2>2, <2>3, WholeExtended
<1>1. ASSUME NEW c \in Clients, AppendAtomic(c) \/ DurableStart(c)
      PROVE  Whole(g, n, Stream', Len(Stream'))
  <2>1. NextGroup \in Groups /\ UNCHANGED <<log, workerVars>>
    BY <1>1 DEF AppendAtomic, DurableStart, diskVars
  <2>2. PICK m \in 1 .. MaxGroupSize : EnqueueGroup(NextGroup, m)
    BY <1>1 DEF AppendAtomic, DurableStart
  <2>3. NextGroup # g
    BY <1>p, <2>1, NextGroupIsNew
  <2>4. NextGroup \in 0 .. MaxGroups + 1
    BY <2>1, BoundsAssumption DEF Groups
  <2> QED BY <1>g, <2>1, <2>2, <2>3, <2>4
<1>2. CASE EnqueueSeed
  <2>1. EnqueueGroup(Seed, 1) /\ UNCHANGED <<log, workerVars>>
    BY <1>2 DEF EnqueueSeed, diskVars
  <2>2. Seed \in 0 .. MaxGroups + 1 /\ Seed # g /\ 1 \in 1 .. MaxGroupSize
    BY BoundsAssumption DEF Seed, Groups
  <2> QED BY <1>g, <2>1, <2>2
<1>3. ASSUME NEW c \in Clients, DiscardTail(c)
      PROVE  Whole(g, n, Stream', Len(Stream'))
  <2>1. PICK r \in Seq(Event) :
           /\ \A i \in DOMAIN r : r[i].grp = txn[c].grp
           /\ pending' \in Seq(Event) /\ InFlight' = <<>> /\ log' = log
           /\ Stream = Stream' \o r
    BY <1>3, <1>p, StreamCut
  <2>2. Without(g, r)
    BY <1>3, <2>1 DEF Without
  <2>3. Stream' \in Seq(Event)
    BY <1>p, <2>1, Concat, ConcatEmpty DEF Stream, Queue
  <2> QED BY <2>1, <2>2, <2>3, WholeBefore
<1>4. CASE SettleDropped
  <2>1. /\ pending' = <<>> /\ workerPc = "settle" /\ written = "failed"
        /\ workerPc' = "exited" /\ log' = log
        /\ lost' = lost \cup GroupsOf(batch \o pending)
    BY <1>4 DEF SettleDropped, diskVars
  <2>2. InFlight = batch /\ InFlight' = <<>>
    BY <2>1 DEF InFlight
  <2>3. PICK s \in Seq(Event) : s = batch \o pending
    BY <1>p, Concat
  <2>4. Without(g, s)
    BY <2>1, <2>3 DEF GroupsOf, Without
  <2>5. Stream = log \o s
    BY <2>2, <2>3 DEF Stream, Queue
  <2>6. Stream' = log
    <3>1. Queue' = <<>> \o <<>>
      BY <2>1, <2>2 DEF Queue
    <3>2. Queue' = <<>>
      BY <3>1, EmptySeq, ConcatEmpty
    <3> QED BY <1>p, <2>1, <3>2, ConcatEmpty DEF Stream
  <2> QED BY <1>p, <2>4, <2>5, <2>6, WholeBefore
<1>5. CASE /\ ~SettleDropped /\ ~EnqueueSeed
           /\ \A c \in Clients :
                 ~AppendAtomic(c) /\ ~DurableStart(c) /\ ~DiscardTail(c)
  <2>1. ~WriteUnknown
    BY DEF WriteUnknown
  <2> QED BY <1>5, <1>p, <2>1, StreamKept
<1> QED BY <1>1, <1>2, <1>3, <1>4, <1>5

LEMMA ClaimsStep == IInv /\ DInv /\ [Next]_vars => ClaimsInv'
<1> SUFFICES ASSUME IInv, DInv, [Next]_vars, up', ~fatal',
                    NEW c \in Clients, NEW g \in Claimed(c)', g \notin lost'
             PROVE  Whole(g, size'[g], Stream', Len(Stream'))
  BY DEF ClaimsInv
<1>p. TypeOK /\ NamesInv /\ ClaimsInv /\ ClientControl
  BY DEF IInv, ControlInv, DInv
<1>u. up /\ ~fatal
  <2>1. ASSUME ~up PROVE FALSE
    BY <1>p, <2>1, ClaimStep DEF NamesInv
  <2> QED BY <2>1, UpStep
<1>1. CASE g \in Claimed(c)
  <2>1. g \in Submitted /\ g \in Groups /\ size[g] \in Nat \ {0}
    <3>1. g \in Submitted
      BY <1>1, <1>p DEF NamesInv
    <3> QED BY <1>p, <3>1, Shape DEF Submitted
  <2>2. size'[g] = size[g]
    BY <1>p, <2>1, SubmittedStep
  <2>3. g \notin lost
    BY LostStep
  <2>4. Whole(g, size[g], Stream, Len(Stream))
    BY <1>1, <1>p, <1>u, <2>3 DEF ClaimsInv
  <2>5. ASSUME NEW d \in Clients, DiscardTail(d) PROVE txn[d].grp # g
    <3>1. pc[d] = "discard" /\ pc' = [pc EXCEPT ![d] = "rollback"]
          /\ UNCHANGED <<call, mine, txn>>
      BY <2>5 DEF DiscardTail
    <3>2. Appending(d) /\ transaction = d
      BY <1>p, <3>1 DEF ClientControl, Appending
    <3>3. g \in mine[c]
      <4>1. CASE d = c
        BY <1>p, <3>1, <4>1 DEF Claimed, Appending, TypeOK, ClientType
      <4>2. CASE d # c
        BY <1>1, <1>p, <3>2, <4>2 DEF Claimed, Appending, ClientControl
      <4> QED BY <4>1, <4>2
    <3> QED BY <1>p, <3>2, <3>3 DEF NamesInv
  <2> QED BY <1>u, <2>1, <2>2, <2>3, <2>4, <2>5, StreamStep
<1>2. CASE g = NextGroup /\ (AppendAtomic(c) \/ DurableStart(c))
  <2>1. g \in Groups /\ UNCHANGED <<log, workerVars>>
    BY <1>2 DEF AppendAtomic, DurableStart, diskVars
  <2>2. PICK n \in 1 .. MaxGroupSize :
           EnqueueGroup(g, n) /\ size' = [size EXCEPT ![g] = n]
    BY <1>2 DEF AppendAtomic, DurableStart
  <2>3. PICK e \in Seq(Event) :
           /\ Len(e) = n /\ DOMAIN e = 1 .. n /\ \A i \in 1 .. n : e[i].grp = g
           /\ Stream' = Stream \o e
    <3>1. g \in 0 .. MaxGroups + 1
      BY <2>1, BoundsAssumption DEF Groups
    <3> QED BY <1>p, <2>1, <2>2, <3>1, StreamGrows
  <2>4. size'[g] = n
    BY <1>p, <2>1, <2>2 DEF TypeOK, AuxType
  <2>5. Without(g, Stream)
    <3>1. Without(g, log) /\ Without(g, InFlight) /\ Without(g, pending)
      BY <1>2, <1>p, <2>1, NextGroupIsNew DEF Absent
    <3>2. Without(g, Queue)
      BY <1>p, <3>1, Shape, WithoutConcat DEF Queue
    <3> QED BY <1>p, <3>1, <3>2, Shape, WithoutConcat DEF Stream
  <2>6. Whole(g, Len(e), Stream \o e, Len(Stream \o e))
    BY <1>p, <2>3, <2>5, Shape, WholeNew
  <2> QED BY <2>3, <2>4, <2>6
<1> QED BY <1>1, <1>2, ClaimStep

LEMMA AckedStep == IInv /\ DInv /\ [Next]_vars => AckedInv'
<1> SUFFICES ASSUME IInv, DInv, [Next]_vars, NEW g \in acked', g \notin lost'
             PROVE  /\ Whole(g, size'[g], log', Len(log') - torn')
                    /\ Absent(g)'
  BY DEF AckedInv
<1>p. /\ TypeOK /\ NamesInv /\ ClaimsInv /\ FlushedInv /\ AckedInv /\ HandleInv
      /\ log \in Seq(Event) /\ Queue \in Seq(Event)
      /\ InFlight \in Seq(Event) /\ pending \in Seq(Event)
  BY Shape DEF IInv, DInv
<1>l. g \notin lost
  BY LostStep
<1>s. ASSUME g \in Submitted
      PROVE  g \in Groups /\ size[g] \in Nat \ {0} /\ size'[g] = size[g]
  BY <1>p, <1>s, Shape, SubmittedStep DEF Submitted
<1>1. CASE g \in acked
  <2>1. g \in Groups /\ size[g] \in Nat /\ size'[g] = size[g]
    BY <1>1, <1>p, <1>s DEF NamesInv
  <2>2. Whole(g, size[g], log, Len(log) - torn) /\ Absent(g)
    BY <1>1, <1>l, <1>p DEF AckedInv
  <2>3. Whole(g, size[g], log', Len(log') - torn')
    BY <1>p, <2>1, <2>2, LogStep DEF Absent
  <2>4. Absent(g)'
    BY <1>p, <2>1, <2>2, AbsentStep
  <2> QED BY <2>1, <2>3, <2>4
<1>2. CASE g \notin acked
  <2>1. /\ up /\ ~fatal /\ UNCHANGED <<log, torn, lost>>
        /\ \E c \in Clients : /\ pc[c] = "flushed" /\ result[c] = "ok"
                              /\ g \in Claimed(c)
    BY <1>2, AckStep
  <2>2. PICK c \in Clients : /\ pc[c] = "flushed" /\ result[c] = "ok"
                             /\ g \in Claimed(c)
    BY <2>1
  <2>3. g \in Groups /\ size[g] \in Nat \ {0} /\ size'[g] = size[g]
    BY <1>p, <1>s, <2>2 DEF NamesInv
  <2>4. Whole(g, size[g], Stream, Len(Stream)) /\ Absent(g)
    BY <1>l, <1>p, <2>1, <2>2 DEF ClaimsInv, FlushedInv
  <2>5. Without(g, Queue)
    BY <1>p, <2>4, WithoutConcat DEF Queue, Absent
  <2>6. Whole(g, size[g], log, Len(log))
    BY <1>p, <2>3, <2>4, <2>5, WholeBefore DEF Stream
  <2>7. torn' = 0 /\ Len(log') - torn' = Len(log)
    <3>1. torn' = 0 /\ log' = log /\ Len(log) \in Nat
      BY <1>p, <2>1, LenProperties DEF HandleInv
    <3> QED BY <3>1
  <2>8. Absent(g)'
    BY <1>p, <2>3, <2>4, AbsentStep
  <2> QED BY <2>1, <2>3, <2>6, <2>7, <2>8
<1> QED BY <1>1, <1>2

LEMMA InitDurable == Init => DInv
<1> SUFFICES ASSUME Init PROVE DInv
  OBVIOUS
<1>e. DOMAIN <<>> = {}
  BY EmptySeq
<1>1. InFlight = <<>>
  BY DEF Init, InFlight
<1>2. \A g : Without(g, log) /\ Absent(g)
  BY <1>1, <1>e DEF Init, Without, Absent
<1>3. Submitted = {} /\ \A c \in Clients : Claimed(c) = {} /\ ~Appending(c)
  BY DEF Init, Submitted, Claimed, Appending
<1>4. NamesInv
  <2>1. 0 \in 0 .. MaxGroups /\ 1 .. 0 = {}
    BY BoundsAssumption
  <2> QED BY <1>2, <1>3, <2>1 DEF NamesInv, Init
<1>5. HandleInv
  BY DEF HandleInv, Init
<1>6. TailInv /\ ClaimsInv /\ FlushedInv
  BY <1>3 DEF TailInv, ClaimsInv, FlushedInv
<1>7. AckedInv
  BY DEF Init, AckedInv
<1> QED BY <1>4, <1>5, <1>6, <1>7 DEF DInv

LEMMA DurableInvariance == Spec => []DInv
<1>1. Init => DInv
  BY InitDurable
<1>2. IInv /\ DInv /\ [Next]_vars => DInv'
  BY NamesStep, HandleStep, TailStep, ClaimsStep, FlushedStep, AckedStep
     DEF DInv
<1> QED BY <1>1, <1>2, Invariance, PTL DEF Spec

(* What append_atomic_durable or a flush reported durable is in the log for *)
(* ever, with as many events as the group had, whatever is written, taken   *)
(* back, torn by a crash or an unknown outcome and repaired after it.  The  *)
(* groups a closed writer dropped are the exception.                       *)
THEOREM ReportedStaysDurable == Spec => []AckedDurable
<1>1. IInv /\ DInv => AckedDurable
  <2> SUFFICES ASSUME IInv, DInv, NEW g \in acked \ lost
               PROVE  CountOf(g, log) = size[g]
    BY DEF AckedDurable
  <2>1. /\ log \in Seq(Event) /\ Len(log) - torn \in 0 .. Len(log)
        /\ g \in Groups /\ size[g] \in Nat
    BY Shape DEF IInv, DInv, NamesInv, Submitted
  <2>2. Whole(g, size[g], log, Len(log) - torn)
    BY DEF DInv, AckedInv
  <2> QED BY <2>1, <2>2, CountOfWhole
<1> QED BY <1>1, Invariance, DurableInvariance, PTL

-----------------------------------------------------------------------------
(* The refinement of DurableLog, for a journal that nobody closes *)

OpenInv ==
    /\ ~closed /\ ~joined /\ lost = {}
    /\ \A c \in Clients : call[c] # "close"

(* The writer has something to write, its batch and the queue part between  *)
(* two groups, and the seed is not queued before it is due.                *)
BoundaryInv ==
    /\ Undecided => batch # <<>>
    /\ InFlight # <<>> /\ pending # <<>> =>
          InFlight[Len(InFlight)].grp # pending[1].grp
    /\ seedDue => Absent(Seed)

(* What is durable, and what still may become it: the queue, or without a   *)
(* handle what repair can salvage of a torn frame.                         *)
Durable == SubSeq(log, 1, Len(log) - torn)
Undurable == IF handle THEN Queue
             ELSE SubSeq(log, Len(log) - torn + 1, Len(log))

LEMMA InitOpen == Init => OpenInv /\ BoundaryInv
<1> SUFFICES ASSUME Init PROVE OpenInv /\ BoundaryInv
  OBVIOUS
<1>1. InFlight = <<>> /\ ~Undecided
  BY DEF Init, InFlight, Undecided
<1> QED BY <1>1 DEF Init, OpenInv, BoundaryInv

LEMMA OpenStep == Closers = {} /\ TypeOK /\ OpenInv /\ [Next]_vars => OpenInv'
<1> SUFFICES ASSUME Closers = {}, TypeOK, OpenInv, [Next]_vars PROVE OpenInv'
  OBVIOUS
<1>p. ClientType
  BY DEF TypeOK
<1>1. ASSUME NEW c \in Clients, CloseStart(c) \/ CloseAgain(c) \/ CloseJoin(c)
      PROVE  FALSE
  BY <1>1 DEF CloseStart, CloseAgain, CloseJoin, OpenInv
<1>2. ASSUME NEW c \in Clients, AppendAtomic(c) \/ DurableStart(c) \/ FlushStart(c)
      PROVE  OpenInv'
  <2>1. /\ UNCHANGED <<closed, joined, lost>>
        /\ call' = call \/ call' = [call EXCEPT ![c] = "durable"]
           \/ call' = [call EXCEPT ![c] = "flush"]
    BY <1>2 DEF AppendAtomic, DurableStart, FlushStart, EnqueueGroup, Enqueue,
       queueVars, workerVars, auxVars
  <2> QED BY <1>p, <2>1 DEF OpenInv, ClientType
<1>3. ASSUME NEW c \in Clients,
             \/ FlushEnter(c) \/ FlushWake(c) \/ FlushReturn(c)
             \/ DurableCommitted(c) \/ DurableFailed(c) \/ DiscardTail(c)
             \/ DiscardRefused(c) \/ DurableRollback(c)
      PROVE  OpenInv'
  <2>1. /\ UNCHANGED <<closed, joined, lost>>
        /\ call' = call \/ call' = [call EXCEPT ![c] = "none"]
    BY <1>3 DEF FlushEnter, FlushWake, FlushReturn, DurableCommitted,
       DurableFailed, DiscardTail, DiscardRefused, DurableRollback,
       DurableReturn, Return, queueVars, workerVars, auxVars
  <2> QED BY <1>p, <2>1 DEF OpenInv, ClientType
<1>4. CASE EnqueueSeed \/ WindowExpires \/ UNCHANGED vars
           \/ LoadRepair \/ RepairInterrupted \/ Reopen
  <2>1. UNCHANGED <<closed, lost, call>> /\ (joined' = joined \/ ~joined')
    BY <1>4 DEF EnqueueSeed, EnqueueGroup, Enqueue, WindowExpires, vars,
       LoadRepair, RepairInterrupted, Reopen, queueVars, workerVars,
       clientVars, auxVars
  <2> QED BY <2>1 DEF OpenInv
<1>5. CASE WorkerStep
  <2>1. ~SettleDropped
    BY DEF SettleDropped, OpenInv
  <2>2. UNCHANGED <<closed, lost, call, joined>>
    BY <1>5, <2>1 DEF WorkerStep, WorkerTake, WriteCommits,
       WriteNotCommitted, WriteUnknown, WriteOutcome, SettleCommitted,
       SettleRestored, WorkerExit, queueVars, workerVars, clientVars, auxVars
  <2> QED BY <2>2 DEF OpenInv
<1>6. CASE Crash \/ Release
  BY <1>6 DEF Crash, Release, Forget, OpenInv
<1> QED BY <1>1, <1>2, <1>3, <1>4, <1>5, <1>6
     DEF Next, ClientCall, ClientStep

(* The seed is due from the opening of the log until it is enqueued, before *)
(* anything else.                                                          *)
LEMMA SeedStep ==
    ASSUME [Next]_vars, seedDue', ~Reopen
    PROVE  /\ seedDue /\ ~EnqueueSeed
           /\ \A c \in Clients : ~AppendAtomic(c) /\ ~DurableStart(c)
<1>1. seedDue
  <2>1. CASE \E c \in Clients : ClientCall(c) \/ ClientStep(c)
    BY <2>1
       DEF ClientCall, ClientStep, AppendAtomic, DurableStart, FlushStart,
       CloseStart, CloseAgain, FlushEnter, FlushWake, FlushReturn,
       DurableCommitted, DurableFailed, DiscardTail, DiscardRefused,
       DurableRollback, CloseJoin, coreVars
  <2>2. CASE WorkerStep \/ WindowExpires \/ UNCHANGED vars
    BY <2>2
       DEF WorkerStep, WorkerTake, WriteCommits, WriteNotCommitted,
       WriteUnknown, WriteOutcome, SettleCommitted, SettleRestored,
       SettleDropped, WorkerExit, WindowExpires, vars, coreVars
  <2>3. CASE EnqueueSeed \/ Crash \/ Release \/ LoadRepair \/ RepairInterrupted
    BY <2>3 DEF EnqueueSeed, Crash, Release, Forget, LoadRepair,
       RepairInterrupted, coreVars
  <2> QED BY <2>1, <2>2, <2>3 DEF Next
<1> QED BY <1>1 DEF EnqueueSeed, AppendAtomic, DurableStart

(* The group that is enqueued is not queued yet. *)
LEMMA EnqueuedIsAbsent ==
    ASSUME IInv, DInv, BoundaryInv, EnqueueSeed \/
           \E c \in Clients : AppendAtomic(c) \/ DurableStart(c)
    PROVE  \E g \in 0 .. MaxGroups + 1 : \E n \in 1 .. MaxGroupSize :
              /\ EnqueueGroup(g, n) /\ Absent(g)
              /\ g = Seed \/ (g \in Groups /\ Without(g, log))
<1>1. CASE EnqueueSeed
  <2>1. EnqueueGroup(Seed, 1) /\ Absent(Seed)
    BY <1>1 DEF EnqueueSeed, BoundaryInv
  <2>2. Seed \in 0 .. MaxGroups + 1 /\ 1 \in 1 .. MaxGroupSize
    BY BoundsAssumption DEF Seed
  <2> QED BY <2>1, <2>2
<1>2. ASSUME NEW c \in Clients, AppendAtomic(c) \/ DurableStart(c)
      PROVE  \E g \in 0 .. MaxGroups + 1 : \E n \in 1 .. MaxGroupSize :
                /\ EnqueueGroup(g, n) /\ Absent(g)
                /\ g = Seed \/ (g \in Groups /\ Without(g, log))
  <2>1. NextGroup \in Groups
        /\ \E n \in 1 .. MaxGroupSize : EnqueueGroup(NextGroup, n)
    BY <1>2 DEF AppendAtomic, DurableStart
  <2>2. Absent(NextGroup) /\ Without(NextGroup, log)
    BY <2>1, NextGroupIsNew DEF DInv
  <2>3. NextGroup \in 0 .. MaxGroups + 1
    BY <2>1, BoundsAssumption DEF Groups
  <2> QED BY <2>1, <2>2, <2>3
<1> QED BY <1>1, <1>2

LEMMA BoundaryStep ==
    IInv /\ DInv /\ BoundaryInv /\ [Next]_vars => BoundaryInv'
<1> SUFFICES ASSUME IInv, DInv, BoundaryInv, [Next]_vars PROVE BoundaryInv'
  OBVIOUS
<1>p. TypeOK /\ pending \in Seq(Event) /\ InFlight \in Seq(Event)
      /\ batch \in Seq(Event)
  BY Shape DEF IInv
<1>s. ASSUME seedDue' PROVE Absent(Seed)'
  <2>1. CASE Reopen
    <3>1. pending' = <<>> /\ InFlight' = <<>>
      BY <2>1 DEF Reopen, IInv, ControlInv, DownControl, queueVars, InFlight
    <3> QED BY <3>1, EmptySeq DEF Absent, Without
  <2>2. CASE ~Reopen
    <3>1. seedDue /\ ~EnqueueSeed
          /\ \A c \in Clients : ~AppendAtomic(c) /\ ~DurableStart(c)
      BY <1>s, <2>2, SeedStep
    <3>2. ASSUME NEW e, Queued(e)' PROVE e.grp # Seed
      <4>1. Queued(e)
        BY <1>p, <3>1, <3>2, QueuedStep DEF Enqueued
      <4> QED BY <3>1, <4>1 DEF BoundaryInv, Absent, Without, Queued
    <3> QED BY <3>2 DEF Absent, Without, Queued
  <2> QED BY <2>1, <2>2
<1>g. ASSUME Undecided' => batch' # <<>>,
             InFlight' # <<>> /\ pending' # <<>> =>
                InFlight'[Len(InFlight')].grp # pending'[1].grp
      PROVE  BoundaryInv'
  BY <1>g, <1>s DEF BoundaryInv
<1>e. ASSUME ~Undecided' PROVE BoundaryInv'
  BY <1>e, <1>g DEF Undecided, InFlight
<1>u. ASSUME UNCHANGED <<batch, pending>>, Undecided' => Undecided
      PROVE  BoundaryInv'
  <2>1. Undecided' => InFlight' = InFlight
    BY <1>u DEF Undecided, InFlight
  <2>2. CASE Undecided'
    BY <1>g, <1>u, <2>1, <2>2 DEF BoundaryInv
  <2> QED BY <1>e, <2>2
<1>1. CASE EnqueueSeed \/ \E c \in Clients : AppendAtomic(c) \/ DurableStart(c)
  <2>1. PICK g \in 0 .. MaxGroups + 1, n \in 1 .. MaxGroupSize :
           EnqueueGroup(g, n) /\ Absent(g)
    BY <1>1, EnqueuedIsAbsent
  <2>2. UNCHANGED <<log, workerVars>>
    BY <1>1 DEF EnqueueSeed, AppendAtomic, DurableStart, diskVars
  <2>3. PICK e \in Seq(Event) :
           /\ Len(e) = n /\ DOMAIN e = 1 .. n /\ \A i \in 1 .. n : e[i].grp = g
           /\ pending' = pending \o e /\ InFlight' = InFlight
    BY <1>p, <2>1, <2>2, StreamGrows
  <2>4. UNCHANGED <<workerPc, batch, written>>
    BY <2>2 DEF workerVars
  <2>5. CASE pending = <<>>
    <3>1. pending' = e /\ e[1].grp = g
      <4>1. pending' = e
        BY <2>3, <2>5, ConcatEmpty
      <4>2. 1 \in 1 .. n
        BY <2>1
      <4> QED BY <2>3, <4>1, <4>2
    <3>2. InFlight # <<>> => InFlight[Len(InFlight)].grp # g
      <4>1. InFlight # <<>> => Len(InFlight) \in DOMAIN InFlight
        BY <1>p, EmptySeq, LenProperties
      <4> QED BY <2>1, <4>1 DEF Absent, Without
    <3> QED BY <1>g, <2>3, <2>4, <3>1, <3>2 DEF BoundaryInv, Undecided
  <2>6. CASE pending # <<>>
    <3>1. 1 \in 1 .. Len(pending)
      BY <1>p, <2>6, EmptySeq, LenProperties
    <3>2. pending'[1] = pending[1]
      BY <1>p, <2>3, <3>1, Concat
    <3> QED BY <1>g, <2>3, <2>4, <2>6, <3>2 DEF BoundaryInv, Undecided
  <2> QED BY <2>5, <2>6
<1>2. CASE WorkerTake
  <2>1. pending' = <<>> /\ batch' = pending /\ pending # <<>>
    BY <1>2 DEF WorkerTake, Wants
  <2> QED BY <1>g, <2>1
<1>3. CASE WriteNotCommitted \/ WriteUnknown \/ WriteCommits
  <2>1. UNCHANGED <<batch, pending>> /\ workerPc = "write"
    BY <1>3 DEF WriteNotCommitted, WriteUnknown, WriteCommits, WriteOutcome,
       queueVars
  <2> QED BY <1>u, <2>1 DEF Undecided
<1>4. CASE SettleCommitted \/ SettleRestored \/ SettleDropped \/ WorkerExit
           \/ Crash \/ Release
  <2>1. workerPc' \in {"wait", "exited"}
    BY <1>4 DEF SettleCommitted, SettleRestored, SettleDropped, WorkerExit,
       Crash, Release, Forget
  <2> QED BY <1>e, <2>1 DEF Undecided
<1>5. ASSUME NEW c \in Clients, up, DiscardTail(c) PROVE BoundaryInv'
  <2>1. ~active /\ UNCHANGED workerPc
    BY <1>5 DEF DiscardTail, CanDiscard, workerVars
  <2> QED BY <1>e, <2>1 DEF Undecided, IInv, ControlInv, WriterControl
<1>6. ASSUME NEW c \in Clients,
             \/ FlushStart(c) \/ CloseStart(c) \/ CloseAgain(c) \/ FlushEnter(c)
             \/ FlushWake(c) \/ FlushReturn(c) \/ DurableCommitted(c)
             \/ DurableFailed(c) \/ DiscardRefused(c) \/ DurableRollback(c)
             \/ CloseJoin(c)
      PROVE  BoundaryInv'
  <2>1. UNCHANGED <<pending, workerPc, batch, written>>
    BY <1>6 DEF FlushStart, CloseStart, CloseAgain, FlushEnter, FlushWake,
       FlushReturn, DurableCommitted, DurableFailed, DiscardRefused,
       DurableRollback, CloseJoin, queueVars, workerVars
  <2> QED BY <1>u, <2>1 DEF Undecided
<1>7. CASE WindowExpires \/ UNCHANGED vars \/ LoadRepair \/ RepairInterrupted
           \/ Reopen
  <2>1. UNCHANGED <<pending, workerPc, batch, written>>
    BY <1>7 DEF WindowExpires, vars, LoadRepair, RepairInterrupted, Reopen,
       queueVars, workerVars
  <2> QED BY <1>u, <2>1 DEF Undecided
<1> QED
  BY <1>1, <1>2, <1>3, <1>4, <1>5, <1>6, <1>7
     DEF Next, ClientCall, ClientStep, WorkerStep

-----------------------------------------------------------------------------
(* Sequences of groups: the entries of the abstract log are the groups of   *)
(* the events.                                                             *)

Names == 0 .. MaxGroups + 1

LEMMA ConcatAt ==
    ASSUME NEW S, NEW s \in Seq(S), NEW t \in Seq(S), NEW a \in Nat, NEW b \in Nat,
           a = Len(s), b = Len(t)
    PROVE  /\ s \o t \in Seq(S) /\ Len(s \o t) = a + b
           /\ \A i \in 1 .. a + b : (s \o t)[i] = IF i <= a THEN s[i] ELSE t[i - a]
<1>1. /\ s \o t \in Seq(S) /\ Len(s \o t) = Len(s) + Len(t)
      /\ \A i \in 1 .. Len(s) + Len(t) :
            (s \o t)[i] = IF i <= Len(s) THEN s[i] ELSE t[i - Len(s)]
  BY ConcatProperties
<1> QED BY <1>1

(* A sequence is recovered from its concatenation with others. *)
LEMMA Parts ==
    ASSUME NEW S, NEW s \in Seq(S), NEW t \in Seq(S), NEW u \in Seq(S)
    PROVE  /\ SubSeq((s \o t) \o u, 1, Len(s)) = s
           /\ SubSeq((s \o t) \o u, Len(s) + 1, Len(s) + Len(t)) = t
           /\ Len((s \o t) \o u) = Len(s) + Len(t) + Len(u)
           /\ Len(s) \in Nat /\ Len(t) \in Nat /\ Len(u) \in Nat
<1>1. PICK a \in Nat, b \in Nat, c \in Nat :
         a = Len(s) /\ b = Len(t) /\ c = Len(u)
  BY LenProperties
<1>2. PICK st \in Seq(S) :
         /\ st = s \o t /\ Len(st) = a + b
         /\ \A i \in 1 .. a + b : st[i] = IF i <= a THEN s[i] ELSE t[i - a]
  <2>1. /\ s \o t \in Seq(S) /\ Len(s \o t) = a + b
        /\ \A i \in 1 .. a + b : (s \o t)[i] = IF i <= a THEN s[i] ELSE t[i - a]
    BY <1>1, ConcatAt
  <2> QED BY <2>1
<1>3. PICK l \in Seq(S) :
         /\ l = st \o u /\ Len(l) = a + b + c
         /\ \A i \in 1 .. a + b + c :
               l[i] = IF i <= a + b THEN st[i] ELSE u[i - (a + b)]
  <2>1. PICK d \in Nat : d = a + b
    OBVIOUS
  <2>2. d = Len(st) /\ c = Len(u)
    BY <1>1, <1>2, <2>1
  <2>3. /\ st \o u \in Seq(S) /\ Len(st \o u) = d + c
        /\ \A i \in 1 .. d + c :
              (st \o u)[i] = IF i <= d THEN st[i] ELSE u[i - d]
    BY <2>2, ConcatAt
  <2> QED BY <2>1, <2>3
<1>4. \A i \in 1 .. a : l[i] = s[i]
  BY <1>2, <1>3
<1>5. ASSUME NEW i \in 1 .. b PROVE l[a + i] = t[i]
  <2>1. a + i \in 1 .. a + b /\ a + i \in 1 .. a + b + c /\ a + i <= a + b
        /\ ~(a + i <= a) /\ (a + i) - a = i
    OBVIOUS
  <2> QED BY <1>2, <1>3, <2>1
<1>6. /\ \A i \in 1 .. a : s[i] \in S
      /\ \A i \in 1 .. b : t[i] \in S
  BY <1>1, ElementOfSeq
<1>7. /\ SubSeq(l, 1, a) \in Seq(S) /\ Len(SubSeq(l, 1, a)) = a
      /\ \A i \in 1 .. a : SubSeq(l, 1, a)[i] = l[i]
  <2>1. \A i \in 1 .. a : l[i] \in S
    BY <1>4, <1>6
  <2>2. 1 \in Int /\ a \in Int
    OBVIOUS
  <2> QED BY <1>3, <2>1, <2>2, SubSeqProperties
<1>8. /\ SubSeq(l, a + 1, a + b) \in Seq(S) /\ Len(SubSeq(l, a + 1, a + b)) = b
      /\ \A i \in 1 .. b : SubSeq(l, a + 1, a + b)[i] = l[a + i]
  <2>1. \A i \in a + 1 .. a + b : l[i] \in S
    <3>1. \A i \in a + 1 .. a + b : i - a \in 1 .. b /\ i = a + (i - a)
      OBVIOUS
    <3> QED BY <1>5, <1>6, <3>1
  <2>2. PICK m \in 1 .. a + b + 1, n \in Nat : m = a + 1 /\ n = a + b
    OBVIOUS
  <2>3. /\ SubSeq(l, m, n) \in Seq(S)
        /\ Len(SubSeq(l, m, n)) = (IF m <= n THEN n - m + 1 ELSE 0)
        /\ \A i \in 1 .. n - m + 1 : SubSeq(l, m, n)[i] = l[m + i - 1]
    BY <1>3, <2>1, <2>2, SubSeqProperties
  <2>4. Len(SubSeq(l, m, n)) = b
    BY <2>2, <2>3
  <2>5. ASSUME NEW i \in 1 .. b PROVE SubSeq(l, m, n)[i] = l[a + i]
    <3>1. i \in 1 .. n - m + 1 /\ m + i - 1 = a + i
      BY <2>2
    <3> QED BY <2>3, <3>1
  <2> QED BY <2>2, <2>3, <2>4, <2>5
<1>9. SubSeq(l, 1, a) = s
  BY <1>1, <1>4, <1>7, SameSeq
<1>10. SubSeq(l, a + 1, a + b) = t
  BY <1>1, <1>5, <1>8, SameSeq
<1> QED BY <1>1, <1>2, <1>3, <1>9, <1>10

LEMMA GroupSeqShape ==
    ASSUME NEW s \in Seq(Event)
    PROVE  /\ GroupSeq(s) \in Seq(Names)
           /\ Len(GroupSeq(s)) = Len(s) /\ Len(s) \in Nat
           /\ DOMAIN GroupSeq(s) = 1 .. Len(s)
           /\ \A i \in 1 .. Len(s) : GroupSeq(s)[i] = s[i].grp
<1>1. Len(s) \in Nat /\ DOMAIN s = 1 .. Len(s) /\ \A i \in 1 .. Len(s) : s[i] \in Event
  BY LenProperties, ElementOfSeq
<1>2. PICK n \in Nat : n = Len(s)
  BY <1>1
<1>3. \A i \in 1 .. n : s[i].grp \in Names
  BY <1>1, <1>2 DEF Event, Names
<1>4. GroupSeq(s) = [i \in 1 .. n |-> s[i].grp]
  BY <1>1, <1>2 DEF GroupSeq
<1>5. GroupSeq(s) \in Seq(Names)
  BY <1>3, <1>4, SeqDef
<1> QED BY <1>2, <1>4, <1>5, LenProperties

LEMMA GroupSeqConcat ==
    ASSUME NEW s \in Seq(Event), NEW t \in Seq(Event)
    PROVE  GroupSeq(s \o t) = GroupSeq(s) \o GroupSeq(t)
<1>1. PICK l \in Seq(Event) : l = s \o t
  BY Concat
<1>2. PICK a \in Nat, b \in Nat : a = Len(s) /\ b = Len(t) /\ Len(l) = a + b
  BY <1>1, Concat
<1>3. PICK S \in Seq(Names) : /\ S = GroupSeq(s) /\ Len(S) = a
                              /\ \A i \in 1 .. a : S[i] = s[i].grp
  BY <1>2, GroupSeqShape
<1>4. PICK T \in Seq(Names) : /\ T = GroupSeq(t) /\ Len(T) = b
                              /\ \A i \in 1 .. b : T[i] = t[i].grp
  BY <1>2, GroupSeqShape
<1>5. PICK L \in Seq(Names) : /\ L = GroupSeq(l) /\ Len(L) = a + b
                              /\ \A i \in 1 .. a + b : L[i] = l[i].grp
  BY <1>2, GroupSeqShape
<1>6. /\ S \o T \in Seq(Names) /\ Len(S \o T) = a + b
      /\ \A i \in 1 .. a + b : (S \o T)[i] = IF i <= a THEN S[i] ELSE T[i - a]
  <2>1. a = Len(S) /\ b = Len(T)
    BY <1>3, <1>4
  <2> QED BY <2>1, ConcatAt
<1>7. ASSUME NEW i \in 1 .. a + b PROVE L[i] = (S \o T)[i]
  <2>1. CASE i \in 1 .. a
    <3>1. l[i] = s[i] /\ i <= a
      BY <1>1, <1>2, <2>1, Concat
    <3> QED BY <1>3, <1>5, <1>6, <2>1, <3>1
  <2>2. CASE i \in a + 1 .. a + b
    <3>1. l[i] = t[i - a] /\ i - a \in 1 .. b /\ ~(i <= a)
      BY <1>1, <1>2, <2>2, Concat
    <3> QED BY <1>4, <1>5, <1>6, <3>1
  <2>3. i \in 1 .. a \/ i \in a + 1 .. a + b
    OBVIOUS
  <2> QED BY <2>1, <2>2, <2>3
<1>8. L = S \o T
  BY <1>5, <1>6, <1>7, SameSeq
<1> QED BY <1>1, <1>3, <1>4, <1>5, <1>8

LEMMA GroupSeqEmpty == GroupSeq(<<>>) = <<>>
<1>1. DOMAIN <<>> = {} /\ <<>> = [i \in {} |-> 0]
  BY EmptySeq
<1> QED BY GroupSeqShape, EmptySeq

(* An entry of group g is there as long as an event of it is. *)
LEMMA InGroupSeq ==
    ASSUME NEW s \in Seq(Event), NEW g
    PROVE  Contract!In(g, GroupSeq(s)) <=> ~Without(g, s)
BY GroupSeqShape, LenProperties DEF Contract!In, Without

-----------------------------------------------------------------------------
(* The actions of DurableLog, in terms of the events that become durable.   *)

LEMMA MapsToSubmit ==
    ASSUME Durable \in Seq(Event), Undurable \in Seq(Event),
           NEW g \in Groups \cup {Closer, Seed}, NEW n \in 1 .. MaxGroupSize,
           NEW e \in Seq(Event), Len(e) = n, \A i \in 1 .. n : e[i].grp = g,
           g \in {Closer, Seed} \/ (Without(g, Durable) /\ Without(g, Undurable)),
           Durable' = Durable, Undurable' = Undurable \o e, acked' = acked
    PROVE  Contract!Next
<1>1. GroupSeq(e) = [i \in 1 .. n |-> g]
  <2>1. DOMAIN e = 1 .. n
    BY LenProperties
  <2> QED BY <2>1 DEF GroupSeq
<1>2. GroupSeq(Undurable') = GroupSeq(Undurable) \o [i \in 1 .. n |-> g]
  BY <1>1, GroupSeqConcat
<1>3. \/ g \in {Closer, Seed}
      \/ ~Contract!In(g, GroupSeq(Durable)) /\ ~Contract!In(g, GroupSeq(Undurable))
  BY InGroupSeq
<1>4. Contract!Submit(g)
  BY <1>2, <1>3 DEF Contract!Submit, Durable, Undurable
<1> QED BY <1>4 DEF Contract!Next

LEMMA MapsToCommit ==
    ASSUME Durable \in Seq(Event), Undurable \in Seq(Event),
           NEW a \in Seq(Event), NEW b \in Seq(Event), a # <<>>,
           b = <<>> \/ a[Len(a)].grp # b[1].grp, Undurable = a \o b,
           Durable' = Durable \o a, Undurable' = b, acked' = acked
    PROVE  Contract!Next
<1>1. PICK A \in Seq(Names), B \in Seq(Names), Q \in Seq(Names) :
         A = GroupSeq(a) /\ B = GroupSeq(b) /\ Q = GroupSeq(Undurable)
  BY GroupSeqShape
<1>2. PICK k \in Nat, l \in Nat : /\ k = Len(a) /\ k = Len(A)
                                  /\ l = Len(b) /\ l = Len(B)
  BY <1>1, GroupSeqShape
<1>3. Q = A \o B
  BY <1>1, GroupSeqConcat
<1>4. SubSeq(Q, 1, k) = A /\ SubSeq(Q, k + 1, Len(Q)) = B /\ Len(Q) = k + l
  <2>1. /\ (A \o B) \o <<>> = A \o B /\ Len(<<>>) = 0 /\ <<>> \in Seq(Names)
    BY <1>2, ConcatProperties, EmptySeq
  <2>2. /\ SubSeq(A \o B, 1, Len(A)) = A
        /\ SubSeq(A \o B, Len(A) + 1, Len(A) + Len(B)) = B
        /\ Len(A \o B) = Len(A) + Len(B) + 0
    BY <2>1, Parts
  <2>3. Len(Q) = k + l
    BY <1>2, <1>3, <2>2
  <2>4. SubSeq(Q, 1, k) = A /\ SubSeq(Q, k + 1, k + l) = B
    BY <1>2, <1>3, <2>2
  <2> QED BY <2>3, <2>4
<1>5. k \in 1 .. Len(Q)
  <2>1. Len(a) # 0
    BY EmptySeq
  <2> QED BY <1>2, <1>4, <2>1
<1>6. k = Len(Q) \/ Q[k] # Q[k + 1]
  <2>1. CASE l = 0
    BY <1>4, <2>1
  <2>2. CASE l # 0
    <3>1. b # <<>>
      BY <1>2, <2>2, EmptySeq
    <3>2. A[k] = a[k].grp /\ B[1] = b[1].grp
      <4>1. k \in 1 .. k /\ 1 \in 1 .. l
        BY <1>5, <1>4, <2>2
      <4> QED BY <1>1, <1>2, <4>1, GroupSeqShape
    <3>3. Q[k] = A[k] /\ Q[k + 1] = B[1]
      <4>1. \A i \in 1 .. k + l : Q[i] = IF i <= k THEN A[i] ELSE B[i - k]
        BY <1>2, <1>3, ConcatAt
      <4>2. k \in 1 .. k + l /\ k + 1 \in 1 .. k + l /\ (k + 1) - k = 1
            /\ ~(k + 1 <= k)
        BY <1>5, <1>4, <2>2
      <4> QED BY <4>1, <4>2
    <3> QED BY <1>2, <3>1, <3>2, <3>3
  <2> QED BY <2>1, <2>2
<1>7. GroupSeq(Durable') = GroupSeq(Durable) \o SubSeq(Q, 1, k)
      /\ GroupSeq(Undurable') = SubSeq(Q, k + 1, Len(Q))
  BY <1>1, <1>4, GroupSeqConcat
<1>8. Contract!Commit
  BY <1>1, <1>5, <1>6, <1>7
     DEF Contract!Commit, Contract!Boundary, Durable, Undurable
<1> QED BY <1>8 DEF Contract!Next

LEMMA MapsToWithdraw ==
    ASSUME NEW a \in Seq(Event), NEW r \in Seq(Event), NEW g, r # <<>>,
           \A i \in DOMAIN r : r[i].grp = g, Without(g, a), Undurable = a \o r,
           Durable' = Durable, Undurable' = a, acked' = acked
    PROVE  Contract!Next
<1>1. PICK A \in Seq(Names), R \in Seq(Names), Q \in Seq(Names) :
         A = GroupSeq(a) /\ R = GroupSeq(r) /\ Q = GroupSeq(Undurable)
  <2>1. Undurable \in Seq(Event)
    BY Concat
  <2> QED BY <2>1, GroupSeqShape
<1>2. PICK k \in Nat, l \in Nat : /\ k = Len(a) /\ k = Len(A)
                                  /\ l = Len(r) /\ l = Len(R)
  BY <1>1, GroupSeqShape
<1>3. Q = A \o R
  BY <1>1, GroupSeqConcat
<1>4. /\ SubSeq(Q, 1, k) = A /\ Len(Q) = k + l
  <2>1. /\ (A \o R) \o <<>> = A \o R /\ Len(<<>>) = 0 /\ <<>> \in Seq(Names)
    BY <1>2, ConcatProperties, EmptySeq
  <2>2. /\ SubSeq(A \o R, 1, Len(A)) = A
        /\ Len(A \o R) = Len(A) + Len(R) + 0
    BY <2>1, Parts
  <2> QED BY <1>2, <1>3, <2>2
<1>5. l > 0 /\ k \in 0 .. Len(Q) - 1
  <2>0. Len(r) # 0
    BY EmptySeq
  <2>1. l > 0
    BY <1>2, <2>0
  <2> QED BY <1>4, <2>1
<1>6. \A i \in 1 .. k + l : Q[i] = IF i <= k THEN A[i] ELSE R[i - k]
  BY <1>2, <1>3, ConcatAt
<1>7. ASSUME NEW i \in k + 1 .. k + l PROVE Q[i] = g
  <2>1. i \in 1 .. k + l /\ ~(i <= k) /\ i - k \in 1 .. l
    BY <1>2
  <2>2. R[i - k] = r[i - k].grp /\ i - k \in DOMAIN r
    BY <1>1, <1>2, <2>1, GroupSeqShape, LenProperties
  <2> QED BY <1>6, <2>1, <2>2
<1>8. \A i \in k + 1 .. Len(Q) : Q[i] = Q[Len(Q)]
  <2>1. k + l \in k + 1 .. k + l
    BY <1>5
  <2> QED BY <1>4, <1>7, <2>1
<1>9. k = 0 \/ Q[k] # Q[k + 1]
  <2>1. SUFFICES ASSUME k # 0 PROVE Q[k] # Q[k + 1]
    OBVIOUS
  <2>2. k \in 1 .. k + l /\ k \in 1 .. k /\ k <= k /\ k + 1 \in k + 1 .. k + l
    BY <1>5, <2>1
  <2>3. Q[k] = A[k] /\ Q[k + 1] = g
    BY <1>6, <1>7, <2>2
  <2>4. A[k] = a[k].grp /\ k \in DOMAIN a
    BY <1>1, <1>2, <2>2, GroupSeqShape, LenProperties
  <2> QED BY <2>3, <2>4 DEF Without
<1>10. /\ GroupSeq(Durable') = GroupSeq(Durable)
       /\ GroupSeq(Undurable') = SubSeq(Q, 1, k)
  BY <1>1, <1>4
<1>11. Contract!Withdraw
  BY <1>1, <1>5, <1>8, <1>9, <1>10
     DEF Contract!Withdraw, Contract!Boundary, Durable, Undurable
<1> QED BY <1>11 DEF Contract!Next

(* Of what was not durable, followed by closers, some events are durable    *)
(* and some others may still be salvaged.                                  *)
LEMMA MapsToTear ==
    ASSUME Durable \in Seq(Event), Undurable \in Seq(Event),
           NEW closers \in Seq(Event),
           closers = <<>> \/ (Len(closers) = 1 /\ closers[1].grp = Closer),
           NEW a \in Seq(Event), NEW b \in Seq(Event), NEW c \in Seq(Event),
           Undurable \o closers = (a \o b) \o c,
           Durable' = Durable \o a, Undurable' = b, acked' = acked
    PROVE  Contract!Next
<1> DEFINE C == GroupSeq(closers)
<1>1. PICK A \in Seq(Names), B \in Seq(Names), R \in Seq(Names) :
         A = GroupSeq(a) /\ B = GroupSeq(b) /\ R = GroupSeq(c)
  BY GroupSeqShape
<1>2. PICK E \in Seq(Names) : E = (A \o B) \o R
  BY ConcatProperties
<1>3. E = GroupSeq(Undurable) \o C
  <2>1. a \o b \in Seq(Event)
    BY Concat
  <2>2. GroupSeq((a \o b) \o c) = E
    BY <1>1, <1>2, <2>1, GroupSeqConcat
  <2> QED BY <2>2, GroupSeqConcat
<1>4. C \in {<<>>} \cup {<<g>> : g \in {Closer, Seed}}
  <2>1. CASE closers = <<>>
    BY <2>1, GroupSeqEmpty
  <2>2. CASE Len(closers) = 1 /\ closers[1].grp = Closer
    <3>0. 1 \in 1 .. Len(closers)
      BY <2>2
    <3>1. C \in Seq(Names) /\ Len(C) = 1 /\ C[1] = Closer
      BY <2>2, <3>0, GroupSeqShape
    <3>2. C = <<Closer>>
      BY <3>1, SMT
    <3> QED BY <3>2
  <2> QED BY <2>1, <2>2
<1>5. PICK j \in Nat, k \in Nat : j = Len(A) /\ k = Len(A) + Len(B)
  BY LenProperties
<1>6. SubSeq(E, 1, j) = A /\ SubSeq(E, j + 1, k) = B
      /\ k \in 0 .. Len(E) /\ j \in 0 .. k
  <2>1. /\ SubSeq(E, 1, Len(A)) = A
        /\ SubSeq(E, Len(A) + 1, Len(A) + Len(B)) = B
        /\ Len(E) = Len(A) + Len(B) + Len(R)
        /\ Len(A) \in Nat /\ Len(B) \in Nat /\ Len(R) \in Nat
    BY <1>2, Parts
  <2> QED BY <1>5, <2>1, SMTT(30)
<1>7. /\ GroupSeq(Durable') = GroupSeq(Durable) \o SubSeq(E, 1, j)
      /\ GroupSeq(Undurable') = SubSeq(E, j + 1, k)
  BY <1>1, <1>6, GroupSeqConcat, ZenonT(40)
<1> HIDE DEF C
<1>8. Contract!Tear
  BY <1>3, <1>4, <1>6, <1>7 DEF Contract!Tear, Durable, Undurable
<1> QED BY <1>8 DEF Contract!Next

(* Groups that are reported durable are among the durable entries and not   *)
(* among the others.                                                       *)
LEMMA MapsToAck ==
    ASSUME Durable \in Seq(Event), Undurable \in Seq(Event),
           Durable' = Durable, Undurable' = Undurable,
           acked \subseteq acked', acked' \subseteq Groups,
           \A g \in acked' : ~Without(g, Durable) /\ Without(g, Undurable)
    PROVE  Contract!Next
<1>1. acked' = acked \cup acked'
  OBVIOUS
<1>2. \A g \in acked' : /\ Contract!In(g, GroupSeq(Durable))
                        /\ ~Contract!In(g, GroupSeq(Undurable))
  BY InGroupSeq
<1>3. Contract!Ack
  BY <1>1, <1>2 DEF Contract!Ack, Durable, Undurable
<1> QED BY <1>3 DEF Contract!Next

(* Without a torn frame the whole log is durable; without a handle it is    *)
(* what is durable followed by what may be salvaged.                       *)
DurableShape ==
    /\ Durable \in Seq(Event) /\ Undurable \in Seq(Event)
    /\ Len(Durable) = Len(log) - torn
    /\ torn = 0 => Durable = log
    /\ ~handle => log = Durable \o Undurable
    /\ ~handle /\ torn = 0 => Undurable = <<>>

LEMMA DurableShaped == TypeOK => DurableShape
<1> SUFFICES ASSUME TypeOK PROVE DurableShape
  OBVIOUS
<1>1. /\ log \in Seq(Event) /\ Queue \in Seq(Event) /\ Len(log) \in Nat
      /\ torn \in 0 .. Len(log) /\ Len(log) - torn \in 0 .. Len(log)
  BY Shape
<1>2. PICK k \in 0 .. Len(log) : k = Len(log) - torn
  BY <1>1
<1>3. /\ SubSeq(log, 1, k) \in Seq(Event) /\ Len(SubSeq(log, 1, k)) = k
      /\ \A i \in 1 .. k : SubSeq(log, 1, k)[i] = log[i]
  BY <1>1, Cut
<1>4. /\ SubSeq(log, k + 1, Len(log)) \in Seq(Event)
      /\ Len(SubSeq(log, k + 1, Len(log))) = Len(log) - k
      /\ SubSeq(log, 1, k) \o SubSeq(log, k + 1, Len(log)) = log
  BY <1>1, Split
<1>5. /\ Durable = SubSeq(log, 1, k)
      /\ ~handle => Undurable = SubSeq(log, k + 1, Len(log))
      /\ handle => Undurable = Queue
  BY <1>2 DEF Durable, Undurable
<1>6. torn = 0 => k = Len(log) /\ Len(log) - k = 0
  BY <1>1, <1>2
<1>7. torn = 0 => Durable = log
  BY <1>1, <1>3, <1>5, <1>6, SameSeq
<1>8. ~handle /\ torn = 0 => Undurable = <<>>
  BY <1>4, <1>5, <1>6, EmptySeq
<1> QED BY <1>1, <1>2, <1>3, <1>4, <1>5, <1>7, <1>8 DEF DurableShape

(* The books of an open journal are true of the two parts. *)
AckedShape ==
    /\ acked \subseteq Groups
    /\ \A g \in acked : ~Without(g, Durable) /\ Without(g, Undurable)

LEMMA AckedShaped == TypeOK /\ DInv /\ OpenInv => AckedShape
<1> SUFFICES ASSUME TypeOK, DInv, OpenInv, NEW g \in acked
             PROVE  g \in Groups /\ ~Without(g, Durable) /\ Without(g, Undurable)
  BY DEF AckedShape
<1>1. /\ g \in Groups /\ size[g] \in Nat \ {0}
      /\ Whole(g, size[g], log, Len(log) - torn) /\ Absent(g)
  BY Shape DEF DInv, NamesInv, AckedInv, OpenInv, Submitted
<1>2. /\ log \in Seq(Event) /\ Len(log) \in Nat /\ DOMAIN log = 1 .. Len(log)
      /\ InFlight \in Seq(Event) /\ pending \in Seq(Event)
      /\ torn \in 0 .. Len(log) /\ Len(log) - torn \in 0 .. Len(log)
  BY Shape, LenProperties
<1>3. PICK k \in 0 .. Len(log), n \in Nat \ {0} :
         k = Len(log) - torn /\ n = size[g]
  BY <1>1, <1>2
<1>4. PICK b \in 0 .. k - n :
         \A i \in DOMAIN log : log[i].grp = g <=> b < i /\ i <= b + n
  BY <1>1, <1>3 DEF Whole
<1>5. ~Without(g, Durable)
  <2>1. b + n \in 1 .. k /\ b + n \in DOMAIN log /\ b < b + n
    BY <1>2, <1>4
  <2>2. log[b + n].grp = g
    BY <1>4, <2>1
  <2>3. b + n \in DOMAIN SubSeq(log, 1, k)
        /\ SubSeq(log, 1, k)[b + n] = log[b + n]
    BY <1>2, <2>1, Cut
  <2> QED BY <1>3, <2>2, <2>3 DEF Durable, Without
<1>6. handle => Without(g, Undurable)
  BY <1>1, <1>2, WithoutConcat DEF Undurable, Queue, Absent
<1>7. ~handle => Without(g, Undurable)
  <2>1. ASSUME NEW i \in DOMAIN SubSeq(log, k + 1, Len(log))
        PROVE  SubSeq(log, k + 1, Len(log))[i].grp # g
    <3>1. i \in 1 .. Len(log) - k
      BY <1>2, <2>1, Split
    <3>2. SubSeq(log, k + 1, Len(log))[i] = log[k + i] /\ k + i \in DOMAIN log
      BY <1>2, <3>1, Split
    <3>3. ~(k + i <= b + n)
      BY <1>2, <1>4, <3>1
    <3> QED BY <1>4, <3>2, <3>3
  <2> QED BY <1>3, <2>1 DEF Undurable, Without
<1> QED BY <1>1, <1>5, <1>6, <1>7

(* The log was torn, or repaired, behind what was durable. *)
LEMMA MapsTorn ==
    ASSUME DurableShape, DurableShape', log' \in Seq(Event),
           NEW closers \in Seq(Event),
           closers = <<>> \/ (Len(closers) = 1 /\ closers[1].grp = Closer),
           NEW x \in Seq(Event), NEW y \in Seq(Event),
           Undurable \o closers = x \o y,
           log' = Durable \o x, torn' \in {0, Len(x)},
           ~handle' \/ (torn' = 0 /\ Queue' = <<>>), acked' = acked
    PROVE  Contract!Next
<1>p. /\ Durable \in Seq(Event) /\ Undurable \in Seq(Event)
      /\ Len(x) \in Nat /\ Len(Durable) \in Nat /\ <<>> \in Seq(Event)
  BY EmptySeq, LenProperties DEF DurableShape
<1>1. CASE torn' = 0
  <2>1. Durable' = Durable \o x /\ Undurable' = <<>>
    BY <1>1 DEF DurableShape, Undurable
  <2>2. Undurable \o closers = (x \o <<>>) \o y
    BY ConcatEmpty
  <2> QED BY <1>p, <2>1, <2>2, MapsToTear
<1>2. CASE torn' = Len(x) /\ ~handle'
  <2>1. /\ Len(log') = Len(Durable) + Len(x) /\ Len(log') - torn' = Len(Durable)
    BY <1>2, <1>p, Concat
  <2>2. /\ SubSeq(Durable \o x, 1, Len(Durable)) = Durable
        /\ SubSeq(Durable \o x, Len(Durable) + 1, Len(Durable) + Len(x)) = x
    <3>1. /\ SubSeq((Durable \o x) \o <<>>, 1, Len(Durable)) = Durable
          /\ SubSeq((Durable \o x) \o <<>>, Len(Durable) + 1, Len(Durable) + Len(x)) = x
      BY <1>p, Parts
    <3>2. (Durable \o x) \o <<>> = Durable \o x
      BY <1>p, Concat, ConcatEmpty
    <3> QED BY <3>1, <3>2
  <2>3. Durable' = Durable /\ Undurable' = x
    BY <1>2, <2>1, <2>2 DEF Durable, Undurable
  <2>4. Durable' = Durable \o <<>> /\ Undurable \o closers = (<<>> \o x) \o y
    BY <1>p, <2>3, ConcatEmpty
  <2> QED BY <1>p, <2>3, <2>4, MapsToTear
<1> QED BY <1>1, <1>2

-----------------------------------------------------------------------------
(* The steps of an open journal *)

(* An admitted group is submitted. *)
LEMMA EnqueueRefines ==
    ASSUME IInv, DInv, OpenInv, BoundaryInv, DurableShape, up,
           EnqueueSeed \/ \E c \in Clients : AppendAtomic(c) \/ DurableStart(c)
    PROVE  Contract!Next
<1>p. /\ TypeOK /\ Durable \in Seq(Event) /\ Undurable \in Seq(Event)
      /\ InFlight \in Seq(Event) /\ pending \in Seq(Event)
      /\ log \in Seq(Event) /\ torn \in 0 .. Len(log)
  BY Shape DEF IInv, DurableShape
<1>1. PICK g \in 0 .. MaxGroups + 1, n \in 1 .. MaxGroupSize :
         /\ EnqueueGroup(g, n) /\ Absent(g)
         /\ g = Seed \/ (g \in Groups /\ Without(g, log))
  BY EnqueuedIsAbsent
<1>2. UNCHANGED <<diskVars, handle, workerVars, acked>>
  BY DEF EnqueueSeed, AppendAtomic, DurableStart, auxVars
<1>3. PICK e \in Seq(Event) : /\ Len(e) = n /\ \A i \in 1 .. n : e[i].grp = g
                              /\ Queue' = Queue \o e
  <2>1. UNCHANGED <<log, workerVars>>
    BY <1>2 DEF diskVars
  <2> QED BY <1>1, <1>p, <2>1, StreamGrows
<1>4. handle
  BY <1>1 DEF EnqueueGroup, Enqueue, DInv, HandleInv
<1>5. /\ Durable' = Durable /\ Undurable' = Undurable \o e /\ acked' = acked
      /\ Undurable = Queue
  BY <1>2, <1>3, <1>4 DEF Durable, Undurable, diskVars
<1>6. g \in {Closer, Seed} \/ (Without(g, Durable) /\ Without(g, Undurable))
  <2>1. Absent(g) => Without(g, Queue)
    BY <1>p, WithoutConcat DEF Absent, Queue
  <2>2. Without(g, log) => Without(g, Durable)
    <3>1. Len(log) - torn \in 0 .. Len(log)
      BY <1>p, Shape
    <3> QED BY <1>p, <3>1, WithoutCut DEF Durable
  <2> QED BY <1>1, <1>5, <2>1, <2>2
<1>7. g \in Groups \cup {Closer, Seed}
  BY <1>1
<1> QED BY <1>1, <1>3, <1>5, <1>6, <1>7, <1>p, MapsToSubmit

(* The batch is committed. *)
LEMMA CommitRefines ==
    ASSUME IInv, DInv, OpenInv, BoundaryInv, DurableShape, DurableShape',
           WriteCommits
    PROVE  Contract!Next
<1>p. /\ Durable \in Seq(Event) /\ Undurable \in Seq(Event)
      /\ batch \in Seq(Event) /\ pending \in Seq(Event)
  BY Shape DEF IInv, DurableShape
<1>1. /\ up /\ workerPc = "write" /\ handle /\ ~fatal /\ log' = log \o batch
      /\ UNCHANGED <<torn, handle, pending, acked>>
      /\ workerPc' = "settle" /\ written' = "ok"
  BY DEF WriteCommits, CanAppend, WriteOutcome, queueVars, auxVars
<1>2. torn = 0 /\ Durable = log /\ Durable' = Durable \o batch
  BY <1>1 DEF DInv, HandleInv, DurableShape
<1>3. InFlight = batch /\ InFlight' = <<>> /\ Undecided
  BY <1>1 DEF InFlight, Undecided
<1>4. Undurable = batch \o pending /\ Undurable' = pending
  <2>1. <<>> \o pending = pending
    BY <1>p, ConcatEmpty
  <2> QED BY <1>1, <1>3, <2>1 DEF Undurable, Queue
<1>5. batch # <<>> /\ (pending = <<>> \/ batch[Len(batch)].grp # pending[1].grp)
  BY <1>3 DEF BoundaryInv
<1> QED BY <1>p, <1>1, <1>2, <1>4, <1>5, MapsToCommit

(* The tail of a durable append is withdrawn, unless the handle is gone. *)
LEMMA DiscardRefines ==
    ASSUME IInv, DInv, NEW c \in Clients, up, DiscardTail(c)
    PROVE  [Contract!Next]_(Contract!vars)
<1>1. UNCHANGED <<log, torn, handle, acked>>
  BY DEF DiscardTail, diskVars, coreVars
<1>2. CASE handle
  <2>1. ~fatal
    BY <1>2 DEF DInv, HandleInv
  <2>2. PICK r \in Seq(Event) :
           /\ r # <<>> /\ \A i \in DOMAIN r : r[i].grp = txn[c].grp
           /\ Without(txn[c].grp, pending')
           /\ InFlight' = <<>> /\ pending' \in Seq(Event)
           /\ Queue = Queue' \o r
    BY <2>1, StreamCut
  <2>3. Queue' = pending'
    <3>1. <<>> \o pending' = pending'
      BY <2>2, ConcatEmpty
    <3> QED BY <2>2, <3>1 DEF Queue
  <2>4. /\ Undurable = pending' \o r /\ Undurable' = pending'
        /\ Durable' = Durable
    BY <1>1, <1>2, <2>2, <2>3 DEF Undurable, Durable
  <2>5. Contract!Next
    BY <1>1, <2>2, <2>4, MapsToWithdraw
  <2> QED BY <2>5
<1>3. CASE ~handle
  BY <1>1, <1>3 DEF Contract!vars
<1> QED BY <1>2, <1>3

(* Whatever leaves the two parts as they are acknowledges at most what is   *)
(* durable.                                                                *)
LEMMA QuietRefines ==
    ASSUME DurableShape, AckedShape', acked \subseteq acked',
           UNCHANGED <<log, torn, handle>>, handle => Queue' = Queue
    PROVE  Contract!Next
<1>1. Durable' = Durable /\ Undurable' = Undurable
  BY DEF Durable, Undurable
<1>2. /\ Durable \in Seq(Event) /\ Undurable \in Seq(Event)
      /\ acked' \subseteq Groups
      /\ \A g \in acked' : ~Without(g, Durable') /\ Without(g, Undurable')
  BY DEF DurableShape, AckedShape
<1> QED BY <1>1, <1>2, MapsToAck

(* A crash or an unknown outcome, in the middle of an append ... *)
LEMMA InterruptedRefines ==
    ASSUME TypeOK, DInv, DurableShape, DurableShape', log' \in Seq(Event),
           up, handle, workerPc = "write", NEW r \in Remnants, Interrupted(r),
           ~handle', acked' = acked
    PROVE  Contract!Next
<1>p. batch \in Seq(Event) /\ pending \in Seq(Event)
  BY Shape
<1>1. torn = 0 /\ Durable = log
  BY DEF DInv, HandleInv, DurableShape
<1>2. Undurable = batch \o pending
  BY DEF Undurable, Queue, InFlight
<1>3. PICK k \in 0 .. Len(batch) : r = SubSeq(batch, 1, k)
  BY RemnantsShape
<1>4. PICK rest \in Seq(Event) : batch = r \o rest
  BY <1>3, <1>p, Split
<1>5. r \in Seq(Event) /\ rest \o pending \in Seq(Event)
  BY <1>3, <1>p, Cut, Concat
<1>6. Undurable \o <<>> = r \o (rest \o pending)
  <2>1. Undurable = r \o (rest \o pending)
    BY <1>2, <1>4, <1>5, <1>p, ConcatAssociates
  <2>2. Undurable \in Seq(Event)
    BY DEF DurableShape
  <2> QED BY <2>1, <2>2, ConcatEmpty
<1>7. log' = Durable \o r /\ torn' \in {0, Len(r)}
  BY <1>1 DEF Interrupted
<1>8. <<>> \in Seq(Event)
  BY EmptySeq
<1> QED BY <1>5, <1>6, <1>7, <1>8, MapsTorn

(* ... or before or after it, which loses what is queued. *)
LEMMA HandleLostRefines ==
    ASSUME DInv, DurableShape, DurableShape', log' \in Seq(Event),
           up, handle, ~handle', UNCHANGED <<log, torn, acked>>
    PROVE  Contract!Next
<1>1. torn = 0 /\ torn' = 0 /\ Durable = log /\ Undurable \in Seq(Event)
      /\ <<>> \in Seq(Event) /\ log \in Seq(Event)
  BY EmptySeq DEF DInv, HandleInv, DurableShape
<1>2. log' = Durable \o <<>>
  BY <1>1, ConcatEmpty
<1>3. Undurable \o <<>> = <<>> \o Undurable
  BY <1>1, ConcatEmpty
<1> QED BY <1>1, <1>2, <1>3, MapsTorn

LEMMA TearRefines ==
    ASSUME IInv, DInv, DurableShape, DurableShape', log' \in Seq(Event),
           WriteUnknown \/ Crash
    PROVE  [Contract!Next]_(Contract!vars)
<1>1. acked' = acked /\ up /\ ~handle'
  BY DEF WriteUnknown, Crash, Forget
<1>2. CASE /\ handle /\ workerPc = "write"
           /\ \E r \in Remnants : Interrupted(r)
  BY <1>1, <1>2, InterruptedRefines DEF IInv
<1>3. CASE UNCHANGED <<log, torn>> /\ handle
  BY <1>1, <1>3, HandleLostRefines
<1>4. CASE UNCHANGED <<log, torn>> /\ ~handle
  BY <1>1, <1>4 DEF Contract!vars
<1>5. \/ handle /\ workerPc = "write" /\ \E r \in Remnants : Interrupted(r)
      \/ UNCHANGED <<log, torn>>
  BY DEF WriteUnknown, Crash, CanAppend
<1> QED BY <1>2, <1>3, <1>4, <1>5

(* A repair writes back what it can salvage, then the closers. *)
LEMMA RepairRefines ==
    ASSUME IInv, DInv, DurableShape, DurableShape', log' \in Seq(Event),
           LoadRepair \/ Reopen \/ RepairInterrupted
    PROVE  Contract!Next
<1>p. /\ TypeOK /\ log \in Seq(Event) /\ Durable \in Seq(Event)
      /\ Undurable \in Seq(Event) /\ <<>> \in Seq(Event)
      /\ Len(Durable) = Len(log) - torn
  BY Shape, EmptySeq DEF IInv, DurableShape
<1>1. ~up /\ ~handle /\ acked' = acked /\ log = Durable \o Undurable
  BY DEF LoadRepair, Reopen, RepairInterrupted, auxVars, DInv, HandleInv,
     DurableShape
<1>c. ASSUME NEW closers \in Closings
      PROVE  /\ closers \in Seq(Event) /\ Undurable \o closers \in Seq(Event)
             /\ closers = <<>> \/ (Len(closers) = 1 /\ closers[1].grp = Closer)
             /\ log \o closers = Durable \o (Undurable \o closers)
  <2>1. /\ closers \in Seq(Event)
        /\ closers = <<>> \/ (Len(closers) = 1 /\ closers[1].grp = Closer)
    BY <1>p, ClosingsShape
  <2> QED BY <1>1, <1>p, <2>1, Concat, ConcatAssociates, SMTT(30)
<1>2. CASE LoadRepair \/ Reopen
  <2>1. PICK closers \in Closings : log' = log \o closers /\ torn' = 0
    BY <1>2 DEF LoadRepair, Reopen, Repaired
  <2>2. ~handle' \/ Queue' = <<>>
    <3>1. CASE Reopen
      <4>1. pending' = <<>> /\ InFlight' = <<>>
        BY <3>1 DEF Reopen, IInv, ControlInv, DownControl, queueVars, InFlight
      <4> QED BY <4>1, <1>p, ConcatEmpty DEF Queue
    <3>2. CASE LoadRepair
      BY <1>1, <3>2 DEF LoadRepair, coreVars
    <3> QED BY <1>2, <3>1, <3>2
  <2>3. (Undurable \o closers) \o <<>> = Undurable \o closers
    BY <1>c, ConcatEmpty
  <2>4. PICK x \in Seq(Event) : x = Undurable \o closers
    BY <1>c
  <2>5. /\ closers \in Seq(Event)
        /\ closers = <<>> \/ (Len(closers) = 1 /\ closers[1].grp = Closer)
        /\ Undurable \o closers = x \o <<>> /\ log' = Durable \o x
    BY <1>c, <2>1, <2>3, <2>4
  <2> QED BY <1>1, <1>p, <2>1, <2>2, <2>5, MapsTorn
<1>3. CASE RepairInterrupted
  <2>0. PICK closers \in Closings :
           \E k \in Len(log) - torn .. Len(log \o closers) :
              /\ log' = SubSeq(log \o closers, 1, k)
              /\ torn' \in {0, k - (Len(log) - torn)}
    BY <1>3 DEF RepairInterrupted
  <2>1. PICK k \in Len(log) - torn .. Len(log \o closers) :
           /\ log' = SubSeq(log \o closers, 1, k)
           /\ torn' \in {0, k - (Len(log) - torn)}
    BY <2>0
  <2>2. PICK e \in Seq(Event) : e = Undurable \o closers
    BY <1>c
  <2>3. PICK s \in Seq(Event) : s = log \o closers /\ s = Durable \o e
    BY <1>c, <1>p, <2>2, Concat
  <2>4. PICK d \in Nat, m \in Nat :
           /\ d = Len(Durable) /\ m = Len(e) /\ Len(s) = d + m
    BY <1>p, <2>3, Concat
  <2>5. k \in d .. d + m /\ log' = SubSeq(s, 1, k) /\ torn' \in {0, k - d}
    BY <1>p, <2>1, <2>3, <2>4
  <2>6. PICK j \in 0 .. m : k = d + j
    <3>1. k - d \in 0 .. m /\ k = d + (k - d)
      BY <2>4, <2>5
    <3> QED BY <3>1
  <2>7. PICK x \in Seq(Event), y \in Seq(Event) : e = x \o y /\ Len(x) = j
    <3>1. /\ SubSeq(e, 1, j) \in Seq(Event) /\ Len(SubSeq(e, 1, j)) = j
      BY <2>4, Cut
    <3>2. /\ SubSeq(e, j + 1, Len(e)) \in Seq(Event)
          /\ SubSeq(e, 1, j) \o SubSeq(e, j + 1, Len(e)) = e
      BY <2>4, Split
    <3> QED BY <3>1, <3>2
  <2>8. log' = Durable \o x
    <3>1. PICK f \in Seq(Event) : f = Durable \o x /\ Len(f) = k
      <4>1. Durable \o x \in Seq(Event) /\ Len(Durable \o x) = d + j
        BY <1>p, <2>4, <2>7, Concat
      <4> QED BY <2>6, <4>1
    <3>2. s = f \o y
      <4>1. s = Durable \o (x \o y)
        BY <2>3, <2>7
      <4>2. Durable \o (x \o y) = (Durable \o x) \o y
        <5>1. PICK D \in Seq(Event) : D = Durable
          BY <1>p
        <5>2. (D \o x) \o y = D \o (x \o y)
          BY ConcatAssociates, ZenonT(40)
        <5> QED BY <5>1, <5>2
      <4> QED BY <3>1, <4>1, <4>2
    <3>3. SubSeq((f \o y) \o <<>>, 1, Len(f)) = f
      BY <1>p, Parts
    <3>4. (f \o y) \o <<>> = f \o y
      BY Concat, ConcatEmpty
    <3>5. SubSeq(s, 1, k) = Durable \o x
      BY <3>1, <3>2, <3>3, <3>4
    <3> QED BY <2>5, <3>5
  <2>9. torn' \in {0, Len(x)}
    <3>1. k - d = j
      BY <2>4, <2>6
    <3> QED BY <2>5, <2>7, <3>1
  <2>10. ~handle'
    BY <1>1, <1>3 DEF RepairInterrupted, coreVars
  <2>11. /\ closers \in Seq(Event)
         /\ closers = <<>> \/ (Len(closers) = 1 /\ closers[1].grp = Closer)
         /\ Undurable \o closers = x \o y
    BY <1>c, <2>2, <2>7
  <2> QED BY <1>1, <2>8, <2>9, <2>10, <2>11, MapsTorn
<1> QED BY <1>2, <1>3

(* Books are only added to. *)
LEMMA AckedGrows == [Next]_vars => acked \subseteq acked'
<1> SUFFICES ASSUME [Next]_vars PROVE acked \subseteq acked'
  OBVIOUS
<1>1. ASSUME NEW c \in Clients, ClientCall(c) \/ ClientStep(c)
      PROVE  acked \subseteq acked'
  BY <1>1
     DEF ClientCall, ClientStep, AppendAtomic, DurableStart,
     FlushStart, CloseStart, CloseAgain, FlushEnter, FlushWake, FlushReturn,
     DurableCommitted, DurableFailed, DiscardTail, DiscardRefused,
     DurableRollback, CloseJoin, auxVars
<1>2. CASE EnqueueSeed \/ WorkerStep \/ WindowExpires \/ UNCHANGED vars
  BY <1>2
     DEF EnqueueSeed, WorkerStep, WorkerTake, WriteCommits,
     WriteNotCommitted, WriteUnknown, SettleCommitted,
     SettleRestored, SettleDropped, WorkerExit, WindowExpires, vars, auxVars
<1>3. CASE Crash \/ Release \/ LoadRepair \/ RepairInterrupted \/ Reopen
  BY <1>3 DEF Crash, Release, LoadRepair, RepairInterrupted, Reopen, auxVars
<1> QED BY <1>1, <1>2, <1>3 DEF Next

(* Every other step leaves the log, its torn frame and the handle alone. *)
LEMMA DiskKept ==
    ASSUME OpenInv, [Next]_vars, ~WriteCommits, ~WriteUnknown, ~Crash, ~Release,
           ~LoadRepair, ~RepairInterrupted, ~Reopen
    PROVE  /\ UNCHANGED <<log, torn, handle, up>>
           /\ up \/ UNCHANGED vars
<1>1. ASSUME NEW c \in Clients, ClientCall(c) \/ ClientStep(c)
      PROVE  UNCHANGED <<log, torn, handle, up>> /\ up
  <2>1. ~CloseJoin(c) /\ ~CloseAgain(c)
    BY DEF CloseJoin, CloseAgain, OpenInv
  <2> QED
    BY <1>1, <2>1
     DEF ClientCall, ClientStep, AppendAtomic, DurableStart, EnqueueGroup,
     FlushStart, CloseStart, FlushEnter, FlushWake, FlushReturn,
     DurableCommitted, DurableFailed, DiscardTail, DiscardRefused,
     DurableRollback, diskVars, coreVars, clientVars
<1>2. CASE \/ EnqueueSeed \/ WorkerTake \/ WriteNotCommitted
           \/ SettleCommitted \/ SettleRestored \/ SettleDropped \/ WorkerExit
           \/ WindowExpires
  BY <1>2
     DEF EnqueueSeed, WorkerTake, WriteNotCommitted, WriteOutcome,
     SettleCommitted, SettleRestored, SettleDropped, WorkerExit, WindowExpires,
     diskVars, coreVars, clientVars
<1>3. CASE UNCHANGED vars
  BY <1>3 DEF vars, diskVars, coreVars, clientVars
<1> QED BY <1>1, <1>2, <1>3 DEF Next, WorkerStep

LEMMA ContractStep ==
    /\ IInv /\ DInv /\ OpenInv /\ BoundaryInv /\ DurableShape
    /\ [Next]_vars
    /\ TypeOK' /\ DurableShape' /\ AckedShape'
    => [Contract!Next]_(Contract!vars)
<1> SUFFICES ASSUME IInv, DInv, OpenInv, BoundaryInv, DurableShape,
                    [Next]_vars, TypeOK', DurableShape', AckedShape'
             PROVE  [Contract!Next]_(Contract!vars)
  OBVIOUS
<1>p. TypeOK /\ log' \in Seq(Event) /\ acked \subseteq acked'
  BY AckedGrows DEF IInv, TypeOK, DiskType
<1>1. CASE WriteCommits
  BY <1>1, CommitRefines
<1>2. CASE WriteUnknown \/ Crash
  BY <1>2, <1>p, TearRefines
<1>3. CASE LoadRepair \/ RepairInterrupted \/ Reopen
  BY <1>3, <1>p, RepairRefines
<1>4. ~Release /\ ~SettleDropped
  BY DEF Release, SettleDropped, OpenInv
<1>5. CASE /\ ~WriteCommits /\ ~WriteUnknown /\ ~Crash /\ ~Release
           /\ ~LoadRepair /\ ~RepairInterrupted /\ ~Reopen
  <2>1. UNCHANGED <<log, torn, handle, up>> /\ (up \/ UNCHANGED vars)
    BY <1>5, DiskKept
  <2>2. CASE UNCHANGED vars
    <3>1. UNCHANGED <<log, torn, handle, acked, pending, batch, workerPc, written>>
      BY <2>2 DEF vars, diskVars, coreVars, queueVars, workerVars, auxVars
    <3> QED BY <3>1 DEF Contract!vars, Queue, InFlight
  <2>3. ASSUME up, NEW c \in Clients, DiscardTail(c)
        PROVE  [Contract!Next]_(Contract!vars)
    BY <2>3, DiscardRefines
  <2>4. CASE up /\ (EnqueueSeed \/ \E c \in Clients : AppendAtomic(c) \/ DurableStart(c))
    BY <2>4, EnqueueRefines
  <2>5. CASE /\ up /\ ~EnqueueSeed
             /\ \A c \in Clients :
                   ~AppendAtomic(c) /\ ~DurableStart(c) /\ ~DiscardTail(c)
    <3>1. Queue' = Queue
      BY <1>4, <1>5, <1>p, <2>1, <2>5, StreamKept
    <3> QED BY <1>p, <2>1, <3>1, QuietRefines
  <2> QED BY <2>1, <2>2, <2>3, <2>4, <2>5
<1> QED BY <1>1, <1>2, <1>3, <1>4, <1>5

LEMMA ContractInit == Init => Contract!Init
<1> SUFFICES ASSUME Init PROVE Contract!Init
  OBVIOUS
<1>1. /\ log = <<>> /\ torn = 0 /\ handle /\ acked = {}
      /\ pending = <<>> /\ InFlight = <<>>
  BY DEF Init, InFlight
<1>2. <<>> \in Seq(Event) /\ Len(<<>>) = 0 /\ <<>> \o <<>> = <<>>
  BY EmptySeq, ConcatEmpty
<1>3. SubSeq(log, 1, Len(log) - torn) = <<>>
  <2>1. 0 \in 0 .. Len(<<>>) /\ Len(log) - torn = 0
    BY <1>1, <1>2
  <2>2. SubSeq(<<>>, 1, 0) \in Seq(Event) /\ Len(SubSeq(<<>>, 1, 0)) = 0
    BY <1>2, <2>1, Cut
  <2> QED BY <1>1, <2>1, <2>2, EmptySeq
<1> QED BY <1>1, <1>2, <1>3, GroupSeqEmpty DEF Contract!Init, Queue

(* A journal that is not closed, with any number of producers, groups and   *)
(* faults, implements the durable log: whole groups are submitted, become   *)
(* durable in order, are withdrawn from the tail, are torn by a crash or an *)
(* unknown outcome and are acknowledged once they are durable.             *)
THEOREM RefinesDurableLog ==
    ASSUME Closers = {}
    PROVE  Spec => ImplementsDurableLog
<1>1. OpenInv /\ BoundaryInv /\ IInv /\ DInv /\ [Next]_vars
      => (OpenInv /\ BoundaryInv)'
  BY OpenStep, BoundaryStep DEF IInv
<1>2. IInv => TypeOK
  BY DEF IInv
<1>3. Spec => [](OpenInv /\ BoundaryInv)
  BY <1>1, InitOpen, Invariance, DurableInvariance, PTL DEF Spec
<1>4. Spec => [](TypeOK /\ DurableShape /\ AckedShape)
  BY <1>2, <1>3, Invariance, DurableInvariance, DurableShaped, AckedShaped, PTL
<1>5. IInv /\ DInv /\ OpenInv /\ BoundaryInv /\ DurableShape /\ [Next]_vars
      /\ (TypeOK /\ DurableShape /\ AckedShape)'
      => [Contract!Next]_(Contract!vars)
  BY ContractStep
<1> QED
  BY <1>3, <1>4, <1>5, Invariance, DurableInvariance, ContractInit, PTL
     DEF Spec, ImplementsDurableLog, Contract!Spec
===============================================================================
