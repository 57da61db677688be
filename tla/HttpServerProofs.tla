-------------------------- MODULE HttpServerProofs --------------------------
(***************************************************************************)
(* What TLAPS proves of HttpServer, for any connections, callers, limit of *)
(* handlers and number of accept errors.                                   *)
(***************************************************************************)
EXTENDS HttpServer, FiniteSetTheorems, SequenceTheorems, TLAPS

Letters ==
    {Upgraded(c) : c \in Conns} \cup {Done(c, r) : c \in Conns, r \in Results}
      \cup {StopCall(x) : x \in Callers}

(***************************************************************************)
(* The mailbox: a message is taken out of it, or appended.                 *)
(***************************************************************************)

\* q is s without its i-th element.
Without(s, q, i) ==
    /\ Len(q) = Len(s) - 1
    /\ \A j \in 1 .. Len(q) : q[j] = IF j < i THEN s[j] ELSE s[j + 1]

\* The head is taken: what is left is the mailbox without its first message.
LEMMA TailIsWithout ==
  ASSUME NEW S, NEW s \in Seq(S), s # <<>>
  PROVE  Tail(s) \in Seq(S) /\ Without(s, Tail(s), 1) /\ 1 \in DOMAIN s /\ s[1] = Head(s)
<1>1. Len(s) \in Nat /\ Len(s) >= 1 /\ DOMAIN s = 1 .. Len(s)
  BY EmptySeq, LenProperties
<1>2. /\ Tail(s) \in Seq(S)
      /\ Len(Tail(s)) = Len(s) - 1
      /\ \A i \in 1 .. Len(Tail(s)) : Tail(s)[i] = s[i + 1]
  BY HeadTailProperties
<1> QED BY <1>1, <1>2 DEF Without

\* RemoveAt leaves the sequence without the element at its index.
LEMMA RemoveAtIsWithout ==
  ASSUME NEW S, NEW s \in Seq(S), NEW i \in DOMAIN s
  PROVE  RemoveAt(s, i) \in Seq(S) /\ Without(s, RemoveAt(s, i), i)
<1>1. Len(s) \in Nat /\ DOMAIN s = 1 .. Len(s) /\ i \in 1 .. Len(s)
  BY LenProperties
<1>2. /\ SubSeq(s, 1, i - 1) \in Seq(S)
      /\ Len(SubSeq(s, 1, i - 1)) = i - 1
      /\ \A j \in 1 .. i - 1 : SubSeq(s, 1, i - 1)[j] = s[j]
  <2>1. \A j \in 1 .. i - 1 : s[j] \in S
    BY <1>1, ElementOfSeq
  <2>2. /\ SubSeq(s, 1, i - 1) \in Seq(S)
        /\ Len(SubSeq(s, 1, i - 1)) = IF 1 <= i - 1 THEN (i - 1) - 1 + 1 ELSE 0
        /\ \A j \in 1 .. (i - 1) - 1 + 1 : SubSeq(s, 1, i - 1)[j] = s[1 + j - 1]
    BY <1>1, <2>1, SubSeqProperties
  <2> QED BY <1>1, <2>2
<1>3. /\ SubSeq(s, i + 1, Len(s)) \in Seq(S)
      /\ Len(SubSeq(s, i + 1, Len(s))) = Len(s) - i
      /\ \A j \in 1 .. Len(s) - i : SubSeq(s, i + 1, Len(s))[j] = s[i + j]
  <2>1. \A j \in i + 1 .. Len(s) : s[j] \in S
    BY <1>1, ElementOfSeq
  <2>2. /\ SubSeq(s, i + 1, Len(s)) \in Seq(S)
        /\ Len(SubSeq(s, i + 1, Len(s)))
             = IF i + 1 <= Len(s) THEN Len(s) - (i + 1) + 1 ELSE 0
        /\ \A j \in 1 .. Len(s) - (i + 1) + 1 :
             SubSeq(s, i + 1, Len(s))[j] = s[(i + 1) + j - 1]
    BY <1>1, <2>1, SubSeqProperties
  <2> QED BY <1>1, <2>2
<1>4. /\ RemoveAt(s, i) \in Seq(S)
      /\ Len(RemoveAt(s, i)) = (i - 1) + (Len(s) - i)
      /\ \A j \in 1 .. (i - 1) + (Len(s) - i) : RemoveAt(s, i)[j] =
           IF j <= i - 1 THEN SubSeq(s, 1, i - 1)[j]
           ELSE SubSeq(s, i + 1, Len(s))[j - (i - 1)]
  <2> DEFINE a == SubSeq(s, 1, i - 1)
             b == SubSeq(s, i + 1, Len(s))
  <2>1. a \in Seq(S) /\ b \in Seq(S) /\ Len(a) = i - 1 /\ Len(b) = Len(s) - i
    BY <1>2, <1>3
  <2>2. RemoveAt(s, i) = a \o b
    BY DEF RemoveAt
  <2> HIDE DEF a, b
  <2>3. /\ a \o b \in Seq(S)
        /\ Len(a \o b) = Len(a) + Len(b)
        /\ \A j \in 1 .. Len(a) + Len(b) : (a \o b)[j] =
             IF j <= Len(a) THEN a[j] ELSE b[j - Len(a)]
    BY <2>1, ConcatProperties
  <2> QED BY <2>1, <2>2, <2>3 DEF a, b
<1>5. ASSUME NEW j \in 1 .. Len(s) - 1
      PROVE  RemoveAt(s, i)[j] = IF j < i THEN s[j] ELSE s[j + 1]
  <2>1. CASE j < i
    BY <1>1, <1>2, <1>4, <2>1
  <2>2. CASE ~(j < i)
    <3>1. j - (i - 1) \in 1 .. Len(s) - i
      BY <1>1, <2>2
    <3>2. SubSeq(s, i + 1, Len(s))[j - (i - 1)] = s[i + (j - (i - 1))]
      BY <3>1, <1>3
    <3> QED BY <1>1, <1>4, <2>2, <3>2
  <2> QED BY <2>1, <2>2
<1> QED BY <1>1, <1>4, <1>5 DEF Without

\* What is left was there, elsewhere than at i, each in a place of its own; and
\* what was there elsewhere is left.
LEMMA WithoutOccurs ==
  ASSUME NEW S, NEW s \in Seq(S), NEW q \in Seq(S), NEW i \in DOMAIN s, Without(s, q, i)
  PROVE  /\ \A j \in DOMAIN q : \E k \in DOMAIN s \ {i} : q[j] = s[k]
         /\ \A k \in DOMAIN s \ {i} : \E j \in DOMAIN q : q[j] = s[k]
         /\ \A j, k \in DOMAIN q : j # k =>
              \E l, m \in DOMAIN s \ {i} : l # m /\ q[j] = s[l] /\ q[k] = s[m]
<1> DEFINE Place(j) == IF j < i THEN j ELSE j + 1
<1>1. /\ Len(s) \in Nat /\ Len(q) = Len(s) - 1
      /\ DOMAIN s = 1 .. Len(s) /\ DOMAIN q = 1 .. Len(q) /\ i \in 1 .. Len(s)
  BY LenProperties DEF Without
<1>2. \A j \in DOMAIN q : Place(j) \in DOMAIN s \ {i} /\ q[j] = s[Place(j)]
  BY <1>1 DEF Without
<1>3. \A k \in DOMAIN s \ {i} : \E j \in DOMAIN q : Place(j) = k
  <2> TAKE k \in DOMAIN s \ {i}
  <2>1. CASE k < i
    <3>1. k \in DOMAIN q /\ Place(k) = k
      BY <2>1, <1>1
    <3> QED BY <3>1
  <2>2. CASE ~(k < i)
    <3>1. k - 1 \in DOMAIN q /\ Place(k - 1) = k
      BY <2>2, <1>1
    <3> QED BY <3>1
  <2> QED BY <2>1, <2>2
<1>4. \A j, k \in DOMAIN q : j # k => Place(j) # Place(k)
  BY <1>1
<1> HIDE DEF Place
<1> QED BY <1>2, <1>3, <1>4

\* An appended message is the last; the others stay where they are.
LEMMA AppendKeeps ==
  ASSUME NEW S, NEW s \in Seq(S), NEW e \in S
  PROVE  /\ Append(s, e) \in Seq(S)
         /\ DOMAIN s = 1 .. Len(s) /\ Len(s) \in Nat
         /\ DOMAIN Append(s, e) = DOMAIN s \cup {Len(s) + 1}
         /\ Len(s) + 1 \notin DOMAIN s
         /\ \A j \in DOMAIN s : Append(s, e)[j] = s[j]
         /\ Append(s, e)[Len(s) + 1] = e
  BY LenProperties

\* Messages of different senders or kinds differ.
LEMMA LettersDiffer ==
  /\ \A c, d \in Conns : Upgraded(c) = Upgraded(d) => c = d
  /\ \A c, d \in Conns, r \in Results : Upgraded(c) # Done(d, r)
  /\ \A c \in Conns, x \in Callers : Upgraded(c) # StopCall(x)
  /\ \A c, d \in Conns, r, t \in Results : Done(c, r) = Done(d, t) => c = d /\ r = t
  /\ \A c \in Conns, r \in Results, x \in Callers : Done(c, r) # StopCall(x)
  BY DEF Upgraded, Done, StopCall

(***************************************************************************)
(* The inductive invariant, and the actions in terms of it.                *)
(***************************************************************************)

\* What is inductive: HandlersBounded follows from SlotsCounted.
Core ==
    /\ TypeOK /\ ActiveAccounted
    /\ SlotsCounted /\ ReportedOnce /\ BacklogWaits /\ AllCounted /\ ReportTrue

\* The sets that are counted are finite, before a step and after it.
LEMMA CountedFinite ==
  /\ IsFiniteSet(Remaining) /\ IsFiniteSet(Accepted) /\ IsFiniteSet(HoldingSlot)
  /\ {Cardinality(Remaining), Cardinality(Accepted), Cardinality(HoldingSlot)} \subseteq Nat
  /\ {Cardinality(Remaining)', Cardinality(Accepted)', Cardinality(HoldingSlot)'} \subseteq Nat
<1>1. \A S \in SUBSET Conns : IsFiniteSet(S) /\ Cardinality(S) \in Nat
  BY HttpServerAssumption, FS_Subset, FS_CardinalityType
<1>2. /\ {Remaining, Accepted, HoldingSlot} \subseteq SUBSET Conns
      /\ {Remaining', Accepted', HoldingSlot'} \subseteq SUBSET Conns
  BY DEF Remaining, Accepted, HoldingSlot
<1> QED BY <1>1, <1>2

\* Workers' messages come from connections.
LEMMA FromWhom ==
  ASSUME TypeOK, NEW i \in DOMAIN box
  PROVE  box[i] \in Letters
         /\ (box[i].tag \in {"handler_upgraded", "handler_done"} => box[i].from \in Conns)
<1>1. box \in Seq(Letters)
  BY DEF TypeOK, Letters
<1>2. box[i] \in Letters
  BY <1>1, LenProperties, ElementOfSeq
<1> QED BY <1>2 DEF Letters, Upgraded, Done, StopCall

\* Both ways of taking a message leave the mailbox without it.
LEMMA TakesOne ==
  ASSUME TypeOK, NEW m, Takes(m) \/ TakesFirst(m)
  PROVE  /\ box' \in Seq(Letters)
         /\ \E i \in DOMAIN box : box[i] = m /\ Without(box, box', i)
<1>1. box \in Seq(Letters)
  BY DEF TypeOK, Letters
<1>2. CASE Takes(m)
  BY <1>1, <1>2, TailIsWithout DEF Takes
<1>3. CASE TakesFirst(m)
  <2>1. PICK i \in FromWorkers : box[i] = m /\ box' = RemoveAt(box, i)
    BY <1>3 DEF TakesFirst
  <2>2. i \in DOMAIN box
    BY DEF FromWorkers
  <2> QED BY <1>1, <2>1, <2>2, RemoveAtIsWithout
<1> QED BY <1>2, <1>3

\* Taking one message leaves every other, and adds none.
LEMMA TakenKeeps ==
  ASSUME TypeOK, NEW m, Takes(m) \/ TakesFirst(m)
  PROVE  /\ box' \in Seq(Letters)
         /\ Sent(m)
         /\ \A n : n # m /\ Sent(n) => Sent(n)'
         /\ \A j \in DOMAIN box' : \E k \in DOMAIN box : box'[j] = box[k]
<1>1. box \in Seq(Letters)
  BY DEF TypeOK, Letters
<1>2. box' \in Seq(Letters)
  BY TakesOne
<1>3. PICK i \in DOMAIN box : box[i] = m /\ Without(box, box', i)
  BY TakesOne
<1>4. /\ \A j \in DOMAIN box' : \E k \in DOMAIN box \ {i} : box'[j] = box[k]
      /\ \A k \in DOMAIN box \ {i} : \E j \in DOMAIN box' : box'[j] = box[k]
  BY <1>1, <1>2, <1>3, WithoutOccurs
<1> QED BY <1>2, <1>3, <1>4 DEF Sent

\* Reports that are still in the mailbox are as they were, once each; the one
\* that was taken is not among them.
LEMMA TakenReportedOnce ==
  ASSUME TypeOK, ReportedOnce, NEW m, Takes(m) \/ TakesFirst(m)
  PROVE  /\ \A i, j \in DOMAIN box' :
              box'[i].tag = "handler_done" /\ box'[j].tag = "handler_done"
                /\ box'[i].from = box'[j].from => i = j
         /\ m.tag = "handler_done" =>
              \A j \in DOMAIN box' :
                box'[j].tag = "handler_done" => box'[j].from # m.from
<1>1. box \in Seq(Letters)
  BY DEF TypeOK, Letters
<1>0. box' \in Seq(Letters)
  BY TakesOne
<1>2. PICK i \in DOMAIN box : box[i] = m /\ Without(box, box', i)
  BY TakesOne
<1>3. /\ \A j \in DOMAIN box' : \E k \in DOMAIN box \ {i} : box'[j] = box[k]
      /\ \A j, k \in DOMAIN box' : j # k =>
           \E l, n \in DOMAIN box \ {i} : l # n /\ box'[j] = box[l] /\ box'[k] = box[n]
  BY <1>1, <1>0, <1>2, WithoutOccurs
<1>4. \A l, n \in DOMAIN box :
        box[l].tag = "handler_done" /\ box[n].tag = "handler_done"
          /\ box[l].from = box[n].from => l = n
  BY DEF ReportedOnce
<1>5. ASSUME NEW j \in DOMAIN box', NEW k \in DOMAIN box', j # k,
             box'[j].tag = "handler_done", box'[k].tag = "handler_done",
             box'[j].from = box'[k].from
      PROVE  FALSE
  BY <1>3, <1>4, <1>5
<1>6. ASSUME m.tag = "handler_done", NEW j \in DOMAIN box', box'[j].tag = "handler_done",
             box'[j].from = m.from
      PROVE  FALSE
  BY <1>2, <1>3, <1>4, <1>6
<1> QED BY <1>5, <1>6

\* A message that is appended leaves every other where it is.
LEMMA SentKeeps ==
  ASSUME TypeOK, NEW m \in Letters, box' = Append(box, m)
  PROVE  /\ box' \in Seq(Letters)
         /\ \A n : Sent(n)' <=> Sent(n) \/ n = m
         /\ \A j \in DOMAIN box' : box'[j] = m \/ \E k \in DOMAIN box : box'[j] = box[k]
         /\ ReportedOnce /\ (\A k \in DOMAIN box :
              m.tag = "handler_done" /\ box[k].tag = "handler_done" => box[k].from # m.from)
              => \A i, j \in DOMAIN box' :
                   box'[i].tag = "handler_done" /\ box'[j].tag = "handler_done"
                     /\ box'[i].from = box'[j].from => i = j
<1>1. box \in Seq(Letters)
  BY DEF TypeOK, Letters
<1>2. /\ box' \in Seq(Letters)
      /\ DOMAIN box' = DOMAIN box \cup {Len(box) + 1}
      /\ \A j \in DOMAIN box : box'[j] = box[j]
      /\ box'[Len(box) + 1] = m
  BY <1>1, AppendKeeps
<1>3. \A n : Sent(n)' <=> Sent(n) \/ n = m
  BY <1>2 DEF Sent
<1> QED BY <1>2, <1>3 DEF ReportedOnce

\* A conjunct holds as long as nothing it speaks of changes.
LEMMA Frames ==
  ASSUME Core
  PROVE  /\ UNCHANGED <<owner, active, worker, box>> => ActiveAccounted'
         /\ UNCHANGED <<owner, http, active, worker>> => SlotsCounted'
         /\ UNCHANGED <<box, worker, active>> => ReportedOnce'
         /\ UNCHANGED <<backlog, worker, active>> => BacklogWaits'
         /\ UNCHANGED <<completed, failed, active, worker, errors>> => AllCounted'
         /\ UNCHANGED <<reply, owner, completed, failed, active, worker, doomed, call>>
              => ReportTrue'
<1> USE DEF Core, Running, Remaining
<1>1. UNCHANGED <<owner, active, worker, box>> => ActiveAccounted'
  BY DEF ActiveAccounted, Sent
<1>2. UNCHANGED <<owner, http, active, worker>> => SlotsCounted'
  BY DEF SlotsCounted, HoldingSlot
<1>3. UNCHANGED <<box, worker, active>> => ReportedOnce'
  BY DEF ReportedOnce
<1>4. UNCHANGED <<backlog, worker, active>> => BacklogWaits'
  BY DEF BacklogWaits, Accepted
<1>5. UNCHANGED <<completed, failed, active, worker, errors>> => AllCounted'
  BY DEF AllCounted, Accepted
<1>6. UNCHANGED <<reply, owner, completed, failed, active, worker, doomed, call>>
        => ReportTrue'
  BY DEF ReportTrue
<1> QED BY <1>1, <1>2, <1>3, <1>4, <1>5, <1>6

\* Before a report nothing is reported and no stop has returned one.
LEMMA Unreported ==
  ASSUME Core, owner \notin {"replied", "gone"}
  PROVE  /\ \A x \in Callers : reply[x] = NoReport /\ call[x] # "report"
         /\ UNCHANGED <<reply, call>> /\ owner' \notin {"replied", "gone"} => ReportTrue'
<1>1. \A x \in Callers : reply[x] = NoReport /\ call[x] # "report"
  BY DEF Core, ReportTrue
<1> QED BY <1>1 DEF ReportTrue

Unit(b) == IF b THEN 1 ELSE 0

\* Two sets that differ at most at one element, counted.
LEMMA OneDiffers ==
  ASSUME NEW S, IsFiniteSet(S), NEW T, NEW c, T \ {c} = S \ {c}
  PROVE  /\ IsFiniteSet(T)
         /\ Cardinality(T) = Cardinality(S) + Unit(c \in T) - Unit(c \in S)
<1>1. /\ IsFiniteSet(S \ {c}) /\ Cardinality(S \ {c}) \in Nat
      /\ Cardinality(S) \in Nat
      /\ Cardinality(S \ {c}) = IF c \in S THEN Cardinality(S) - 1 ELSE Cardinality(S)
  BY FS_RemoveElement, FS_CardinalityType
<1>2. /\ IsFiniteSet((S \ {c}) \cup {c})
      /\ Cardinality((S \ {c}) \cup {c}) = Cardinality(S \ {c}) + 1
  BY <1>1, FS_AddElement
<1>3. T = IF c \in T THEN (S \ {c}) \cup {c} ELSE S \ {c}
  OBVIOUS
<1>4. CASE c \in T
  <2>1. T = (S \ {c}) \cup {c}
    BY <1>3, <1>4
  <2> QED BY <1>1, <1>2, <1>4, <2>1 DEF Unit
<1>5. CASE c \notin T
  <2>1. T = S \ {c}
    BY <1>3, <1>5
  <2> QED BY <1>1, <1>5, <2>1 DEF Unit
<1> QED BY <1>4, <1>5

\* What one entry of the map, or one worker, that changes does to the counts.
LEMMA Recount ==
  ASSUME TypeOK, NEW c \in Conns, NEW v
  PROVE  /\ UNCHANGED active => UNCHANGED <<HoldingSlot, Remaining>>
         /\ UNCHANGED worker => UNCHANGED Accepted
         /\ active' = [active EXCEPT ![c] = v] =>
              /\ Cardinality(HoldingSlot)' =
                   Cardinality(HoldingSlot) + Unit(v = "http") - Unit(active[c] = "http")
              /\ Cardinality(Remaining)' =
                   Cardinality(Remaining) + Unit(v # "none") - Unit(active[c] # "none")
         /\ worker' = [worker EXCEPT ![c] = v] =>
              Cardinality(Accepted)' = Cardinality(Accepted)
                + Unit(v \notin {"away", "backlog", "refused"})
                - Unit(worker[c] \notin {"away", "backlog", "refused"})
<1>1. ASSUME active' = [active EXCEPT ![c] = v]
      PROVE  /\ HoldingSlot' \ {c} = HoldingSlot \ {c}
             /\ Remaining' \ {c} = Remaining \ {c}
             /\ c \in HoldingSlot' <=> v = "http"
             /\ c \in HoldingSlot <=> active[c] = "http"
             /\ c \in Remaining' <=> v # "none"
             /\ c \in Remaining <=> active[c] # "none"
  BY <1>1 DEF TypeOK, HoldingSlot, Remaining
<1>2. ASSUME worker' = [worker EXCEPT ![c] = v]
      PROVE  /\ Accepted' \ {c} = Accepted \ {c}
             /\ c \in Accepted' <=> v \notin {"away", "backlog", "refused"}
             /\ c \in Accepted <=> worker[c] \notin {"away", "backlog", "refused"}
  BY <1>2 DEF TypeOK, Accepted
<1>3. ASSUME active' = [active EXCEPT ![c] = v]
      PROVE  /\ Cardinality(HoldingSlot)' =
                  Cardinality(HoldingSlot) + Unit(v = "http") - Unit(active[c] = "http")
             /\ Cardinality(Remaining)' =
                  Cardinality(Remaining) + Unit(v # "none") - Unit(active[c] # "none")
  <2>1. Cardinality(HoldingSlot') = Cardinality(HoldingSlot)
          + Unit(c \in HoldingSlot') - Unit(c \in HoldingSlot)
    BY <1>1, <1>3, CountedFinite, OneDiffers
  <2>2. Cardinality(Remaining') = Cardinality(Remaining)
          + Unit(c \in Remaining') - Unit(c \in Remaining)
    BY <1>1, <1>3, CountedFinite, OneDiffers
  <2> QED BY <2>1, <2>2, <1>1, <1>3 DEF Unit
<1>4. ASSUME worker' = [worker EXCEPT ![c] = v]
      PROVE  Cardinality(Accepted)' = Cardinality(Accepted)
               + Unit(v \notin {"away", "backlog", "refused"})
               - Unit(worker[c] \notin {"away", "backlog", "refused"})
  <2>1. Cardinality(Accepted') = Cardinality(Accepted)
          + Unit(c \in Accepted') - Unit(c \in Accepted)
    BY <1>2, <1>4, CountedFinite, OneDiffers
  <2> QED BY <2>1, <1>2, <1>4 DEF Unit
<1>5. /\ UNCHANGED active => UNCHANGED <<HoldingSlot, Remaining>>
      /\ UNCHANGED worker => UNCHANGED Accepted
  BY DEF HoldingSlot, Remaining, Accepted
<1> QED BY <1>3, <1>4, <1>5

(***************************************************************************)
(* Each action keeps the invariant.                                        *)
(***************************************************************************)

\* The owner takes an upgrade: the slot, if the worker holds one, is free.
LEMMA TakeUpgradedKeeps ==
  ASSUME Core, NEW c \in Conns, TakeUpgraded(c)
  PROVE  Core'
<1>1. /\ owner = "loop" /\ Takes(Upgraded(c)) /\ UpgradeWorker(c)
      /\ UNCHANGED <<owner, completed, failed, stopFrom, backlog, worker, doomed, call,
                     reply, errors>>
      /\ TypeOK /\ http = Cardinality(HoldingSlot)
  BY DEF TakeUpgraded, Core, SlotsCounted
<1>2. /\ box' \in Seq(Letters) /\ Sent(Upgraded(c))
      /\ \A n : n # Upgraded(c) /\ Sent(n) => Sent(n)'
      /\ \A j \in DOMAIN box' : \E k \in DOMAIN box : box'[j] = box[k]
  BY <1>1, TakenKeeps
<1>3. /\ active' \in [Conns -> {"none", "http", "websocket"}]
      /\ \A d \in Conns :
           active'[d] = IF d = c /\ active[c] = "http" THEN "websocket" ELSE active[d]
  <2>1. CASE active[c] # "http"
    BY <1>1, <2>1 DEF UpgradeWorker, TypeOK
  <2>2. CASE active[c] = "http"
    <3>1. active' = [active EXCEPT ![c] = "websocket"]
      BY <1>1, <2>2 DEF UpgradeWorker
    <3> QED BY <1>1, <2>2, <3>1 DEF TypeOK
  <2> QED BY <2>1, <2>2
<1>4. /\ http' = Cardinality(HoldingSlot)'
      /\ Cardinality(HoldingSlot)' <= Cardinality(HoldingSlot)
      /\ Cardinality(Remaining)' = Cardinality(Remaining)
      /\ UNCHANGED Accepted
  <2>1. CASE active[c] # "http"
    BY <1>1, <2>1, Recount, CountedFinite DEF UpgradeWorker
  <2>2. CASE active[c] = "http"
    BY <1>1, <2>2, Recount, CountedFinite DEF UpgradeWorker, Unit
  <2> QED BY <2>1, <2>2
<1>5. worker[c] \in {"websocket", "ended", "killed"}
  BY <1>2 DEF Core, ReportedOnce, Sent, Upgraded
<1>6. TypeOK'
  BY <1>1, <1>2, <1>3, <1>4, CountedFinite DEF TypeOK, Letters
<1>7. ActiveAccounted'
  BY <1>1, <1>2, <1>3, LettersDiffer DEF Core, ActiveAccounted, Running
<1>8. SlotsCounted'
  BY <1>1, <1>3, <1>4, <1>5, CountedFinite, HttpServerAssumption DEF Core, SlotsCounted, Running
<1>9. ReportedOnce'
  <2>1. ASSUME NEW j \in DOMAIN box'
        PROVE  /\ box'[j].tag = "handler_upgraded" =>
                    worker[box'[j].from] \in {"websocket", "ended", "killed"}
               /\ box'[j].tag = "handler_done" =>
                    worker[box'[j].from] = "ended" /\ active'[box'[j].from] # "none"
    BY <1>1, <1>2, <1>3, FromWhom DEF Core, ReportedOnce
  <2> QED BY <1>1, <2>1, TakenReportedOnce DEF Core, ReportedOnce
<1>10. BacklogWaits' /\ AllCounted'
  BY <1>1, <1>3, <1>4 DEF Core, BacklogWaits, AllCounted, Remaining
<1> QED BY <1>1, <1>6, <1>7, <1>8, <1>9, <1>10, Unreported DEF Core

\* The owner takes the end of a worker it knows, which is then counted.
LEMMA TakeDoneKeeps ==
  ASSUME Core, NEW c \in Conns, NEW r \in Results, TakeDone(c, r)
  PROVE  Core'
<1>1. /\ owner = "loop" /\ Takes(Done(c, r)) /\ RemoveWorker(c) /\ Tally(r)
      /\ UNCHANGED <<owner, stopFrom, backlog, worker, doomed, call, reply, errors>>
      /\ TypeOK /\ http = Cardinality(HoldingSlot)
  BY DEF TakeDone, Core, SlotsCounted
<1>2. /\ box' \in Seq(Letters) /\ Sent(Done(c, r))
      /\ \A n : n # Done(c, r) /\ Sent(n) => Sent(n)'
      /\ \A j \in DOMAIN box' : \E k \in DOMAIN box : box'[j] = box[k]
      /\ \A j \in DOMAIN box' : box'[j].tag = "handler_done" => box'[j].from # c
  BY <1>1, TakenKeeps, TakenReportedOnce DEF Core, Done
<1>3. worker[c] = "ended" /\ active[c] # "none"
  BY <1>2 DEF Core, ReportedOnce, Sent, Done
<1>4. active' = [active EXCEPT ![c] = "none"]
  BY <1>1 DEF RemoveWorker
<1>5. /\ active' \in [Conns -> {"none", "http", "websocket"}]
      /\ \A d \in Conns : active'[d] = IF d = c THEN "none" ELSE active[d]
  BY <1>1, <1>4 DEF TypeOK
<1>6. /\ http' = Cardinality(HoldingSlot)'
      /\ Cardinality(HoldingSlot)' <= Cardinality(HoldingSlot)
      /\ Cardinality(Remaining)' = Cardinality(Remaining) - 1
      /\ UNCHANGED Accepted
  <2>1. /\ Cardinality(HoldingSlot)' = Cardinality(HoldingSlot) - Unit(active[c] = "http")
        /\ Cardinality(Remaining)' = Cardinality(Remaining) - 1
        /\ UNCHANGED Accepted
    <3>1. /\ Cardinality(HoldingSlot)' = Cardinality(HoldingSlot)
                + Unit("none" = "http") - Unit(active[c] = "http")
          /\ Cardinality(Remaining)' = Cardinality(Remaining)
                + Unit("none" # "none") - Unit(active[c] # "none")
          /\ UNCHANGED Accepted
      BY <1>1, <1>4, Recount
    <3> QED BY <1>3, <3>1, CountedFinite DEF Unit
  <2>2. http' = http - Unit(active[c] = "http")
    BY <1>1 DEF RemoveWorker, Unit, TypeOK
  <2> QED BY <1>1, <2>1, <2>2, CountedFinite DEF Unit
<1>7. \/ completed' = completed + 1 /\ failed' = failed
      \/ completed' = completed /\ failed' = failed + 1
  BY <1>1 DEF Tally
<1>8. TypeOK'
  <2>1. http' \in Nat
    BY <1>6, CountedFinite
  <2>2. completed' \in Nat /\ failed' \in Nat
    BY <1>1, <1>7 DEF TypeOK
  <2> QED BY <1>1, <1>2, <1>5, <2>1, <2>2 DEF TypeOK, Letters
<1>9. ActiveAccounted'
  BY <1>1, <1>2, <1>3, <1>5, LettersDiffer DEF Core, ActiveAccounted, Running
<1>10. SlotsCounted'
  BY <1>1, <1>3, <1>5, <1>6, CountedFinite, HttpServerAssumption
  DEF Core, SlotsCounted, Running
<1>11. ReportedOnce'
  <2>1. ASSUME NEW j \in DOMAIN box'
        PROVE  /\ box'[j].tag = "handler_upgraded" =>
                    worker[box'[j].from] \in {"websocket", "ended", "killed"}
               /\ box'[j].tag = "handler_done" =>
                    worker[box'[j].from] = "ended" /\ active'[box'[j].from] # "none"
    BY <1>1, <1>2, <1>5, FromWhom DEF Core, ReportedOnce
  <2> QED BY <1>1, <2>1, TakenReportedOnce DEF Core, ReportedOnce
<1>12. BacklogWaits'
  BY <1>1, <1>5, <1>6 DEF Core, BacklogWaits, Remaining
<1>13. AllCounted'
  <2>1. /\ completed + failed + Cardinality(Remaining) = Cardinality(Accepted) + errors
        /\ completed \in Nat /\ failed \in Nat /\ errors \in Nat /\ errors' = errors
    BY <1>1 DEF Core, AllCounted, TypeOK
  <2>2. /\ Cardinality(Remaining) \in Nat /\ Cardinality(Accepted) \in Nat
        /\ Cardinality(Remaining)' = Cardinality(Remaining) - 1
        /\ Cardinality(Accepted)' = Cardinality(Accepted)
    BY <1>6, CountedFinite
  <2>3. CASE completed' = completed + 1 /\ failed' = failed
    BY <2>1, <2>2, <2>3 DEF AllCounted
  <2>4. CASE completed' = completed /\ failed' = failed + 1
    BY <2>1, <2>2, <2>4 DEF AllCounted
  <2> QED BY <1>7, <2>3, <2>4
<1> QED BY <1>1, <1>8, <1>9, <1>10, <1>11, <1>12, <1>13, Unreported DEF Core

\* The owner takes a stop and closes the listener.
LEMMA TakeStopKeeps ==
  ASSUME Core, NEW x \in Callers, TakeStop(x)
  PROVE  Core'
<1>1. /\ owner = "loop" /\ Takes(StopCall(x)) /\ owner' = "shutdown" /\ stopFrom' = {x}
      /\ backlog' = <<>>
      /\ UNCHANGED <<ownerVars, doomed, call, reply, errors>>
      /\ TypeOK
  BY DEF TakeStop, Core
<1>2. /\ box' \in Seq(Letters)
      /\ \A n : n # StopCall(x) /\ Sent(n) => Sent(n)'
      /\ \A j \in DOMAIN box' : \E k \in DOMAIN box : box'[j] = box[k]
  BY <1>1, TakenKeeps
<1>3. \A c \in Conns : worker'[c] = IF worker[c] = "backlog" THEN "refused" ELSE worker[c]
  BY DEF TakeStop
<1>4. TypeOK'
  BY <1>1, <1>2 DEF TypeOK, Letters, TakeStop, ownerVars
<1>5. UNCHANGED <<Accepted, Remaining, HoldingSlot>>
  BY <1>1, <1>3 DEF Accepted, Remaining, HoldingSlot, ownerVars
<1>6. ActiveAccounted'
  BY <1>1, <1>2, <1>3, LettersDiffer DEF Core, ActiveAccounted, Running, ownerVars
<1>7. SlotsCounted'
  BY <1>1, <1>3, <1>5 DEF Core, SlotsCounted, Running, ownerVars
<1>8. ReportedOnce'
  <2>1. ASSUME NEW j \in DOMAIN box'
        PROVE  /\ box'[j].tag = "handler_upgraded" =>
                    worker'[box'[j].from] \in {"websocket", "ended", "killed"}
               /\ box'[j].tag = "handler_done" =>
                    worker'[box'[j].from] = "ended" /\ active[box'[j].from] # "none"
    BY <1>1, <1>2, <1>3, FromWhom DEF Core, ReportedOnce
  <2> QED BY <1>1, <2>1, TakenReportedOnce DEF Core, ReportedOnce, ownerVars
<1>9. BacklogWaits' /\ AllCounted'
  BY <1>1, <1>5 DEF Core, BacklogWaits, AllCounted, ownerVars
<1> QED BY <1>1, <1>4, <1>6, <1>7, <1>8, <1>9, Unreported DEF Core

\* The owner goes to accept, or comes back with nothing, or with an error.
LEMMA TurnsKeep ==
  ASSUME Core, StartAccept \/ AcceptTimesOut \/ AcceptFails
  PROVE  Core'
<1>1. /\ owner \in {"loop", "accept"} /\ owner' \in {"loop", "accept"}
      /\ owner' = "accept" => http < MaximumHandlers
      /\ UNCHANGED <<box, active, http, completed, stopFrom, backlog, worker, doomed, call,
                     reply>>
      /\ \/ UNCHANGED <<failed, errors>>
         \/ failed' = failed + 1 /\ errors' = errors + 1 /\ errors < MaxErrors
  BY HttpServerAssumption
  DEF Core, TypeOK, StartAccept, AcceptTimesOut, AcceptFails, ownerVars
<1>2. TypeOK'
  BY <1>1, HttpServerAssumption DEF Core, TypeOK
<1>3. UNCHANGED <<Accepted, Remaining, HoldingSlot>>
  BY <1>1 DEF Accepted, Remaining, HoldingSlot
<1>4. ActiveAccounted'
  BY <1>1 DEF Core, ActiveAccounted, Running, Sent
<1>5. SlotsCounted'
  BY <1>1, <1>3 DEF Core, SlotsCounted, Running
<1>6. AllCounted'
  <2>1. /\ completed + failed + Cardinality(Remaining) = Cardinality(Accepted) + errors
        /\ completed \in Nat /\ failed \in Nat /\ errors \in Nat
        /\ completed' = completed
    BY <1>1 DEF Core, AllCounted, TypeOK
  <2>2. /\ Cardinality(Remaining) \in Nat /\ Cardinality(Accepted) \in Nat
        /\ Cardinality(Remaining)' = Cardinality(Remaining)
        /\ Cardinality(Accepted)' = Cardinality(Accepted)
    BY <1>3, CountedFinite
  <2>3. CASE UNCHANGED <<failed, errors>>
    BY <2>1, <2>2, <2>3 DEF AllCounted
  <2>4. CASE failed' = failed + 1 /\ errors' = errors + 1
    BY <2>1, <2>2, <2>4 DEF AllCounted
  <2> QED BY <1>1, <2>3, <2>4
<1> QED BY <1>1, <1>2, <1>4, <1>5, <1>6, Frames, Unreported DEF Core

\* A connection is accepted, whatever becomes of the socket: it takes a slot
\* there was, and leaves the backlog.
LEMMA AdmitKeeps ==
  ASSUME Core, NEW c \in Conns, NEW v \in {"http", "ended"},
         Admit(c), worker' = [worker EXCEPT ![c] = v]
  PROVE  /\ owner = "accept" /\ owner' = "loop"
         /\ UNCHANGED <<completed, failed, stopFrom, doomed, call, reply, errors>>
         /\ worker[c] = "backlog" /\ active[c] = "none"
         /\ \A d \in Conns : /\ worker'[d] = IF d = c THEN v ELSE worker[d]
                             /\ active'[d] = IF d = c THEN "http" ELSE active[d]
         /\ box' \in Seq(Letters) => TypeOK'
         /\ SlotsCounted' /\ BacklogWaits' /\ AllCounted' /\ ReportTrue'
<1>1. /\ owner = "accept" /\ backlog # <<>> /\ c = Head(backlog) /\ backlog' = Tail(backlog)
      /\ active' = [active EXCEPT ![c] = "http"] /\ http' = http + 1 /\ owner' = "loop"
      /\ UNCHANGED <<completed, failed, stopFrom, doomed, call, reply, errors>>
      /\ TypeOK /\ backlog \in Seq(Conns)
      /\ http = Cardinality(HoldingSlot) /\ http < MaximumHandlers
  BY DEF Admit, Core, SlotsCounted, TypeOK
<1>2. /\ backlog' \in Seq(Conns) /\ Without(backlog, backlog', 1)
      /\ 1 \in DOMAIN backlog /\ backlog[1] = c
  BY <1>1, TailIsWithout
<1>3. worker[c] = "backlog" /\ active[c] = "none"
  BY <1>2 DEF Core, BacklogWaits, Remaining, Accepted
<1>4. /\ worker' \in [Conns -> {"away", "backlog", "refused", "http", "websocket", "ended",
                                "killed"}]
      /\ active' \in [Conns -> {"none", "http", "websocket"}]
      /\ \A d \in Conns : /\ worker'[d] = IF d = c THEN v ELSE worker[d]
                          /\ active'[d] = IF d = c THEN "http" ELSE active[d]
  BY <1>1 DEF TypeOK
<1>5. /\ Cardinality(HoldingSlot)' = Cardinality(HoldingSlot) + 1
      /\ Cardinality(Remaining)' = Cardinality(Remaining) + 1
  <2>1. /\ Cardinality(HoldingSlot)' = Cardinality(HoldingSlot)
             + Unit("http" = "http") - Unit(active[c] = "http")
        /\ Cardinality(Remaining)' = Cardinality(Remaining)
             + Unit("http" # "none") - Unit(active[c] # "none")
    BY <1>1, Recount
  <2> QED BY <1>3, <2>1, CountedFinite DEF Unit
<1>6. Cardinality(Accepted)' = Cardinality(Accepted) + 1
  <2>1. Cardinality(Accepted)' = Cardinality(Accepted)
             + Unit(v \notin {"away", "backlog", "refused"})
             - Unit(worker[c] \notin {"away", "backlog", "refused"})
    BY <1>1, Recount
  <2> QED BY <1>3, <2>1, CountedFinite DEF Unit
<1>7. SlotsCounted'
  BY <1>1, <1>4, <1>5, CountedFinite, HttpServerAssumption DEF Core, SlotsCounted, Running
<1>8. BacklogWaits'
  <2>1. /\ \A j \in DOMAIN backlog' : \E k \in DOMAIN backlog \ {1} : backlog'[j] = backlog[k]
        /\ \A j, k \in DOMAIN backlog' : j # k =>
             \E l, n \in DOMAIN backlog \ {1} :
               l # n /\ backlog'[j] = backlog[l] /\ backlog'[k] = backlog[n]
    <3>1. /\ backlog \in Seq(Conns) /\ backlog' \in Seq(Conns)
          /\ 1 \in DOMAIN backlog /\ Without(backlog, backlog', 1)
      BY <1>1, <1>2
    <3> QED BY <3>1, WithoutOccurs
  <2>2. \A k, l \in DOMAIN backlog : backlog[k] = backlog[l] => k = l
    BY DEF Core, BacklogWaits
  <2>3. \A k \in DOMAIN backlog : worker[backlog[k]] = "backlog" /\ backlog[k] \in Conns
    BY <1>1, LenProperties, ElementOfSeq DEF Core, BacklogWaits
  <2>4. \A j \in DOMAIN backlog' : worker'[backlog'[j]] = "backlog"
    BY <1>2, <1>4, <2>1, <2>2, <2>3
  <2>5. \A j, k \in DOMAIN backlog' : backlog'[j] = backlog'[k] => j = k
    BY <2>1, <2>2
  <2>6. (Remaining \subseteq Accepted)'
    BY <1>3, <1>4 DEF Core, BacklogWaits, Remaining, Accepted
  <2> QED BY <2>4, <2>5, <2>6 DEF BacklogWaits
<1>9. AllCounted'
  <2>1. /\ completed + failed + Cardinality(Remaining) = Cardinality(Accepted) + errors
        /\ completed \in Nat /\ failed \in Nat /\ errors \in Nat
        /\ UNCHANGED <<completed, failed, errors>>
    BY <1>1 DEF Core, AllCounted, TypeOK
  <2>2. Cardinality(Remaining) \in Nat /\ Cardinality(Accepted) \in Nat
    BY CountedFinite
  <2> QED BY <1>5, <1>6, <2>1, <2>2 DEF AllCounted
<1>10. ReportTrue'
  BY <1>1, Unreported
<1>11. box' \in Seq(Letters) => TypeOK'
  BY <1>1, <1>2, <1>4 DEF TypeOK, Letters
<1> QED BY <1>1, <1>3, <1>4, <1>7, <1>8, <1>9, <1>10, <1>11

\* The worker of an accepted connection runs, and is in the map.
LEMMA AcceptKeeps ==
  ASSUME Core, NEW c \in Conns, Accept(c)
  PROVE  Core'
<1>1. Admit(c) /\ worker' = [worker EXCEPT ![c] = "http"] /\ box' = box
  BY DEF Accept
<1>2. /\ owner = "accept" /\ owner' = "loop" /\ worker[c] = "backlog"
      /\ \A d \in Conns : /\ worker'[d] = IF d = c THEN "http" ELSE worker[d]
                          /\ active'[d] = IF d = c THEN "http" ELSE active[d]
      /\ box' \in Seq(Letters) => TypeOK'
      /\ SlotsCounted' /\ BacklogWaits' /\ AllCounted' /\ ReportTrue'
  BY <1>1, AdmitKeeps
<1>3. TypeOK'
  BY <1>1, <1>2 DEF Core, TypeOK, Letters
<1>4. ActiveAccounted'
  BY <1>1, <1>2 DEF Core, ActiveAccounted, Running, Sent
<1>5. ReportedOnce'
  <2>1. ASSUME NEW j \in DOMAIN box
        PROVE  /\ box[j].tag = "handler_upgraded" =>
                    worker'[box[j].from] \in {"websocket", "ended", "killed"}
               /\ box[j].tag = "handler_done" =>
                    worker'[box[j].from] = "ended" /\ active'[box[j].from] # "none"
    BY <1>2, FromWhom DEF Core, ReportedOnce
  <2> QED BY <1>1, <2>1 DEF Core, ReportedOnce
<1> QED BY <1>2, <1>3, <1>4, <1>5 DEF Core

\* A worker that never got its socket is in the map until the owner takes the
\* report it sent to itself.
LEMMA HandOverFailsKeeps ==
  ASSUME Core, NEW c \in Conns, HandOverFails(c)
  PROVE  Core'
<1>1. /\ Admit(c) /\ worker' = [worker EXCEPT ![c] = "ended"]
      /\ box' = Append(box, Done(c, "error")) /\ TypeOK
      /\ Done(c, "error") \in Letters /\ "error" \in Results
  BY DEF HandOverFails, Core, Letters, Results
<1>2. /\ owner = "accept" /\ owner' = "loop" /\ worker[c] = "backlog"
      /\ \A d \in Conns : /\ worker'[d] = IF d = c THEN "ended" ELSE worker[d]
                          /\ active'[d] = IF d = c THEN "http" ELSE active[d]
      /\ box' \in Seq(Letters) => TypeOK'
      /\ SlotsCounted' /\ BacklogWaits' /\ AllCounted' /\ ReportTrue'
  BY <1>1, AdmitKeeps
<1>3. /\ box' \in Seq(Letters)
      /\ \A n : Sent(n)' <=> Sent(n) \/ n = Done(c, "error")
      /\ \A j \in DOMAIN box' :
           box'[j] = Done(c, "error") \/ \E k \in DOMAIN box : box'[j] = box[k]
  BY <1>1, SentKeeps
<1>4. ActiveAccounted'
  BY <1>1, <1>2, <1>3 DEF Core, ActiveAccounted, Running
<1>5. ReportedOnce'
  <2>1. ASSUME NEW j \in DOMAIN box'
        PROVE  /\ box'[j].tag = "handler_upgraded" =>
                    worker'[box'[j].from] \in {"websocket", "ended", "killed"}
               /\ box'[j].tag = "handler_done" =>
                    worker'[box'[j].from] = "ended" /\ active'[box'[j].from] # "none"
    <3>1. CASE box'[j] = Done(c, "error")
      BY <1>2, <3>1 DEF Done
    <3>2. CASE \E k \in DOMAIN box : box'[j] = box[k]
      BY <1>2, <3>2, FromWhom DEF Core, ReportedOnce
    <3> QED BY <1>3, <3>1, <3>2
  <2>2. \A k \in DOMAIN box : box[k].tag = "handler_done" => box[k].from # Done(c, "error").from
    BY <1>2 DEF Core, ReportedOnce, Done
  <2>3. \A i, j \in DOMAIN box' :
          box'[i].tag = "handler_done" /\ box'[j].tag = "handler_done"
            /\ box'[i].from = box'[j].from => i = j
    BY <1>1, <2>2, SentKeeps DEF Core
  <2> QED BY <2>1, <2>3 DEF ReportedOnce
<1> QED BY <1>2, <1>3, <1>4, <1>5 DEF Core

\* The report is what the owner knows: nobody runs whom it does not have.
LEMMA FinishKeeps ==
  ASSUME Core, AllGone \/ GraceOver
  PROVE  Core'
<1>1. /\ owner = "shutdown" /\ owner' = "replied"
      /\ UNCHANGED <<box, ownerVars, stopFrom, backlog, worker, call, errors>>
      /\ TypeOK
      /\ \A x \in Callers : reply[x] = NoReport /\ call[x] # "report"
      /\ doomed' \in SUBSET Conns /\ (Remaining = {} \/ doomed' = Remaining)
  BY Unreported DEF AllGone, GraceOver, Finish, Core, TypeOK, Remaining
<1>2. \A x \in Callers :
        reply'[x] = IF x \in stopFrom
                    THEN [completed |-> completed, failed |-> failed,
                          forced |-> Cardinality(Remaining)]
                    ELSE reply[x]
  <2>1. CASE AllGone
    BY <2>1, FS_EmptySet DEF AllGone, Finish
  <2>2. CASE GraceOver
    BY <2>2 DEF GraceOver, Finish
  <2> QED BY <2>1, <2>2
<1>3. reply' \in [Callers -> [completed : Int, failed : Int, forced : Int]]
  <2>1. /\ completed \in Int /\ failed \in Int /\ Cardinality(Remaining) \in Int
        /\ \A x \in Callers : reply[x] \in [completed : Int, failed : Int, forced : Int]
    BY <1>1, CountedFinite DEF TypeOK
  <2>2. \A x \in Callers : reply'[x] \in [completed : Int, failed : Int, forced : Int]
    BY <1>2, <2>1
  <2>3. reply' = [x \in Callers |-> reply'[x]]
    BY DEF AllGone, GraceOver, Finish
  <2> QED BY <2>2, <2>3
<1>4. TypeOK'
  BY <1>1, <1>3 DEF TypeOK, ownerVars
<1>5. ActiveAccounted' /\ SlotsCounted'
  BY <1>1 DEF Core, ActiveAccounted, SlotsCounted, HoldingSlot, Running, ownerVars
<1>6. ReportTrue'
  <2>1. UNCHANGED Remaining
    BY <1>1 DEF Remaining, ownerVars
  <2>2. ASSUME NEW x \in Callers, reply'[x] # NoReport
        PROVE  reply'[x] = [completed |-> completed, failed |-> failed,
                            forced |-> Cardinality(Remaining)]
    BY <1>1, <1>2, <2>2
  <2>3. ASSUME NEW c \in Conns, Running(c)
        PROVE  c \in doomed'
    BY <1>1, <2>3 DEF Core, SlotsCounted, Remaining
  <2> QED BY <1>1, <2>1, <2>2, <2>3 DEF ReportTrue, Running, ownerVars
<1> QED BY <1>1, <1>4, <1>5, <1>6, Frames DEF Core, ownerVars

\* During the shutdown an upgrade is taken and means nothing.
LEMMA DrainUpgradedKeeps ==
  ASSUME Core, NEW c \in Conns, DrainUpgraded(c)
  PROVE  Core'
<1>1. /\ owner = "shutdown" /\ TakesFirst(Upgraded(c))
      /\ UNCHANGED <<owner, ownerVars, stopFrom, backlog, worker, doomed, call, reply, errors>>
      /\ TypeOK
  BY DEF DrainUpgraded, Core
<1>2. /\ box' \in Seq(Letters)
      /\ \A n : n # Upgraded(c) /\ Sent(n) => Sent(n)'
      /\ \A j \in DOMAIN box' : \E k \in DOMAIN box : box'[j] = box[k]
  BY <1>1, TakenKeeps
<1>3. TypeOK'
  BY <1>1, <1>2 DEF TypeOK, Letters, ownerVars
<1>4. ActiveAccounted'
  BY <1>1, <1>2, LettersDiffer DEF Core, ActiveAccounted, Running, ownerVars
<1>5. ReportedOnce'
  <2>1. ASSUME NEW j \in DOMAIN box'
        PROVE  /\ box'[j].tag = "handler_upgraded" =>
                    worker[box'[j].from] \in {"websocket", "ended", "killed"}
               /\ box'[j].tag = "handler_done" =>
                    worker[box'[j].from] = "ended" /\ active[box'[j].from] # "none"
    BY <1>1, <1>2, FromWhom DEF Core, ReportedOnce
  <2> QED BY <1>1, <2>1, TakenReportedOnce DEF Core, ReportedOnce, ownerVars
<1> QED BY <1>1, <1>3, <1>4, <1>5, Frames DEF Core, ownerVars

\* During the shutdown the end of a worker is counted as ever.
LEMMA DrainDoneKeeps ==
  ASSUME Core, NEW c \in Conns, NEW r \in Results, DrainDone(c, r)
  PROVE  Core'
<1>1. /\ owner = "shutdown" /\ TakesFirst(Done(c, r)) /\ Tally(r)
      /\ active' = [active EXCEPT ![c] = "none"]
      /\ UNCHANGED <<owner, http, stopFrom, backlog, worker, doomed, call, reply, errors>>
      /\ TypeOK
  BY DEF DrainDone, Core
<1>2. /\ box' \in Seq(Letters) /\ Sent(Done(c, r))
      /\ \A n : n # Done(c, r) /\ Sent(n) => Sent(n)'
      /\ \A j \in DOMAIN box' : \E k \in DOMAIN box : box'[j] = box[k]
      /\ \A j \in DOMAIN box' : box'[j].tag = "handler_done" => box'[j].from # c
  BY <1>1, TakenKeeps, TakenReportedOnce DEF Core, Done
<1>3. worker[c] = "ended" /\ active[c] # "none"
  BY <1>2 DEF Core, ReportedOnce, Sent, Done
<1>4. /\ active' \in [Conns -> {"none", "http", "websocket"}]
      /\ \A d \in Conns : active'[d] = IF d = c THEN "none" ELSE active[d]
  BY <1>1 DEF TypeOK
<1>5. /\ Cardinality(HoldingSlot)' <= Cardinality(HoldingSlot)
      /\ Cardinality(Remaining)' = Cardinality(Remaining) - 1
      /\ UNCHANGED Accepted
  <2>1. /\ Cardinality(HoldingSlot)' = Cardinality(HoldingSlot)
              + Unit("none" = "http") - Unit(active[c] = "http")
        /\ Cardinality(Remaining)' = Cardinality(Remaining)
              + Unit("none" # "none") - Unit(active[c] # "none")
        /\ UNCHANGED Accepted
    BY <1>1, Recount
  <2> QED BY <1>3, <2>1, CountedFinite DEF Unit
<1>6. \/ completed' = completed + 1 /\ failed' = failed
      \/ completed' = completed /\ failed' = failed + 1
  BY <1>1 DEF Tally
<1>7. TypeOK'
  BY <1>1, <1>2, <1>4, <1>6 DEF TypeOK, Letters
<1>8. ActiveAccounted'
  BY <1>1, <1>2, <1>3, <1>4, LettersDiffer DEF Core, ActiveAccounted, Running
<1>9. SlotsCounted'
  BY <1>1, <1>3, <1>4, <1>5, CountedFinite, HttpServerAssumption
  DEF Core, SlotsCounted, Running
<1>10. ReportedOnce'
  <2>1. ASSUME NEW j \in DOMAIN box'
        PROVE  /\ box'[j].tag = "handler_upgraded" =>
                    worker[box'[j].from] \in {"websocket", "ended", "killed"}
               /\ box'[j].tag = "handler_done" =>
                    worker[box'[j].from] = "ended" /\ active'[box'[j].from] # "none"
    BY <1>1, <1>2, <1>4, FromWhom DEF Core, ReportedOnce
  <2> QED BY <1>1, <2>1, TakenReportedOnce DEF Core, ReportedOnce
<1>11. BacklogWaits'
  BY <1>1, <1>4, <1>5 DEF Core, BacklogWaits, Remaining
<1>12. AllCounted'
  <2>1. /\ completed + failed + Cardinality(Remaining) = Cardinality(Accepted) + errors
        /\ completed \in Nat /\ failed \in Nat /\ errors \in Nat /\ errors' = errors
    BY <1>1 DEF Core, AllCounted, TypeOK
  <2>2. /\ Cardinality(Remaining) \in Nat /\ Cardinality(Accepted) \in Nat
        /\ Cardinality(Remaining)' = Cardinality(Remaining) - 1
        /\ Cardinality(Accepted)' = Cardinality(Accepted)
    BY <1>5, CountedFinite
  <2>3. CASE completed' = completed + 1 /\ failed' = failed
    BY <2>1, <2>2, <2>3 DEF AllCounted
  <2>4. CASE completed' = completed /\ failed' = failed + 1
    BY <2>1, <2>2, <2>4 DEF AllCounted
  <2> QED BY <1>6, <2>3, <2>4
<1> QED BY <1>1, <1>7, <1>8, <1>9, <1>10, <1>11, <1>12, Unreported DEF Core

\* The owner is gone, of itself or killed: the report was given.
LEMMA OwnerEndsKeeps ==
  ASSUME Core, OwnerExits \/ \E x \in Callers : KillOwner(x)
  PROVE  Core'
<1>1. /\ owner = "replied" /\ owner' = "gone"
      /\ UNCHANGED <<box, ownerVars, stopFrom, backlog, worker, doomed, call, reply, errors>>
      /\ TypeOK
  BY DEF OwnerExits, KillOwner, Core
<1>2. TypeOK'
  BY <1>1 DEF TypeOK, ownerVars
<1>3. ActiveAccounted' /\ SlotsCounted'
  BY <1>1 DEF Core, ActiveAccounted, SlotsCounted, HoldingSlot, Running, ownerVars
<1>4. ReportTrue'
  BY <1>1 DEF Core, ReportTrue, Running, Remaining, ownerVars
<1> QED BY <1>1, <1>2, <1>3, <1>4, Frames DEF Core, ownerVars

\* A caller goes on, or calls: only the owner's end lets it return a report.
LEMMA CallersKeep ==
  ASSUME Core, NEW x \in Callers, Stop(x) \/ Caller(x) \/ CallerTimesOut(x)
  PROVE  Core'
<1>1. /\ UNCHANGED <<owner, ownerVars, stopFrom, backlog, worker, doomed, reply, errors>>
      /\ TypeOK
      /\ box' = box \/ box' = Append(box, StopCall(x))
      /\ call' \in [Callers -> {"idle", "waiting", "exiting", "report", "zeros", "timeout"}]
      /\ \A y \in Callers : call'[y] = "report" => call[y] = "report" \/ owner = "gone"
  <2>1. TypeOK
    BY DEF Core
  <2>2. CASE Stop(x)
    <3>1. \E v \in {"zeros", "waiting"} : call' = [call EXCEPT ![x] = v]
      BY <2>2 DEF Stop
    <3> QED BY <2>1, <2>2, <3>1 DEF TypeOK, Stop
  <2>3. CASE Caller(x) \/ CallerTimesOut(x)
    <3>1. \/ Turns(x, "exiting") \/ Turns(x, "zeros") \/ Turns(x, "timeout")
          \/ Turns(x, "report") /\ owner = "gone"
      BY <2>3 DEF Caller, CallerTimesOut, ReportArrives, OwnerDown, ExitSeen
    <3>2. /\ UNCHANGED <<owner, box, ownerVars, stopFrom, backlog, worker, doomed, reply,
                         errors>>
          /\ \E v \in {"exiting", "zeros", "timeout", "report"} :
               call' = [call EXCEPT ![x] = v] /\ (v = "report" => owner = "gone")
      BY <3>1 DEF Turns
    <3> QED BY <2>1, <3>2 DEF TypeOK
  <2> QED BY <2>2, <2>3
<1>2. CASE box' = box
  <2>1. TypeOK'
    BY <1>1, <1>2 DEF TypeOK, ownerVars
  <2>2. ReportTrue'
    BY <1>1 DEF Core, ReportTrue, Running, Remaining, ownerVars
  <2> QED BY <1>1, <1>2, <2>1, <2>2, Frames DEF Core, ownerVars
<1>3. CASE box' = Append(box, StopCall(x))
  <2>1. StopCall(x) \in Letters /\ StopCall(x).tag = "stop"
    BY DEF Letters, StopCall
  <2>2. /\ box' \in Seq(Letters)
        /\ \A n : Sent(n)' <=> Sent(n) \/ n = StopCall(x)
        /\ \A j \in DOMAIN box' :
             box'[j] = StopCall(x) \/ \E k \in DOMAIN box : box'[j] = box[k]
        /\ \A i, j \in DOMAIN box' :
             box'[i].tag = "handler_done" /\ box'[j].tag = "handler_done"
               /\ box'[i].from = box'[j].from => i = j
    BY <1>1, <1>3, <2>1, SentKeeps DEF Core
  <2>3. TypeOK'
    BY <1>1, <2>2 DEF TypeOK, Letters, ownerVars
  <2>4. ActiveAccounted'
    BY <1>1, <2>2 DEF Core, ActiveAccounted, Running, ownerVars
  <2>5. ReportedOnce'
    BY <1>1, <2>1, <2>2 DEF Core, ReportedOnce, ownerVars
  <2>6. ReportTrue'
    BY <1>1 DEF Core, ReportTrue, Running, Remaining, ownerVars
  <2> QED BY <1>1, <2>3, <2>4, <2>5, <2>6, Frames DEF Core, ownerVars
<1> QED BY <1>1, <1>2, <1>3

\* A connection waits in the backlog, or is refused by a closed listener.
LEMMA ConnectKeeps ==
  ASSUME Core, NEW c \in Conns, Connect(c)
  PROVE  Core'
<1>1. /\ worker[c] = "away" /\ TypeOK
      /\ UNCHANGED <<owner, box, ownerVars, stopFrom, doomed, call, reply, errors>>
  BY DEF Connect, Core
<1>2. /\ active[c] = "none"
      /\ \A j \in DOMAIN box : box[j].tag \in {"handler_upgraded", "handler_done"} =>
           box[j].from # c
      /\ \A i \in DOMAIN backlog : backlog[i] # c
  BY <1>1 DEF Core, BacklogWaits, Remaining, Accepted, ReportedOnce
<1>3. \/ worker' = [worker EXCEPT ![c] = "backlog"] /\ backlog' = Append(backlog, c)
      \/ worker' = [worker EXCEPT ![c] = "refused"] /\ backlog' = backlog
  BY DEF Connect
<1>4. PICK v \in {"backlog", "refused"} : worker' = [worker EXCEPT ![c] = v]
  BY <1>3
<1>5. \A d \in Conns : worker'[d] = IF d = c THEN v ELSE worker[d]
  BY <1>1, <1>4 DEF TypeOK
<1>6. UNCHANGED <<Accepted, Remaining, HoldingSlot>>
  BY <1>1, <1>5 DEF Accepted, Remaining, HoldingSlot, ownerVars
<1>7. backlog \in Seq(Conns)
  BY <1>1 DEF TypeOK
<1>8. TypeOK'
  <2>1. backlog' \in Seq(Conns)
    BY <1>3, <1>7, AppendKeeps
  <2>2. worker' \in [Conns -> {"away", "backlog", "refused", "http", "websocket", "ended",
                               "killed"}]
    BY <1>1, <1>4 DEF TypeOK
  <2> QED BY <1>1, <2>1, <2>2 DEF TypeOK, ownerVars
<1>9. ActiveAccounted' /\ SlotsCounted'
  BY <1>1, <1>2, <1>5, <1>6 DEF Core, ActiveAccounted, SlotsCounted, Running, Sent, ownerVars
<1>10. ReportedOnce'
  <2>1. ASSUME NEW j \in DOMAIN box
        PROVE  /\ box[j].tag = "handler_upgraded" =>
                    worker'[box[j].from] \in {"websocket", "ended", "killed"}
               /\ box[j].tag = "handler_done" =>
                    worker'[box[j].from] = "ended" /\ active[box[j].from] # "none"
    BY <1>1, <1>2, <1>5, FromWhom DEF Core, ReportedOnce
  <2> QED BY <1>1, <2>1 DEF Core, ReportedOnce, ownerVars
<1>11. BacklogWaits'
  <2>1. \A i \in DOMAIN backlog : backlog[i] \in Conns
    BY <1>7, LenProperties, ElementOfSeq
  <2>2. CASE backlog' = backlog
    BY <1>2, <1>5, <1>6, <2>1, <2>2 DEF Core, BacklogWaits
  <2>3. CASE worker' = [worker EXCEPT ![c] = "backlog"] /\ backlog' = Append(backlog, c)
    <3>1. /\ DOMAIN backlog' = DOMAIN backlog \cup {Len(backlog) + 1}
          /\ \A j \in DOMAIN backlog : backlog'[j] = backlog[j]
          /\ backlog'[Len(backlog) + 1] = c
      BY <1>7, <2>3, AppendKeeps
    <3>2. worker'[c] = "backlog"
      BY <1>1, <2>3 DEF TypeOK
    <3> QED BY <1>2, <1>5, <1>6, <2>1, <3>1, <3>2 DEF Core, BacklogWaits
  <2> QED BY <1>3, <2>2, <2>3
<1>12. AllCounted'
  BY <1>1, <1>6 DEF Core, AllCounted, ownerVars
<1>13. ReportTrue'
  BY <1>1, <1>4, <1>5 DEF Core, ReportTrue, Running, Remaining, ownerVars
<1> QED BY <1>8, <1>9, <1>10, <1>11, <1>12, <1>13 DEF Core

\* A worker upgrades, ends or dies: it was accepted before, and stays so.
LEMMA WorkerMoves ==
  ASSUME Core, NEW c \in Conns, worker[c] \in {"http", "websocket"},
         NEW v \in {"websocket", "ended", "killed"}, worker' = [worker EXCEPT ![c] = v],
         v = "websocket" => worker[c] = "http",
         UNCHANGED <<owner, ownerVars, stopFrom, backlog, doomed, call, reply, errors>>
  PROVE  /\ \A d \in Conns : worker'[d] = IF d = c THEN v ELSE worker[d]
         /\ active[c] # "none"
         /\ \A k \in DOMAIN box : box[k].tag = "handler_done" => box[k].from # c
         /\ \A j \in DOMAIN box :
              /\ box[j].tag = "handler_upgraded" =>
                   worker'[box[j].from] \in {"websocket", "ended", "killed"}
              /\ box[j].tag = "handler_done" =>
                   worker'[box[j].from] = "ended" /\ active[box[j].from] # "none"
         /\ box' \in Seq(Letters) => TypeOK'
         /\ SlotsCounted' /\ BacklogWaits' /\ AllCounted' /\ ReportTrue'
<1>1. TypeOK /\ \A d \in Conns : worker'[d] = IF d = c THEN v ELSE worker[d]
  BY DEF Core, TypeOK
<1>2. UNCHANGED <<Accepted, Remaining, HoldingSlot>>
  BY <1>1 DEF Accepted, Remaining, HoldingSlot, ownerVars
<1>3. active[c] # "none"
  BY DEF Core, SlotsCounted, Running
<1>4. \A k \in DOMAIN box : box[k].tag = "handler_done" => box[k].from # c
  BY DEF Core, ReportedOnce
<1>5. ASSUME NEW j \in DOMAIN box
      PROVE  /\ box[j].tag = "handler_upgraded" =>
                  worker'[box[j].from] \in {"websocket", "ended", "killed"}
             /\ box[j].tag = "handler_done" =>
                  worker'[box[j].from] = "ended" /\ active[box[j].from] # "none"
  BY <1>1, <1>4, FromWhom DEF Core, ReportedOnce
<1>6. box' \in Seq(Letters) => TypeOK'
  BY <1>1 DEF TypeOK, Letters, ownerVars
<1>7. SlotsCounted'
  BY <1>1, <1>2 DEF Core, SlotsCounted, Running, ownerVars
<1>8. BacklogWaits'
  <2>1. \A i \in DOMAIN backlog : backlog[i] \in Conns /\ worker[backlog[i]] = "backlog"
    BY <1>1, LenProperties, ElementOfSeq DEF Core, TypeOK, BacklogWaits
  <2> QED BY <1>1, <1>2, <2>1 DEF Core, BacklogWaits
<1>9. AllCounted'
  BY <1>2 DEF Core, AllCounted, ownerVars
<1>10. ReportTrue'
  BY <1>1 DEF Core, ReportTrue, Running, Remaining, ownerVars
<1> QED BY <1>1, <1>3, <1>4, <1>5, <1>6, <1>7, <1>8, <1>9, <1>10

\* A worker tells the owner of its upgrade, and once of its end.
LEMMA WorkerKeeps ==
  ASSUME Core, NEW c \in Conns, Worker(c)
  PROVE  Core'
<1>1. PICK v \in {"websocket", "ended"}, m \in Letters :
        /\ worker[c] \in {"http", "websocket"}
        /\ worker' = [worker EXCEPT ![c] = v]
        /\ v = "websocket" => worker[c] = "http"
        /\ box' = Append(box, m) /\ m.from = c
        /\ \/ v = "websocket" /\ m = Upgraded(c)
           \/ v = "ended" /\ \E r \in Results : m = Done(c, r)
        /\ UNCHANGED <<owner, ownerVars, stopFrom, backlog, doomed, call, reply, errors>>
  <2>1. CASE Upgrade(c)
    <3>1. Upgraded(c) \in Letters /\ Upgraded(c).from = c
      BY DEF Letters, Upgraded
    <3> QED BY <2>1, <3>1 DEF Upgrade
  <2>2. ASSUME NEW r \in Results, WorkerDone(c, r)
        PROVE  \E m \in Letters :
                 /\ worker[c] \in {"http", "websocket"}
                 /\ worker' = [worker EXCEPT ![c] = "ended"]
                 /\ box' = Append(box, m) /\ m.from = c /\ m = Done(c, r)
                 /\ UNCHANGED <<owner, ownerVars, stopFrom, backlog, doomed, call, reply,
                                errors>>
    <3>1. Done(c, r) \in Letters /\ Done(c, r).from = c
      BY DEF Letters, Done
    <3> QED BY <2>2, <3>1 DEF WorkerDone
  <2> QED BY <2>1, <2>2 DEF Worker
<1>2. /\ \A d \in Conns : worker'[d] = IF d = c THEN v ELSE worker[d]
      /\ active[c] # "none"
      /\ \A k \in DOMAIN box : box[k].tag = "handler_done" => box[k].from # c
      /\ \A j \in DOMAIN box :
           /\ box[j].tag = "handler_upgraded" =>
                worker'[box[j].from] \in {"websocket", "ended", "killed"}
           /\ box[j].tag = "handler_done" =>
                worker'[box[j].from] = "ended" /\ active[box[j].from] # "none"
      /\ box' \in Seq(Letters) => TypeOK'
      /\ SlotsCounted' /\ BacklogWaits' /\ AllCounted' /\ ReportTrue'
  <2>1. /\ worker[c] \in {"http", "websocket"} /\ v \in {"websocket", "ended", "killed"}
        /\ worker' = [worker EXCEPT ![c] = v]
        /\ v = "websocket" => worker[c] = "http"
        /\ UNCHANGED <<owner, ownerVars, stopFrom, backlog, doomed, call, reply, errors>>
    BY <1>1
  <2> QED BY <2>1, WorkerMoves
<1>3. /\ box' \in Seq(Letters)
      /\ \A n : Sent(n)' <=> Sent(n) \/ n = m
      /\ \A j \in DOMAIN box' : box'[j] = m \/ \E k \in DOMAIN box : box'[j] = box[k]
      /\ \A i, j \in DOMAIN box' :
           box'[i].tag = "handler_done" /\ box'[j].tag = "handler_done"
             /\ box'[i].from = box'[j].from => i = j
  BY <1>1, <1>2, SentKeeps DEF Core
<1>4. ActiveAccounted'
  BY <1>1, <1>2, <1>3 DEF Core, ActiveAccounted, Running, ownerVars
<1>5. ReportedOnce'
  <2>1. ASSUME NEW j \in DOMAIN box'
        PROVE  /\ box'[j].tag = "handler_upgraded" =>
                    worker'[box'[j].from] \in {"websocket", "ended", "killed"}
               /\ box'[j].tag = "handler_done" =>
                    worker'[box'[j].from] = "ended" /\ active[box'[j].from] # "none"
    BY <1>1, <1>2, <1>3 DEF Upgraded, Done
  <2> QED BY <1>1, <1>3, <2>1 DEF ReportedOnce, ownerVars
<1> QED BY <1>2, <1>3, <1>4, <1>5 DEF Core

\* A worker that is killed says nothing.
LEMMA DieKeeps ==
  ASSUME Core, NEW c \in Conns, Die(c)
  PROVE  Core'
<1>1. /\ worker[c] \in {"http", "websocket"} /\ worker' = [worker EXCEPT ![c] = "killed"]
      /\ box' = box
      /\ UNCHANGED <<owner, ownerVars, stopFrom, backlog, doomed, call, reply, errors>>
  BY DEF Die
<1>2. /\ \A d \in Conns : worker'[d] = IF d = c THEN "killed" ELSE worker[d]
      /\ \A j \in DOMAIN box :
           /\ box[j].tag = "handler_upgraded" =>
                worker'[box[j].from] \in {"websocket", "ended", "killed"}
           /\ box[j].tag = "handler_done" =>
                worker'[box[j].from] = "ended" /\ active[box[j].from] # "none"
      /\ box' \in Seq(Letters) => TypeOK'
      /\ SlotsCounted' /\ BacklogWaits' /\ AllCounted' /\ ReportTrue'
  BY <1>1, WorkerMoves
<1>3. TypeOK'
  BY <1>1, <1>2 DEF Core, TypeOK, Letters
<1>4. ActiveAccounted'
  BY <1>1, <1>2 DEF Core, ActiveAccounted, Running, Sent, ownerVars
<1>5. ReportedOnce'
  BY <1>1, <1>2 DEF Core, ReportedOnce, ownerVars
<1> QED BY <1>2, <1>3, <1>4, <1>5 DEF Core

(***************************************************************************)
(* The theorems.                                                           *)
(***************************************************************************)

\* The server starts with nothing to count.
LEMMA InitCore == Init => Core
<1> SUFFICES ASSUME Init PROVE Core
  OBVIOUS
<1>1. Remaining = {} /\ HoldingSlot = {} /\ Accepted = {}
  BY DEF Init, Remaining, HoldingSlot, Accepted
<1>2. Cardinality(Remaining) = 0 /\ Cardinality(HoldingSlot) = 0 /\ Cardinality(Accepted) = 0
  BY <1>1, FS_EmptySet
<1>3. TypeOK
  <2>1. box \in Seq(Letters) /\ backlog \in Seq(Conns)
    BY DEF Init
  <2>2. NoReport \in [completed : Int, failed : Int, forced : Int]
    BY DEF NoReport
  <2> QED BY <2>1, <2>2, HttpServerAssumption DEF Init, TypeOK, Letters
<1>4. ActiveAccounted /\ ReportTrue
  BY DEF Init, ActiveAccounted, ReportTrue, Running
<1>5. SlotsCounted /\ AllCounted
  BY <1>2, HttpServerAssumption DEF Init, SlotsCounted, AllCounted, Running
<1>6. ReportedOnce /\ BacklogWaits
  BY <1>1 DEF Init, ReportedOnce, BacklogWaits
<1> QED BY <1>3, <1>4, <1>5, <1>6 DEF Core

\* No step disturbs it.
LEMMA NextCore == Core /\ [Next]_vars => Core'
<1> SUFFICES ASSUME Core, [Next]_vars PROVE Core'
  OBVIOUS
<1>1. CASE Owner
  BY <1>1, TakeUpgradedKeeps, AcceptKeeps, HandOverFailsKeeps, DrainUpgradedKeeps,
     TakeDoneKeeps, DrainDoneKeeps, TakeStopKeeps, TurnsKeep, FinishKeeps, OwnerEndsKeeps
  DEF Owner
<1>2. CASE AcceptFails
  BY <1>2, TurnsKeep
<1>3. ASSUME NEW c \in Conns, Connect(c) \/ Worker(c) \/ Killed(c) \/ ExitSignal(c)
      PROVE  Core'
  BY <1>3, ConnectKeeps, WorkerKeeps, DieKeeps DEF Killed, ExitSignal
<1>4. ASSUME NEW x \in Callers, Stop(x) \/ Caller(x) \/ CallerTimesOut(x) \/ KillOwner(x)
      PROVE  Core'
  BY <1>4, CallersKeep, OwnerEndsKeeps
<1>5. CASE UNCHANGED vars
  <2>1. /\ UNCHANGED <<owner, box, active, http, completed, failed, stopFrom, backlog>>
        /\ UNCHANGED <<worker, doomed, call, reply, errors>>
    BY <1>5 DEF vars, ownerVars
  <2>2. TypeOK'
    BY <2>1 DEF Core, TypeOK
  <2> QED BY <2>1, <2>2, Frames DEF Core
<1> QED BY <1>1, <1>2, <1>3, <1>4, <1>5 DEF Next

\* Core holds throughout.
LEMMA AlwaysCore == Spec => []Core
<1> QED BY InitCore, NextCore, PTL DEF Spec

\* The workers that serve HTTP are among those that hold a slot.
LEMMA CoreConsistent == Core => Consistent
<1> SUFFICES ASSUME Core PROVE Consistent
  OBVIOUS
<1>1. {c \in Conns : worker[c] = "http"} \subseteq HoldingSlot
  BY DEF Core, SlotsCounted, HoldingSlot
<1>2. /\ Cardinality({c \in Conns : worker[c] = "http"}) <= Cardinality(HoldingSlot)
      /\ Cardinality({c \in Conns : worker[c] = "http"}) \in Nat
      /\ Cardinality(HoldingSlot) \in Nat
  BY <1>1, CountedFinite, FS_Subset, FS_CardinalityType
<1>3. HandlersBounded
  BY <1>2, HttpServerAssumption DEF Core, SlotsCounted, HandlersBounded
<1> QED BY <1>3 DEF Core, Consistent

\* However upgrades, ends, kills, stops and accepts interleave: the limit of
\* handlers holds, and the owner's map, its counters and the messages under way
\* agree with the workers.
THEOREM AlwaysConsistent == Spec => []Consistent
<1> QED BY AlwaysCore, CoreConsistent, PTL

\* A report counts every accepted connection and every failed accept once, as
\* completed, failed or forced.
THEOREM ReportsAddUp == Spec => []ReportAddsUp
<1>1. Core => ReportAddsUp
  <2> SUFFICES ASSUME Core, NEW x \in Callers, reply[x] # NoReport
               PROVE  /\ reply[x].completed + reply[x].failed + reply[x].forced
                           = Cardinality(Accepted) + errors
                      /\ reply[x].forced = 0 => \A c \in Conns : ~Running(c)
    BY DEF ReportAddsUp
  <2>1. reply[x] = [completed |-> completed, failed |-> failed,
                    forced |-> Cardinality(Remaining)]
    BY DEF Core, ReportTrue
  <2>2. reply[x].completed + reply[x].failed + reply[x].forced
          = Cardinality(Accepted) + errors
    BY <2>1 DEF Core, AllCounted
  <2>3. Cardinality(Remaining) = 0 => Remaining = {}
    BY CountedFinite, FS_EmptySet
  <2>4. \A c \in Conns : Running(c) => c \in Remaining
    BY DEF Core, SlotsCounted, Remaining
  <2> QED BY <2>1, <2>2, <2>3, <2>4
<1> QED BY <1>1, AlwaysCore, PTL

\* A stop that returns a report leaves no server, and no worker but one whose
\* kill is on its way.
THEOREM StopsMeanStopped == Spec => []StopMeansStopped
<1>1. Core => StopMeansStopped
  BY DEF Core, ReportTrue, StopMeansStopped
<1> QED BY <1>1, AlwaysCore, PTL
=============================================================================
