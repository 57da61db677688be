--------------------------- MODULE ResolverProofs ---------------------------
(***************************************************************************)
(* Proofs about Resolver, for any packages, repositories, tags, offered    *)
(* dependencies, lists and faults, and at the end about Semver, for every  *)
(* version.                                                                *)
(*                                                                         *)
(* Inductive is the invariant: besides the types, a list pins a name once  *)
(* (OnePin), what was asked has a pin that meets it (AskedPinned), the     *)
(* combined requirement says only what somebody asked (WantedAsked), what  *)
(* is pinned has its needs pinned or queued, and what is pinned or queued  *)
(* is needed (NeedsPinned, PinnedNeeded). When the merge has put the lists *)
(* together nothing is queued any more, and Closed, OnePackage and         *)
(* RangesMet follow (EndsRight). TakeMeans, MergesEffect and their like    *)
(* say once what a step does; the lemmas named after the parts say that it *)
(* keeps them.                                                             *)
(***************************************************************************)
EXTENDS Resolver, SequenceTheorems, FiniteSetTheorems, WellFoundedInduction, TLAPS

---------------------------------------------------------------------------
(* Sequences. *)

\* What holds of 0, and of i + 1 whenever of i, holds of all numbers to n.
LEMMA Reaches ==
  ASSUME NEW n \in Nat, NEW T, 0 \in T, \A i \in 0 .. (n - 1) : i \in T => i + 1 \in T
  PROVE  \A i \in 0 .. n : i \in T
<1> SUFFICES ASSUME NEW k \in 0 .. n, k \notin T PROVE FALSE
  OBVIOUS
<1> DEFINE Below == {0 .. i : i \in {j \in 0 .. n : j \notin T}}
<1>1. Below \subseteq FiniteSubsetsOf(Nat) /\ Below # {}
  <2>1. \A i \in 0 .. n : IsFiniteSet(0 .. i) /\ 0 .. i \subseteq Nat
    BY FS_Interval
  <2>2. 0 .. k \in Below
    OBVIOUS
  <2> QED BY <2>1, <2>2 DEF FiniteSubsetsOf
<1>2. PICK s \in Below : \A t \in Below : <<t, s>> \notin StrictSubsetOrdering(Nat)
  <2> HIDE DEF Below
  <2> QED BY <1>1, FS_StrictSubsetOrderingWellFounded, WFMin
<1>3. PICK x \in 0 .. n : x \notin T /\ s = 0 .. x
  OBVIOUS
<1>4. x # 0 /\ x - 1 \in 0 .. (n - 1) /\ (x - 1) + 1 = x
  BY <1>3
<1>5. x - 1 \notin T /\ 0 .. (x - 1) \in Below
  <2>1. x - 1 \notin T
    BY <1>3, <1>4
  <2> QED BY <1>4, <2>1
<1>6. <<0 .. (x - 1), 0 .. x>> \in StrictSubsetOrdering(Nat)
  <2>1. 0 .. (x - 1) \in SUBSET Nat /\ 0 .. x \in SUBSET Nat
    BY <1>4
  <2>2. 0 .. (x - 1) \subseteq 0 .. x /\ x \in 0 .. x /\ x \notin 0 .. (x - 1)
    BY <1>4
  <2> QED BY <2>1, <2>2 DEF StrictSubsetOrdering
<1> QED BY <1>2, <1>3, <1>5, <1>6

\* The places of a set come first.
LEMMA FirstPlace ==
  ASSUME NEW n \in Nat, NEW P \in SUBSET (0 .. n), P # {}
  PROVE  \E i \in P : \A j \in P : i <= j
<1> SUFFICES ASSUME \A i \in P : \E j \in P : j < i PROVE FALSE
  OBVIOUS
<1> DEFINE T == {i \in 0 .. n : \A j \in 0 .. i : j \notin P}
<1>1. 0 \in T
  OBVIOUS
<1>2. ASSUME NEW i \in 0 .. (n - 1), i \in T PROVE i + 1 \in T
  <2>1. i + 1 \notin P
    BY <1>2
  <2> QED BY <1>2, <2>1
<1> HIDE DEF T
<1>3. \A i \in 0 .. n : i \in T
  BY <1>1, <1>2, Reaches
<1>4. PICK i \in P : i \in 0 .. n
  OBVIOUS
<1>5. i \in 0 .. i /\ i \in T
  BY <1>3, <1>4
<1> QED BY <1>4, <1>5 DEF T

\* The steps of KeepOnly.
Keeping(s, places, m, g) ==
    g = [i \in 0 .. m |->
           IF i = 0 THEN <<>>
           ELSE IF i \in places THEN Append(g[i - 1], s[i]) ELSE g[i - 1]]

LEMMA KeepingExists ==
  ASSUME NEW n \in Nat, NEW s, NEW places
  PROVE  \E g : Keeping(s, places, n, g)
<1> DEFINE T == {m \in 0 .. n : \E g : Keeping(s, places, m, g)}
<1>1. 0 \in T
  <2>1. Keeping(s, places, 0, [i \in 0 .. 0 |-> <<>>])
    BY DEF Keeping
  <2> QED BY <2>1
<1>2. ASSUME NEW m \in 0 .. (n - 1), m \in T PROVE m + 1 \in T
  <2>1. PICK g : Keeping(s, places, m, g)
    BY <1>2
  <2> DEFINE next == IF m + 1 \in places THEN Append(g[m], s[m + 1]) ELSE g[m]
             h == [i \in 0 .. (m + 1) |-> IF i = m + 1 THEN next ELSE g[i]]
  <2>2. h[m + 1] = next /\ \A i \in 0 .. m : h[i] = g[i]
    OBVIOUS
  <2>3. ASSUME NEW i \in 0 .. (m + 1)
        PROVE  h[i] = IF i = 0 THEN <<>>
                      ELSE IF i \in places THEN Append(h[i - 1], s[i]) ELSE h[i - 1]
    <3>1. CASE i = m + 1
      <4>1. h[i - 1] = g[m] /\ i # 0
        BY <2>2, <3>1
      <4> QED BY <2>2, <3>1, <4>1
    <3>2. CASE i # m + 1
      <4>1. i \in 0 .. m
        BY <3>2
      <4>2. g[i] = IF i = 0 THEN <<>>
                   ELSE IF i \in places THEN Append(g[i - 1], s[i]) ELSE g[i - 1]
        BY <2>1, <4>1 DEF Keeping
      <4>3. i # 0 => h[i - 1] = g[i - 1]
        BY <2>2, <4>1
      <4> QED BY <2>2, <4>1, <4>2, <4>3
    <3> QED BY <3>1, <3>2
  <2>4. Keeping(s, places, m + 1, h)
    <3> HIDE DEF next
    <3>1. h = [i \in 0 .. (m + 1) |-> h[i]]
      OBVIOUS
    <3> HIDE DEF h
    <3> QED BY <2>3, <3>1 DEF Keeping
  <2> QED BY <2>4
<1> HIDE DEF T
<1>3. n \in T
  BY <1>1, <1>2, Reaches
<1> QED BY <1>3 DEF T

\* What KeepOnly gives: the elements at the places, each once.
LEMMA KeepOnlyKeeps ==
  ASSUME NEW S, NEW s \in Seq(S), NEW places \in SUBSET DOMAIN s
  PROVE  /\ KeepOnly(s, places) \in Seq(S)
         /\ \E at \in [1 .. Len(KeepOnly(s, places)) -> places] :
              /\ \A k \in 1 .. Len(KeepOnly(s, places)) : KeepOnly(s, places)[k] = s[at[k]]
              /\ \A k, l \in 1 .. Len(KeepOnly(s, places)) : at[k] = at[l] => k = l
              /\ \A i \in places : \E k \in 1 .. Len(KeepOnly(s, places)) : at[k] = i
<1> DEFINE n == Len(s)
<1>1. n \in Nat /\ DOMAIN s = 1 .. n
  BY LenProperties
<1>2. PICK g : Keeping(s, places, n, g) /\ KeepOnly(s, places) = g[n]
  <2>1. \E g : Keeping(s, places, n, g)
    BY <1>1, KeepingExists
  <2>2. Keeping(s, places, n, CHOOSE g : Keeping(s, places, n, g))
    BY <2>1
  <2>3. KeepOnly(s, places) = (CHOOSE g : Keeping(s, places, n, g))[n]
    BY DEF KeepOnly, Keeping
  <2> QED BY <2>2, <2>3
<1> DEFINE Good(m, r) ==
             /\ r \in Seq(S)
             /\ \E at \in [1 .. Len(r) -> places] :
                  /\ \A k \in 1 .. Len(r) : r[k] = s[at[k]] /\ at[k] <= m
                  /\ \A k, l \in 1 .. Len(r) : at[k] = at[l] => k = l
                  /\ \A i \in places : i <= m => \E k \in 1 .. Len(r) : at[k] = i
           T == {m \in 0 .. n : Good(m, g[m])}
<1>3. 0 \in T
  <2>1. g[0] = <<>>
    BY <1>1, <1>2 DEF Keeping
  <2>2. \A i \in places : ~(i <= 0)
    BY <1>1
  <2>3. <<>> \in Seq(S) /\ Len(<<>>) = 0 /\ 1 .. 0 = {}
    BY EmptySeq
  <2>4. [k \in 1 .. 0 |-> 0] \in [1 .. Len(<<>>) -> places]
    BY <2>3
  <2>5. Good(0, <<>>)
    BY <2>2, <2>3, <2>4
  <2> HIDE DEF Good
  <2> QED BY <1>1, <2>1, <2>5
<1>4. ASSUME NEW m \in 0 .. (n - 1), m \in T PROVE m + 1 \in T
  <2> DEFINE r == g[m]
  <2>1. /\ r \in Seq(S) /\ m + 1 \in 0 .. n /\ m + 1 \in 1 .. n
        /\ g[m + 1] = IF m + 1 \in places THEN Append(r, s[m + 1]) ELSE r
    <3>1. Keeping(s, places, n, g) /\ m + 1 \in 0 .. n /\ m + 1 # 0 /\ (m + 1) - 1 = m
      BY <1>1, <1>2
    <3>2. g[m + 1] = IF m + 1 = 0 THEN <<>>
                     ELSE IF m + 1 \in places THEN Append(g[(m + 1) - 1], s[m + 1])
                     ELSE g[(m + 1) - 1]
      <4> DEFINE x == m + 1
      <4>1. x \in 0 .. n
        BY <3>1
      <4> HIDE DEF x
      <4>2. g[x] = IF x = 0 THEN <<>>
                   ELSE IF x \in places THEN Append(g[x - 1], s[x]) ELSE g[x - 1]
        BY <3>1, <4>1 DEF Keeping
      <4> QED BY <4>2 DEF x
    <3> QED BY <1>4, <3>1, <3>2
  <2>2. PICK at \in [1 .. Len(r) -> places] :
                  /\ \A k \in 1 .. Len(r) : r[k] = s[at[k]] /\ at[k] <= m
                  /\ \A k, l \in 1 .. Len(r) : at[k] = at[l] => k = l
                  /\ \A i \in places : i <= m => \E k \in 1 .. Len(r) : at[k] = i
    BY <1>4
  <2>3. s[m + 1] \in S /\ Len(r) \in Nat /\ places \subseteq 1 .. n
    BY <1>1, <2>1, ElementOfSeq, LenProperties
  <2>4. CASE m + 1 \in places
    <3> DEFINE q == Append(r, s[m + 1])
               to == [k \in 1 .. Len(q) |-> IF k = Len(q) THEN m + 1 ELSE at[k]]
    <3>1. /\ q \in Seq(S) /\ Len(q) = Len(r) + 1 /\ q[Len(q)] = s[m + 1]
          /\ \A k \in 1 .. Len(r) : q[k] = r[k]
      BY <2>1, <2>3, AppendProperties
    <3> HIDE DEF q, r
    <3>2. /\ to \in [1 .. Len(q) -> places] /\ to[Len(q)] = m + 1
          /\ \A k \in 1 .. Len(r) : to[k] = at[k] /\ k \in 1 .. Len(q)
          /\ \A k \in 1 .. Len(q) : k = Len(q) \/ k \in 1 .. Len(r)
      BY <2>3, <2>4, <3>1
    <3> HIDE DEF to
    <3>3. \A k \in 1 .. Len(q) : q[k] = s[to[k]] /\ to[k] <= m + 1
      <4> SUFFICES ASSUME NEW k \in 1 .. Len(q) PROVE q[k] = s[to[k]] /\ to[k] <= m + 1
        OBVIOUS
      <4>1. CASE k = Len(q)
        BY <3>1, <3>2, <4>1
      <4>2. CASE k \in 1 .. Len(r)
        <5>1. q[k] = r[k] /\ to[k] = at[k] /\ r[k] = s[at[k]] /\ at[k] <= m
          BY <2>2, <3>1, <3>2, <4>2
        <5>2. at[k] \in 1 .. n
          BY <2>3, <4>2
        <5>3. at[k] <= m + 1
          BY <5>1, <5>2
        <5> QED BY <5>1, <5>3
      <4> QED BY <3>2, <4>1, <4>2
    <3>4. \A k, l \in 1 .. Len(q) : to[k] = to[l] => k = l
      <4>1. \A k \in 1 .. Len(r) : to[k] # m + 1
        BY <2>2, <2>3, <3>2
      <4>2. \A k, l \in 1 .. Len(r) : to[k] = to[l] => k = l
        BY <2>2, <3>2
      <4> QED BY <3>2, <4>1, <4>2
    <3>5. \A i \in places : i <= m + 1 => \E k \in 1 .. Len(q) : to[k] = i
      <4> SUFFICES ASSUME NEW i \in places, i <= m + 1
                   PROVE  \E k \in 1 .. Len(q) : to[k] = i
        OBVIOUS
      <4>1. CASE i = m + 1
        <5>1. Len(q) \in 1 .. Len(q)
          BY <2>3, <3>1
        <5> QED BY <3>2, <4>1, <5>1
      <4>2. CASE i # m + 1
        <5>1. i <= m
          BY <2>3, <4>2
        <5> QED BY <2>2, <3>2, <5>1
      <4> QED BY <4>1, <4>2
    <3>6. Good(m + 1, q)
      BY <3>1, <3>2, <3>3, <3>4, <3>5
    <3> HIDE DEF Good
    <3> QED BY <2>1, <2>4, <3>6 DEF q
  <2>5. CASE m + 1 \notin places
    <3>1. \A i \in places : i <= m + 1 => i <= m
      BY <2>3, <2>5
    <3>2. \A k \in 1 .. Len(r) : at[k] <= m + 1
      BY <2>2, <2>3
    <3>3. Good(m + 1, r)
      <4> HIDE DEF r
      <4> QED BY <2>1, <2>2, <3>1, <3>2
    <3> HIDE DEF Good
    <3> QED BY <2>1, <2>5, <3>3
  <2> QED BY <2>4, <2>5
<1>5. n \in T
  <2> HIDE DEF T, n
  <2>1. \A m \in 0 .. n : m \in T
    BY <1>1, <1>3, <1>4, Reaches
  <2> QED BY <1>1, <2>1
<1>6. \A i \in places : i <= n
  BY <1>1
<1> HIDE DEF n
<1> QED BY <1>2, <1>5, <1>6

\* The elements of a sequence, its first one and the rest.
LEMMA SeqParts ==
  ASSUME NEW S, NEW s \in Seq(S)
  PROVE  /\ ToSet(s) \subseteq S
         /\ \A i \in DOMAIN s : s[i] \in ToSet(s)
         /\ \A e \in ToSet(s) : \E i \in DOMAIN s : e = s[i]
         /\ s # <<>> => /\ Head(s) \in S /\ Head(s) \in ToSet(s)
                        /\ Tail(s) \in Seq(S)
                        /\ ToSet(s) = {Head(s)} \cup ToSet(Tail(s))
<1>1. DOMAIN s = 1 .. Len(s) /\ Len(s) \in Nat
  BY LenProperties
<1>2. /\ ToSet(s) \subseteq S
      /\ \A i \in DOMAIN s : s[i] \in ToSet(s)
      /\ \A e \in ToSet(s) : \E i \in DOMAIN s : e = s[i]
  BY <1>1, ElementOfSeq DEF ToSet
<1>3. ASSUME s # <<>>
      PROVE  /\ Head(s) \in S /\ Head(s) \in ToSet(s)
             /\ Tail(s) \in Seq(S)
             /\ ToSet(s) = {Head(s)} \cup ToSet(Tail(s))
  <2>1. /\ Head(s) \in S /\ Tail(s) \in Seq(S) /\ Len(Tail(s)) = Len(s) - 1
        /\ \A i \in 1 .. Len(Tail(s)) : Tail(s)[i] = s[i + 1]
    BY <1>3, HeadTailProperties
  <2>2. DOMAIN Tail(s) = 1 .. (Len(s) - 1)
    BY <2>1, LenProperties
  <2>3. Len(s) # 0 /\ 1 \in DOMAIN s /\ Head(s) = s[1]
    BY <1>1, <1>3, EmptySeq
  <2>4. \A i \in DOMAIN Tail(s) : i + 1 \in DOMAIN s /\ Tail(s)[i] = s[i + 1]
    BY <1>1, <2>1, <2>2
  <2>5. \A i \in DOMAIN s : i # 1 => i - 1 \in DOMAIN Tail(s) /\ Tail(s)[i - 1] = s[i]
    BY <1>1, <2>1, <2>2
  <2>6. ToSet(Tail(s)) \subseteq ToSet(s) /\ Head(s) \in ToSet(s)
    BY <2>3, <2>4 DEF ToSet
  <2>7. \A i \in DOMAIN s : s[i] \in {Head(s)} \cup ToSet(Tail(s))
    BY <2>3, <2>5 DEF ToSet
  <2> QED BY <1>2, <2>1, <2>6, <2>7
<1> QED BY <1>2, <1>3

\* What is in two sequences together, and after one more.
LEMMA ConcatSet ==
  ASSUME NEW S, NEW s \in Seq(S), NEW t \in Seq(S)
  PROVE  s \o t \in Seq(S) /\ ToSet(s \o t) = ToSet(s) \cup ToSet(t)
<1>1. /\ s \o t \in Seq(S) /\ Len(s \o t) = Len(s) + Len(t)
      /\ \A i \in 1 .. Len(s) + Len(t) : (s \o t)[i] =
                     IF i <= Len(s) THEN s[i] ELSE t[i - Len(s)]
  BY ConcatProperties
<1>2. /\ Len(s) \in Nat /\ Len(t) \in Nat /\ DOMAIN s = 1 .. Len(s) /\ DOMAIN t = 1 .. Len(t)
      /\ DOMAIN (s \o t) = 1 .. (Len(s) + Len(t))
  BY <1>1, LenProperties
<1>3. ASSUME NEW i \in DOMAIN s PROVE i \in DOMAIN (s \o t) /\ (s \o t)[i] = s[i]
  BY <1>1, <1>2
<1>4. ASSUME NEW i \in DOMAIN t
      PROVE  i + Len(s) \in DOMAIN (s \o t) /\ (s \o t)[i + Len(s)] = t[i]
  BY <1>1, <1>2
<1>5. ASSUME NEW i \in DOMAIN (s \o t)
      PROVE  \/ i \in DOMAIN s /\ (s \o t)[i] = s[i]
             \/ i - Len(s) \in DOMAIN t /\ (s \o t)[i] = t[i - Len(s)]
  BY <1>1, <1>2
<1>6. ToSet(s) \subseteq ToSet(s \o t) /\ ToSet(t) \subseteq ToSet(s \o t)
  BY <1>3, <1>4 DEF ToSet
<1>7. ToSet(s \o t) \subseteq ToSet(s) \cup ToSet(t)
  BY <1>5 DEF ToSet
<1> QED BY <1>1, <1>6, <1>7

LEMMA AppendSet ==
  ASSUME NEW S, NEW s \in Seq(S), NEW e \in S
  PROVE  /\ Append(s, e) \in Seq(S) /\ ToSet(Append(s, e)) = ToSet(s) \cup {e}
         /\ DOMAIN Append(s, e) = DOMAIN s \cup {Len(s) + 1}
         /\ Len(s) + 1 \notin DOMAIN s
         /\ Append(s, e)[Len(s) + 1] = e
         /\ \A i \in DOMAIN s : Append(s, e)[i] = s[i]
<1>1. /\ Append(s, e) \in Seq(S) /\ Len(Append(s, e)) = Len(s) + 1
      /\ \A i \in 1 .. Len(s) : Append(s, e)[i] = s[i]
      /\ Append(s, e)[Len(s) + 1] = e
  BY AppendProperties
<1>2. /\ Len(s) \in Nat /\ DOMAIN s = 1 .. Len(s)
      /\ DOMAIN Append(s, e) = 1 .. (Len(s) + 1)
  BY <1>1, LenProperties
<1>3. DOMAIN Append(s, e) = DOMAIN s \cup {Len(s) + 1} /\ Len(s) + 1 \notin DOMAIN s
  BY <1>2
<1>4. ToSet(Append(s, e)) = ToSet(s) \cup {e}
  BY <1>1, <1>2, <1>3 DEF ToSet
<1> QED BY <1>1, <1>2, <1>3, <1>4

\* What is kept is what stood at the places.
LEMMA KeptSet ==
  ASSUME NEW S, NEW s \in Seq(S), NEW places \in SUBSET DOMAIN s
  PROVE  ToSet(KeepOnly(s, places)) = {s[i] : i \in places}
<1> DEFINE r == KeepOnly(s, places)
<1>1. r \in Seq(S)
  BY KeepOnlyKeeps
<1>2. PICK at \in [1 .. Len(r) -> places] :
        /\ \A k \in 1 .. Len(r) : r[k] = s[at[k]]
        /\ \A i \in places : \E k \in 1 .. Len(r) : at[k] = i
  BY KeepOnlyKeeps
<1> HIDE DEF r
<1>3. DOMAIN r = 1 .. Len(r)
  BY <1>1, LenProperties
<1>4. ToSet(r) \subseteq {s[i] : i \in places}
  BY <1>2, <1>3 DEF ToSet
<1>5. {s[i] : i \in places} \subseteq ToSet(r)
  BY <1>2, <1>3 DEF ToSet
<1> QED BY <1>4, <1>5 DEF r

\* The first of each name: every name once.
LEMMA FirstOfEachIs ==
  ASSUME NEW pins \in Seq(Pin)
  PROVE  /\ FirstOfEach(pins) \in Seq(Pin)
         /\ ToSet(FirstOfEach(pins)) \subseteq ToSet(pins)
         /\ Names(FirstOfEach(pins)) = Names(pins)
         /\ Cardinality(Names(FirstOfEach(pins))) = Len(FirstOfEach(pins))
<1> DEFINE firsts == {i \in DOMAIN pins : \A j \in 1 .. (i - 1) : pins[j].name # pins[i].name}
           r == KeepOnly(pins, firsts)
<1>1. FirstOfEach(pins) = r /\ firsts \in SUBSET DOMAIN pins
  BY DEF FirstOfEach
<1>2. DOMAIN pins = 1 .. Len(pins) /\ Len(pins) \in Nat
  BY LenProperties
<1>3. \A i, j \in firsts : pins[i].name = pins[j].name => i = j
  <2> SUFFICES ASSUME NEW i \in firsts, NEW j \in firsts, pins[i].name = pins[j].name, i < j
               PROVE  FALSE
    BY <1>2
  <2>1. i \in 1 .. (j - 1)
    BY <1>2
  <2> QED BY <2>1
<1>4. \A i \in DOMAIN pins : \E j \in firsts : pins[j].name = pins[i].name
  <2> SUFFICES ASSUME NEW i \in DOMAIN pins
               PROVE  \E j \in firsts : pins[j].name = pins[i].name
    OBVIOUS
  <2> DEFINE alike == {j \in DOMAIN pins : pins[j].name = pins[i].name}
  <2>1. alike \in SUBSET (0 .. Len(pins)) /\ alike # {}
    BY <1>2
  <2>2. PICK j \in alike : \A k \in alike : j <= k
    <3> HIDE DEF alike
    <3> QED BY <1>2, <2>1, FirstPlace
  <2>3. ASSUME NEW k \in 1 .. (j - 1) PROVE pins[k].name # pins[j].name
    <3>1. k \in DOMAIN pins /\ ~(j <= k)
      BY <1>2, <2>2
    <3>2. k \notin alike
      BY <2>2, <3>1
    <3> QED BY <2>2, <3>1, <3>2
  <2> QED BY <2>2, <2>3
<1> HIDE DEF firsts
<1>5. /\ r \in Seq(Pin) /\ ToSet(r) = {pins[i] : i \in firsts}
      /\ \E at \in [1 .. Len(r) -> firsts] :
              /\ \A k \in 1 .. Len(r) : r[k] = pins[at[k]]
              /\ \A k, l \in 1 .. Len(r) : at[k] = at[l] => k = l
              /\ \A i \in firsts : \E k \in 1 .. Len(r) : at[k] = i
  BY <1>1, KeepOnlyKeeps, KeptSet
<1>6. PICK at \in [1 .. Len(r) -> firsts] :
              /\ \A k \in 1 .. Len(r) : r[k] = pins[at[k]]
              /\ \A k, l \in 1 .. Len(r) : at[k] = at[l] => k = l
              /\ \A i \in firsts : \E k \in 1 .. Len(r) : at[k] = i
  BY <1>5
<1>7. ToSet(r) \subseteq ToSet(pins)
  BY <1>1, <1>5 DEF ToSet
<1>8. Names(r) = Names(pins)
  <2>1. Names(r) \subseteq Names(pins)
    BY <1>7 DEF Names
  <2>2. \A e \in ToSet(pins) : \E q \in ToSet(r) : q.name = e.name
    <3> SUFFICES ASSUME NEW i \in DOMAIN pins
                 PROVE  \E q \in ToSet(r) : q.name = pins[i].name
      BY DEF ToSet
    <3>1. PICK j \in firsts : pins[j].name = pins[i].name
      BY <1>4
    <3> QED BY <1>5, <3>1
  <2>3. Names(pins) \subseteq Names(r)
    BY <2>2 DEF Names
  <2> QED BY <2>1, <2>3
<1>9. Cardinality(Names(r)) = Len(r)
  <2> DEFINE f == [k \in 1 .. Len(r) |-> r[k].name]
  <2>1. DOMAIN r = 1 .. Len(r) /\ Len(r) \in Nat
    BY <1>5, LenProperties
  <2>2. f \in [1 .. Len(r) -> Names(r)]
    BY <2>1 DEF Names, ToSet
  <2>3. \A k, l \in 1 .. Len(r) : f[k] = f[l] => k = l
    BY <1>3, <1>6
  <2>4. \A x \in Names(r) : \E k \in 1 .. Len(r) : f[k] = x
    BY <2>1 DEF Names, ToSet
  <2>5. f \in Bijection(1 .. Len(r), Names(r))
    <3> HIDE DEF f
    <3>1. DOMAIN f = 1 .. Len(r)
      BY <2>2
    <3>2. f \in Injection(1 .. Len(r), Names(r))
      BY <2>2, <2>3, <3>1 DEF Injection, IsInjective
    <3>3. f \in Surjection(1 .. Len(r), Names(r))
      BY <2>2, <2>4 DEF Surjection
    <3> QED BY <3>2, <3>3 DEF Bijection
  <2>6. IsFiniteSet(1 .. Len(r)) /\ Cardinality(1 .. Len(r)) = Len(r)
    <3> DEFINE n == Len(r)
    <3> HIDE DEF n
    <3>1. n \in Nat /\ n \in Int /\ 1 \in Int
      BY <2>1 DEF n
    <3>2. IsFiniteSet(1 .. n) /\ Cardinality(1 .. n) = IF 1 > n THEN 0 ELSE n - 1 + 1
      BY <3>1, FS_Interval
    <3>3. Cardinality(1 .. n) = n
      BY <3>1, <3>2
    <3> QED BY <3>2, <3>3 DEF n
  <2>7. ExistsBijection(1 .. Len(r), Names(r))
    BY <2>5 DEF ExistsBijection
  <2> QED BY <2>6, <2>7, FS_Bijection
<1> QED BY <1>1, <1>5, <1>7, <1>8, <1>9

---------------------------------------------------------------------------
(* Dependencies and pins. *)

\* The names of those that come with no group.
Bare(ds) == {d.name : d \in {d \in ToSet(ds) : ~d.grouped}}

\* A sibling asks for its own name, and stays a dependency.
LEMMA ExternalizedIs ==
  ASSUME NEW d \in Dependency, NEW pin \in Pin
  PROVE  Externalized(d, pin) \in Dependency /\ Externalized(d, pin).name = d.name
<1>1. CASE d.source # "workspace"
  BY <1>1 DEF Externalized
<1>2. CASE d.source = "workspace"
  <2> DEFINE e == Externalized(d, pin)
  <2>1. e = [name |-> d.name, source |-> "git", repo |-> pin.repo, selector |-> "ref",
             clauses |-> {[op |-> "name", version |-> NoVersion]},
             named |-> NoVersion, commit |-> pin.commit, grouped |-> d.grouped]
    BY <1>2 DEF Externalized, Dependency
  <2>2. pin.repo \in Repositories /\ pin.commit \in Commit /\ d.name \in Packages
        /\ d.grouped \in BOOLEAN
    BY DEF Pin, Dependency
  <2>3. {[op |-> "name", version |-> NoVersion]} \subseteq Clause /\ NoVersion \in Nat
    BY DEF Clause, NoVersion
  <2> HIDE DEF e
  <2>4. e.name = d.name /\ e \in Dependency
    BY <2>1, <2>2, <2>3 DEF Dependency
  <2> QED BY <2>4 DEF e
<1> QED BY <1>1, <1>2

\* What a pin inherits: an entry in its name for each ungrouped dependency.
LEMMA InheritedIs ==
  ASSUME NEW ds \in Seq(Offers), NEW pin \in Pin
  PROVE  /\ Inherited(ds, pin) \in Seq(Entry)
         /\ \A e \in ToSet(Inherited(ds, pin)) : e.by = pin.name /\ e.dependency.name \in Bare(ds)
         /\ \A n \in Bare(ds) : \E e \in ToSet(Inherited(ds, pin)) : e.dependency.name = n
<1> DEFINE places == {i \in DOMAIN ds : ~ds[i].grouped}
           r == KeepOnly(ds, places)
           q == Inherited(ds, pin)
<1>1. r \in Seq(Offers) /\ ToSet(r) = {ds[i] : i \in places}
  BY KeepOnlyKeeps, KeptSet
<1>2. q = [i \in DOMAIN r |-> [dependency |-> Externalized(r[i], pin), by |-> pin.name]]
  BY DEF Inherited
<1>3. Bare(ds) = {d.name : d \in ToSet(r)}
  BY <1>1 DEF Bare, ToSet
<1> HIDE DEF r, q, places
<1>4. Len(r) \in Nat /\ DOMAIN r = 1 .. Len(r)
  BY <1>1, LenProperties
<1>5. ASSUME NEW i \in DOMAIN r
      PROVE  /\ r[i] \in ToSet(r) /\ q[i] \in Entry
             /\ q[i].by = pin.name /\ q[i].dependency.name = r[i].name
  <2>1. r[i] \in Dependency /\ r[i] \in ToSet(r)
    BY <1>1, <1>4, ElementOfSeq, ResolverAssumption DEF ToSet
  <2>2. Externalized(r[i], pin) \in Dependency /\ Externalized(r[i], pin).name = r[i].name
    BY <2>1, ExternalizedIs
  <2>3. pin.name \in Packages
    BY DEF Pin
  <2> QED BY <1>2, <2>1, <2>2, <2>3 DEF Entry
<1>6. DOMAIN q = 1 .. Len(r)
  BY <1>2, <1>4
<1>7. q \in Seq(Entry)
  <2>1. q \in [1 .. Len(r) -> Entry]
    BY <1>2, <1>4, <1>5
  <2> QED BY <1>4, <2>1, SeqDef
<1>8. ToSet(q) = {q[i] : i \in DOMAIN r} /\ ToSet(r) = {r[i] : i \in DOMAIN r}
  BY <1>4, <1>6 DEF ToSet
<1>9. \A e \in ToSet(q) : e.by = pin.name /\ e.dependency.name \in Bare(ds)
  BY <1>3, <1>5, <1>8
<1>10. \A n \in Bare(ds) : \E e \in ToSet(q) : e.dependency.name = n
  BY <1>3, <1>5, <1>8
<1> QED BY <1>7, <1>9, <1>10 DEF q

\* What a list begins with.
LEMMA RootsIs ==
  ASSUME NEW list \in List
  PROVE  /\ Roots(list) \in Seq(Entry)
         /\ \A e \in ToSet(Roots(list)) : ByProject(e)
<1> DEFINE q == Roots(list)
           wants == list.wants
<1>1. wants \in Seq(Offers) /\ list.of \in {"root", "path"}
  BY DEF List
<1>2. q = [i \in DOMAIN wants |-> [dependency |-> wants[i], by |-> list.of]]
  BY DEF Roots
<1> HIDE DEF q, wants
<1>3. Len(wants) \in Nat /\ DOMAIN wants = 1 .. Len(wants)
  BY <1>1, LenProperties
<1>4. ASSUME NEW i \in DOMAIN wants PROVE q[i] \in Entry /\ q[i].by = list.of
  <2>1. wants[i] \in Dependency
    BY <1>1, <1>3, ElementOfSeq, ResolverAssumption
  <2> QED BY <1>1, <1>2, <2>1 DEF Entry
<1>5. q \in [1 .. Len(wants) -> Entry]
  BY <1>2, <1>3, <1>4
<1>6. q \in Seq(Entry)
  BY <1>3, <1>5, SeqDef
<1>7. \A e \in ToSet(q) : ByProject(e)
  <2>1. DOMAIN q = DOMAIN wants
    BY <1>2
  <2> QED BY <1>1, <1>4, <2>1 DEF ToSet, ByProject
<1> QED BY <1>6, <1>7 DEF q

\* What a version says of a commit: the one it is tagged with, if it is tagged.
TaggedWith(commit) == IF commit[2] = "untagged" THEN NoVersion ELSE commit[3]

\* A range gets a tag that satisfies it, one of the package's own if there is
\* any; a tag, a branch or a ref gets the commit it points at.
LEMMA PinsAre ==
  ASSUME NEW d \in Dependency, NEW p \in Pins(d)
  PROVE  /\ p.version \in Nat /\ p.commit \in Commit
         /\ d.selector = "range" =>
              /\ p.version = TaggedWith(p.commit) /\ Satisfies(p.version, d.clauses)
              /\ (\E t \in Tags[d.repo] : Own(d.name, t.scope)) => Own(d.name, p.commit[2])
         /\ d.selector # "range" =>
              p.commit = d.commit /\ p.version \in {d.named, TaggedWith(p.commit)}
<1>1. /\ d.repo \in Repositories /\ d.name \in Packages /\ d.commit \in Commit
      /\ d.selector \in {"range", "tag", "branch", "ref", "none"} /\ d.named \in Nat
  BY DEF Dependency
<1>2. \A t \in Tags[d.repo] :
        /\ t.scope \in Packages \cup {"none"} /\ t.version \in Nat
        /\ t.scope # "untagged"
  BY <1>1, ResolverAssumption
<1>3. ASSUME NEW t \in Tags[d.repo],
             p = [version |-> t.version, commit |-> <<d.repo, t.scope, t.version>>]
      PROVE  /\ p.version = t.version /\ p.commit[2] = t.scope
             /\ p.version = TaggedWith(p.commit) /\ p.version \in Nat /\ p.commit \in Commit
  <2>1. /\ p.version = t.version /\ p.commit = <<d.repo, t.scope, t.version>>
        /\ p.commit[2] = t.scope /\ p.commit[3] = t.version
    BY <1>3
  <2>2. p.commit \in Commit
    BY <1>1, <1>2, <2>1 DEF Commit
  <2> QED BY <1>2, <2>1, <2>2 DEF TaggedWith
<1>4. CASE d.selector = "range"
  <2>1. PICK t \in ChooseFromTags(d.name, d.repo, d.clauses) :
          p = [version |-> t.version, commit |-> <<d.repo, t.scope, t.version>>]
    BY <1>4 DEF Pins
  <2>2. /\ t \in Tags[d.repo] /\ Satisfies(t.version, d.clauses)
        /\ (\E u \in Tags[d.repo] : Own(d.name, u.scope)) => Own(d.name, t.scope)
    <3> HIDE DEF Satisfies, Own
    <3> QED BY DEF ChooseFromTags
  <2>3. /\ p.version = t.version /\ p.commit[2] = t.scope
        /\ p.version = TaggedWith(p.commit) /\ p.version \in Nat /\ p.commit \in Commit
    BY <1>3, <2>1, <2>2
  <2> HIDE DEF Satisfies, Own
  <2> QED BY <1>4, <2>2, <2>3
<1>5. CASE d.selector = "tag"
  <2>1. PICK t \in Tags[d.repo] :
          /\ d.commit = <<d.repo, t.scope, t.version>>
          /\ p = [version |-> t.version, commit |-> d.commit]
    BY <1>5 DEF Pins
  <2>2. /\ p = [version |-> t.version, commit |-> <<d.repo, t.scope, t.version>>]
        /\ p.commit = d.commit
    BY <2>1
  <2>3. p.version = TaggedWith(p.commit) /\ p.version \in Nat /\ p.commit \in Commit
    BY <1>3, <2>2
  <2> QED BY <1>5, <2>2, <2>3
<1>6. CASE d.selector \in {"branch", "ref"}
  <2>1. p = [version |-> d.named, commit |-> d.commit]
    BY <1>6 DEF Pins
  <2>2. p.version = d.named /\ p.commit = d.commit
    BY <2>1
  <2> QED BY <1>1, <1>6, <2>2
<1>7. CASE d.selector = "none"
  BY <1>7 DEF Pins
<1> QED BY <1>1, <1>4, <1>5, <1>6, <1>7

\* What a checkout declares is offered, and the same as when it was read before.
LEMMA DeclaredIs ==
  ASSUME TypeOK, NEW n, NEW commit, NEW ds \in Declared(n, commit)
  PROVE  /\ ds \in Seq(Offers)
         /\ <<n, commit>> \in DOMAIN manifest => ds = manifest[<<n, commit>>]
<1>1. CASE <<n, commit>> \in DOMAIN manifest
  <2>1. ds = manifest[<<n, commit>>]
    BY <1>1 DEF Declared
  <2>2. manifest[<<n, commit>>] \in Seq(Offers)
    BY <1>1 DEF TypeOK
  <2> QED BY <2>1, <2>2
<1>2. CASE <<n, commit>> \notin DOMAIN manifest
  <2>1. ds \in SeqOf(Offers, MaxDeclared)
    BY <1>2 DEF Declared
  <2>2. PICK m \in 0 .. MaxDeclared : ds \in [1 .. m -> Offers]
    BY <2>1 DEF SeqOf
  <2> QED BY <1>2, <2>2, SeqDef, ResolverAssumption
<1> QED BY <1>1, <1>2

---------------------------------------------------------------------------
(* The steps, told apart by what they do. *)

\* An entry is taken: what it asks is noted.
Notes(e) ==
    LET d == e.dependency IN
    /\ e \in Entry /\ d \in Dependency /\ d.name \in Packages
    /\ ToSet(queue) = {e} \cup ToSet(Tail(queue)) /\ Tail(queue) \in Seq(Entry)
    /\ result = "none" /\ result' = "none"
    /\ d.source = "git" => SameRepository(d)
    /\ wanted' = [wanted EXCEPT ![d.name] = wanted[d.name] \cup d.clauses]
    /\ gits' = [gits EXCEPT ![d.name] = IF d.source = "git" THEN d.repo ELSE @]
    /\ asked' = asked \cup {e}
    /\ UNCHANGED <<lists, locked, faults>>

\* It is pinned already.
Checks(d) ==
    /\ d.name \in Names(resolved)
    /\ Met(d, PinOf(resolved, d.name), wanted[d.name] \cup d.clauses)
    /\ queue' = Tail(queue)
    /\ UNCHANGED <<resolved, manifest>>

\* It is pinned now, and its own dependencies are queued.
Adds(d, pin, ds) ==
    /\ d.name \notin Names(resolved) /\ d.source = "git"
    /\ pin \in Pin /\ pin.name = d.name /\ pin.repo = d.repo
    /\ d.selector = "range" =>
         /\ pin.version = VersionAt(pin) /\ Satisfies(pin.version, d.clauses)
         /\ (\E t \in Tags[d.repo] : Own(d.name, t.scope)) => Own(d.name, pin.commit[2])
    /\ d.selector # "range" =>
         pin.commit = d.commit /\ pin.version \in {d.named, VersionAt(pin)}
    /\ ds \in Seq(Offers)
    /\ <<pin.name, pin.commit>> \in DOMAIN manifest => ds = manifest[<<pin.name, pin.commit>>]
    /\ resolved' = Append(resolved, pin)
    /\ manifest' = Read(pin.name, pin.commit, ds)
    /\ queue' = Tail(queue) \o Inherited(ds, pin)

\* These two are all that Take does.
LEMMA TakeMeans ==
  ASSUME TypeOK, Take
  PROVE  \E e : /\ Notes(e)
                /\ \/ Checks(e.dependency)
                   \/ \E pin, ds : Adds(e.dependency, pin, ds)
<1> DEFINE e == Head(queue)
           d == e.dependency
<1>1. queue \in Seq(Entry) /\ queue # <<>>
  BY DEF TypeOK, Take
<1>2. /\ e \in Entry /\ Tail(queue) \in Seq(Entry)
      /\ ToSet(queue) = {e} \cup ToSet(Tail(queue))
  BY <1>1, SeqParts
<1>3. d \in Dependency /\ d.name \in Packages /\ e = [dependency |-> d, by |-> e.by]
  BY <1>2 DEF Entry, Dependency
<1>4. Notes(e)
  BY <1>2, <1>3 DEF Take, Notes, Intersect
<1>5. CASE d.name \notin Names(resolved)
  <2>0. PICK p \in Pins(d) : \E ds \in Declared(d.name, p.commit) :
          LET pin == [name |-> d.name, repo |-> d.repo,
                      version |-> p.version, commit |-> p.commit]
          IN  /\ d.source = "git"
              /\ resolved' = Append(resolved, pin)
              /\ manifest' = Read(d.name, p.commit, ds)
              /\ queue' = Tail(queue) \o Inherited(ds, pin)
    BY <1>5 DEF Take
  <2>1. PICK ds \in Declared(d.name, p.commit) :
          LET pin == [name |-> d.name, repo |-> d.repo,
                      version |-> p.version, commit |-> p.commit]
          IN  /\ d.source = "git"
              /\ resolved' = Append(resolved, pin)
              /\ manifest' = Read(d.name, p.commit, ds)
              /\ queue' = Tail(queue) \o Inherited(ds, pin)
    BY <2>0
  <2> DEFINE pin == [name |-> d.name, repo |-> d.repo,
                     version |-> p.version, commit |-> p.commit]
  <2>2. /\ pin.name = d.name /\ pin.repo = d.repo
        /\ pin.version = p.version /\ pin.commit = p.commit
    OBVIOUS
  <2>3. /\ p.version \in Nat /\ p.commit \in Commit
        /\ d.selector = "range" =>
             /\ p.version = TaggedWith(p.commit) /\ Satisfies(p.version, d.clauses)
             /\ (\E t \in Tags[d.repo] : Own(d.name, t.scope)) => Own(d.name, p.commit[2])
        /\ d.selector # "range" =>
             p.commit = d.commit /\ p.version \in {d.named, TaggedWith(p.commit)}
    BY <1>3, PinsAre
  <2>4. pin \in Pin
    BY <1>3, <2>3 DEF Pin, Dependency
  <2>5. /\ ds \in Seq(Offers)
        /\ <<d.name, p.commit>> \in DOMAIN manifest => ds = manifest[<<d.name, p.commit>>]
    BY DeclaredIs
  <2>6. VersionAt(pin) = TaggedWith(p.commit)
    BY <2>2 DEF VersionAt, TaggedWith
  <2>7. resolved' = Append(resolved, pin) /\ manifest' = Read(d.name, p.commit, ds)
        /\ queue' = Tail(queue) \o Inherited(ds, pin) /\ d.source = "git"
    BY <2>1
  <2> HIDE DEF pin, d, e, Satisfies, Own
  <2>8. Adds(d, pin, ds)
    BY <1>5, <2>2, <2>3, <2>4, <2>5, <2>6, <2>7 DEF Adds
  <2>9. Notes(e) /\ Adds(e.dependency, pin, ds)
    BY <1>4, <2>8 DEF d
  <2> QED BY <2>9
<1>6. CASE d.name \in Names(resolved)
  <2>1. Checks(d)
    BY <1>6 DEF Take, Checks, Intersect
  <2> QED BY <1>4, <2>1
<1> QED BY <1>5, <1>6

\* An error: nothing else is lost or won.
Refuses ==
    /\ result' = "error" /\ faults' \in 0 .. MaxFaults
    /\ UNCHANGED <<lists, queue, resolved, wanted, gits, locked, manifest, asked>>

\* A merge that finds one package under each name.
Merges ==
    /\ result = "none" /\ queue = <<>> /\ Unique(locked \o resolved)
    /\ result' = "ok" /\ locked' = FirstOfEach(locked \o resolved) /\ resolved' = <<>>
    /\ UNCHANGED <<lists, queue, wanted, gits, manifest, faults, asked>>

LEMMA NextMeans ==
  ASSUME TypeOK, Next
  PROVE  Take \/ Refuses \/ NextList \/ Merges
<1>1. CASE Conflict
  BY <1>1 DEF Conflict, Fail, Refuses, TypeOK
<1>2. CASE Unavailable
  <2>1. faults' \in 0 .. MaxFaults
    BY <1>2, ResolverAssumption DEF Unavailable, TypeOK
  <2> QED BY <1>2, <2>1 DEF Unavailable, Refuses
<1>3. CASE Merge
  BY <1>3 DEF Merge, Merges, Refuses, TypeOK
<1> QED BY <1>1, <1>2, <1>3 DEF Next

---------------------------------------------------------------------------
(* One dependency. *)

\* The pin of a name that has one.
LEMMA PinOfIs ==
  ASSUME NEW pins, NEW n \in Names(pins)
  PROVE  PinOf(pins, n) \in ToSet(pins) /\ PinOf(pins, n).name = n
BY DEF Names, PinOf

\* What a new pin changes of the pins and of the checkouts that were read.
LEMMA AddsEffect ==
  ASSUME TypeOK, NEW d, NEW pin, NEW ds, Adds(d, pin, ds)
  PROVE  /\ resolved' \in Seq(Pin) /\ ToSet(resolved') = ToSet(resolved) \cup {pin}
         /\ DOMAIN manifest' = DOMAIN manifest \cup {<<pin.name, pin.commit>>}
         /\ manifest'[<<pin.name, pin.commit>>] = ds
         /\ \A at \in DOMAIN manifest : manifest'[at] = manifest[at]
         /\ Tail(queue) \in Seq(Entry) =>
              /\ queue' \in Seq(Entry)
              /\ ToSet(queue') = ToSet(Tail(queue)) \cup ToSet(Inherited(ds, pin))
<1>1. /\ resolved \in Seq(Pin) /\ pin \in Pin /\ ds \in Seq(Offers)
      /\ resolved' = Append(resolved, pin) /\ manifest' = Read(pin.name, pin.commit, ds)
      /\ queue' = Tail(queue) \o Inherited(ds, pin)
      /\ <<pin.name, pin.commit>> \in DOMAIN manifest => ds = manifest[<<pin.name, pin.commit>>]
  BY DEF Adds, TypeOK
<1>2. resolved' \in Seq(Pin) /\ ToSet(resolved') = ToSet(resolved) \cup {pin}
  BY <1>1, AppendSet
<1>3. /\ DOMAIN manifest' = DOMAIN manifest \cup {<<pin.name, pin.commit>>}
      /\ manifest'[<<pin.name, pin.commit>>] = ds
      /\ \A at \in DOMAIN manifest : manifest'[at] = manifest[at]
  BY <1>1 DEF Read
<1>4. Inherited(ds, pin) \in Seq(Entry)
  BY <1>1, InheritedIs
<1>5. Tail(queue) \in Seq(Entry) =>
              /\ queue' \in Seq(Entry)
              /\ ToSet(queue') = ToSet(Tail(queue)) \cup ToSet(Inherited(ds, pin))
  BY <1>1, <1>4, ConcatSet
<1> QED BY <1>2, <1>3, <1>5

LEMMA TakeTyped ==
  ASSUME TypeOK, NEW e, Notes(e),
         Checks(e.dependency) \/ \E pin, ds : Adds(e.dependency, pin, ds)
  PROVE  TypeOK'
<1> DEFINE d == e.dependency
<1>1. /\ d \in Dependency /\ d.name \in Packages /\ e \in Entry /\ Tail(queue) \in Seq(Entry)
      /\ d.repo \in Repositories /\ d.clauses \subseteq Clause
  BY DEF Notes, Dependency
<1>2. /\ wanted' \in [Packages -> SUBSET Clause]
      /\ gits' \in [Packages -> Repositories \cup {"none"}]
  BY <1>1 DEF Notes, TypeOK
<1>3. /\ result' \in {"none", "ok", "error"} /\ faults' \in 0 .. MaxFaults
      /\ lists' \in Seq(List) /\ asked' \subseteq Entry /\ locked' \in Seq(Pin)
      /\ locked' = locked
  BY <1>1 DEF Notes, TypeOK
<1>4. CASE Checks(d)
  BY <1>1, <1>2, <1>3, <1>4 DEF Checks, TypeOK
<1>5. ASSUME NEW pin, NEW ds, Adds(d, pin, ds) PROVE TypeOK'
  <2>1. /\ resolved' \in Seq(Pin) /\ ToSet(resolved') = ToSet(resolved) \cup {pin}
        /\ DOMAIN manifest' = DOMAIN manifest \cup {<<pin.name, pin.commit>>}
        /\ manifest'[<<pin.name, pin.commit>>] = ds
        /\ \A at \in DOMAIN manifest : manifest'[at] = manifest[at]
        /\ queue' \in Seq(Entry)
    BY <1>1, <1>5, AddsEffect
  <2>2. pin \in Pin /\ ds \in Seq(Offers) /\ <<pin.name, pin.commit>> \in Packages \X Commit
    BY <1>5 DEF Adds, Pin
  <2>3. /\ DOMAIN manifest' \subseteq Packages \X Commit
        /\ \A at \in DOMAIN manifest' : manifest'[at] \in Seq(Offers)
    BY <2>1, <2>2 DEF TypeOK
  <2>4. \A q \in ToSet(resolved') \cup ToSet(locked') : <<q.name, q.commit>> \in DOMAIN manifest'
    BY <1>3, <2>1 DEF TypeOK
  <2> QED BY <1>2, <1>3, <2>1, <2>3, <2>4 DEF TypeOK
<1> QED BY <1>4, <1>5

\* Nothing is unpinned, nothing that was asked or read is forgotten.
LEMMA TakeGrows ==
  ASSUME TypeOK, NEW e, Notes(e),
         Checks(e.dependency) \/ \E pin, ds : Adds(e.dependency, pin, ds)
  PROVE  /\ asked \subseteq asked' /\ e \in asked'
         /\ ToSet(resolved) \subseteq ToSet(resolved')
         /\ Pinned \subseteq Pinned'
         /\ \A pin \in Pinned : Needs(pin)' = Needs(pin)
         /\ \A n : Asked(n) \subseteq Asked(n)'
         /\ e.dependency \in Asked(e.dependency.name)'
<1> DEFINE d == e.dependency
<1>1. asked' = asked \cup {e} /\ locked' = locked
  BY DEF Notes
<1>2. /\ ToSet(resolved) \subseteq ToSet(resolved')
      /\ \A at \in DOMAIN manifest : manifest'[at] = manifest[at]
  <2>1. CASE Checks(d)
    BY <2>1 DEF Checks
  <2>2. ASSUME NEW pin, NEW ds, Adds(d, pin, ds)
        PROVE  /\ ToSet(resolved) \subseteq ToSet(resolved')
               /\ \A at \in DOMAIN manifest : manifest'[at] = manifest[at]
    BY <2>2, AddsEffect
  <2> QED BY <2>1, <2>2
<1>3. Pinned \subseteq Pinned'
  BY <1>1, <1>2 DEF Pinned
<1>4. ASSUME NEW pin \in Pinned PROVE Needs(pin)' = Needs(pin)
  <2>1. manifest'[<<pin.name, pin.commit>>] = manifest[<<pin.name, pin.commit>>]
    BY <1>2 DEF TypeOK, Pinned
  <2> QED BY <2>1 DEF Needs
<1>5. (\A n : Asked(n) \subseteq Asked(n)') /\ e.dependency \in Asked(e.dependency.name)'
  BY <1>1 DEF Asked
<1> QED BY <1>1, <1>2, <1>3, <1>4, <1>5

LEMMA TakeOnePin ==
  ASSUME TypeOK, OnePin, NEW e, Notes(e),
         Checks(e.dependency) \/ \E pin, ds : Adds(e.dependency, pin, ds)
  PROVE  OnePin'
<1> DEFINE d == e.dependency
<1>1. /\ d.name \in Packages /\ gits \in [Packages -> Repositories \cup {"none"}]
      /\ result' = "none"
      /\ d.source = "git" => gits[d.name] \in {"none", d.repo}
      /\ gits' = [gits EXCEPT ![d.name] = IF d.source = "git" THEN d.repo ELSE @]
  BY DEF Notes, TypeOK, SameRepository
<1>2. \A pin \in ToSet(resolved) :
        /\ pin.repo \in Repositories /\ gits[pin.name] = pin.repo /\ pin.name \in Packages
  <2>1. ToSet(resolved) \subseteq Pin
    BY SeqParts DEF TypeOK
  <2> QED BY <2>1 DEF OnePin, Pin
<1>3. ASSUME NEW pin \in ToSet(resolved) PROVE gits'[pin.name] = pin.repo
  <2>1. CASE pin.name = d.name /\ d.source = "git"
    BY <1>1, <1>2, <2>1, ResolverAssumption
  <2>2. CASE ~(pin.name = d.name /\ d.source = "git")
    BY <1>1, <1>2, <2>2
  <2> QED BY <2>1, <2>2
<1>4. CASE Checks(d)
  BY <1>1, <1>3, <1>4 DEF Checks, OnePin
<1>5. ASSUME NEW pin, NEW ds, Adds(d, pin, ds) PROVE OnePin'
  <2>1. /\ resolved \in Seq(Pin) /\ pin \in Pin /\ pin.name = d.name /\ pin.repo = d.repo
        /\ d.source = "git" /\ pin.name \notin Names(resolved)
        /\ resolved' = Append(resolved, pin)
    BY <1>5 DEF Adds, TypeOK
  <2>2. /\ ToSet(resolved') = ToSet(resolved) \cup {pin}
        /\ DOMAIN resolved' = DOMAIN resolved \cup {Len(resolved) + 1}
        /\ resolved'[Len(resolved) + 1] = pin
        /\ \A i \in DOMAIN resolved : resolved'[i] = resolved[i]
    BY <2>1, AppendSet
  <2>3. \A i \in DOMAIN resolved : resolved[i].name # pin.name
    BY <2>1 DEF Names, ToSet
  <2>4. \A i, j \in DOMAIN resolved' : resolved'[i].name = resolved'[j].name => i = j
    BY <2>2, <2>3 DEF OnePin
  <2>5. gits'[pin.name] = pin.repo
    BY <1>1, <2>1
  <2>6. \A q \in ToSet(resolved') : gits'[q.name] = q.repo
    BY <1>3, <2>2, <2>5
  <2> QED BY <1>1, <2>4, <2>6 DEF OnePin
<1> QED BY <1>4, <1>5

\* A new pin is the only one, and what it brings comes last.
LEMMA AddsOne ==
  ASSUME TypeOK, NEW e, Notes(e), NEW q, NEW ds, Adds(e.dependency, q, ds)
  PROVE  /\ Pinned' = Pinned \cup {q} /\ ToSet(resolved') = ToSet(resolved) \cup {q}
         /\ q.name = e.dependency.name /\ q.repo = e.dependency.repo
<1>1. locked' = locked /\ q.name = e.dependency.name /\ q.repo = e.dependency.repo
  BY DEF Notes, Adds
<1>2. ToSet(resolved') = ToSet(resolved) \cup {q}
  <2> DEFINE d == e.dependency
  <2>1. Adds(d, q, ds)
    OBVIOUS
  <2> HIDE DEF d
  <2> QED BY <2>1, AddsEffect
<1> QED BY <1>1, <1>2 DEF Pinned

LEMMA AddsQueue ==
  ASSUME TypeOK, NEW e, Notes(e), NEW q, NEW ds, Adds(e.dependency, q, ds)
  PROVE  /\ Needs(q)' = Bare(ds)
         /\ ToSet(queue') = ToSet(Tail(queue)) \cup ToSet(Inherited(ds, q))
         /\ \A x \in ToSet(Inherited(ds, q)) : x.by = q.name /\ x.dependency.name \in Bare(ds)
         /\ \A n \in Bare(ds) : \E x \in ToSet(Inherited(ds, q)) : x.dependency.name = n
<1>1. Tail(queue) \in Seq(Entry)
  BY DEF Notes
<1>2. /\ manifest'[<<q.name, q.commit>>] = ds
      /\ ToSet(queue') = ToSet(Tail(queue)) \cup ToSet(Inherited(ds, q))
  <2> DEFINE d == e.dependency
  <2>1. Adds(d, q, ds)
    OBVIOUS
  <2> HIDE DEF d
  <2> QED BY <1>1, <2>1, AddsEffect
<1>3. q \in Pin /\ ds \in Seq(Offers)
  BY DEF Adds
<1>4. Needs(q)' = Bare(ds)
  BY <1>2 DEF Needs, Bare
<1> QED BY <1>2, <1>3, <1>4, InheritedIs

\* What a pin's commit was asked for by is not forgotten.
LEMMA NamedAsGrows ==
  ASSUME NEW pin, Asked(pin.name) \subseteq Asked(pin.name)'
  PROVE  NamedAs(pin) \subseteq NamedAs(pin)'
BY DEF NamedAs, VersionAt

\* What was met is met when more was asked.
LEMMA MetByGrows ==
  ASSUME NEW pin, NEW d, Asked(pin.name) \subseteq Asked(pin.name)', MetBy(pin, d)
  PROVE  MetBy(pin, d)'
<1>1. NamedAs(pin) \subseteq NamedAs(pin)'
  BY NamedAsGrows
<1> QED BY <1>1 DEF MetBy

\* Somebody asked for each of some clauses.
AllAsked(n, clauses) == \A c \in clauses : \E x \in Asked(n) : c \in x.clauses

\* A version that satisfies the combined requirement meets each that is in it.
LEMMA SatisfiesMeets ==
  ASSUME NEW pin, NEW d, NEW clauses,
         pin.version \in NamedAs(pin)',
         Satisfies(pin.version, clauses), d.clauses \subseteq clauses,
         d \in Asked(pin.name)', AllAsked(pin.name, clauses)'
  PROVE  MetBy(pin, d)'
<1>1. /\ pin.version # NoVersion
      /\ pin.version \in PreReleases => clauses = {} \/ AsksForPreRelease(clauses)
      /\ \A c \in d.clauses : SatisfiesClause(pin.version, c)
  BY DEF Satisfies
<1>2. ASSUME pin.version \in PreReleases
      PROVE  \E x \in Asked(pin.name)' : x.clauses = {} \/ AsksForPreRelease(x.clauses)
  <2>1. CASE clauses = {}
    BY <2>1
  <2>2. CASE AsksForPreRelease(clauses)
    <3>1. PICK c \in clauses : c.version \in PreReleases
      BY <2>2 DEF AsksForPreRelease
    <3>2. PICK x \in Asked(pin.name)' : c \in x.clauses
      BY <3>1 DEF AllAsked
    <3>3. AsksForPreRelease(x.clauses)
      BY <3>1, <3>2 DEF AsksForPreRelease
    <3> QED BY <3>3
  <2> QED BY <1>1, <1>2, <2>1, <2>2
<1> HIDE DEF SatisfiesClause, AsksForPreRelease
<1> QED BY <1>1, <1>2 DEF MetBy

\* A new pin is named by its commit's tag or by what was asked for.
LEMMA AddsNamed ==
  ASSUME NEW d, NEW q, NEW ds, Adds(d, q, ds), d \in Asked(d.name)'
  PROVE  q.version \in NamedAs(q)'
<1>1. /\ q.name = d.name
      /\ d.selector = "range" => q.version = VersionAt(q)
      /\ d.selector # "range" => q.commit = d.commit /\ q.version \in {d.named, VersionAt(q)}
  BY DEF Adds
<1>2. VersionAt(q)' = VersionAt(q)
  BY DEF VersionAt
<1> QED BY <1>1, <1>2 DEF NamedAs

LEMMA TakeWantedAsked ==
  ASSUME TypeOK, WantedAsked, NEW e, Notes(e),
         Checks(e.dependency) \/ \E pin, ds : Adds(e.dependency, pin, ds)
  PROVE  WantedAsked'
<1> DEFINE d == e.dependency
<1>1. /\ wanted \in [Packages -> SUBSET Clause] /\ d.name \in Packages
      /\ wanted' = [wanted EXCEPT ![d.name] = wanted[d.name] \cup d.clauses]
  BY DEF Notes, TypeOK
<1>2. (\A n : Asked(n) \subseteq Asked(n)') /\ d \in Asked(d.name)'
  BY TakeGrows
<1>3. ASSUME NEW n \in Packages, NEW c \in wanted'[n]
      PROVE  \E x \in Asked(n)' : c \in x.clauses
  <2>1. CASE c \in wanted[n]
    BY <1>2, <2>1 DEF WantedAsked
  <2>2. CASE n = d.name /\ c \in d.clauses
    BY <1>2, <2>2
  <2> QED BY <1>1, <2>1, <2>2
<1>4. ASSUME NEW pin \in Pinned' PROVE pin.version \in NamedAs(pin)'
  <2>1. CASE pin \in Pinned
    <3>1. pin.version \in NamedAs(pin)
      BY <2>1 DEF WantedAsked
    <3>2. NamedAs(pin) \subseteq NamedAs(pin)'
      BY <1>2, NamedAsGrows
    <3> QED BY <3>1, <3>2
  <2>2. CASE pin \notin Pinned
    <3>1. PICK q, ds : Adds(d, q, ds)
      BY <2>2 DEF Checks, Notes, Pinned
    <3>2. pin = q
      <4>1. Pinned' = Pinned \cup {q}
        BY <3>1, AddsOne
      <4> QED BY <2>2, <4>1
    <3>3. q.version \in NamedAs(q)'
      <4> HIDE DEF d
      <4> QED BY <1>2, <3>1, AddsNamed
    <3> QED BY <3>2, <3>3
  <2> QED BY <2>1, <2>2
<1> QED BY <1>3, <1>4 DEF WantedAsked

LEMMA TakeAskedPinned ==
  ASSUME TypeOK, OnePin, WantedAsked, AskedPinned, NEW e, Notes(e),
         Checks(e.dependency) \/ \E pin, ds : Adds(e.dependency, pin, ds)
  PROVE  AskedPinned'
<1> DEFINE d == e.dependency
<1>1. /\ Pinned \subseteq Pinned' /\ ToSet(resolved') \subseteq Pinned'
      /\ \A n : Asked(n) \subseteq Asked(n)'
      /\ d \in Asked(d.name)' /\ asked' = asked \cup {e}
      /\ d.name \in Packages
  BY TakeGrows DEF Pinned, Notes
<1>2. \A pin \in Pinned : \A x : MetBy(pin, x) => MetBy(pin, x)'
  BY <1>1, MetByGrows
<1>3. PICK pin \in ToSet(resolved') :
        /\ pin.name = d.name
        /\ d.source = "git" => pin.repo = d.repo
        /\ d.selector = "range" => MetBy(pin, d)'
  <2>1. CASE Checks(d)
    <3>0. PICK pin, combined : /\ pin = PinOf(resolved, d.name)
                               /\ combined = wanted[d.name] \cup d.clauses
      OBVIOUS
    <3>1. pin \in ToSet(resolved) /\ pin.name = d.name /\ resolved' = resolved
      BY <2>1, <3>0, PinOfIs DEF Checks
    <3>2. pin \in Pin /\ pin.repo \in Repositories
      <4>1. ToSet(resolved) \subseteq Pin
        BY SeqParts DEF TypeOK
      <4> QED BY <3>1, <4>1 DEF Pin
    <3>3. d.source = "git" => pin.repo = d.repo
      <4>1. gits[d.name] = pin.repo
        BY <3>1 DEF OnePin
      <4> QED BY <3>2, <4>1, ResolverAssumption DEF Notes, SameRepository
    <3>4. d.selector = "range" => Satisfies(pin.version, combined)
      BY <2>1, <3>0 DEF Checks, Met
    <3>5. pin.version \in NamedAs(pin)'
      <4>1. pin.version \in NamedAs(pin)
        BY <3>1 DEF WantedAsked, Pinned
      <4>2. NamedAs(pin) \subseteq NamedAs(pin)'
        BY <1>1, NamedAsGrows
      <4> QED BY <4>1, <4>2
    <3>6. \A c \in combined : \E x \in Asked(d.name)' : c \in x.clauses
      BY <1>1, <3>0 DEF WantedAsked
    <3>7. d.clauses \subseteq combined
      BY <3>0
    <3>8. d.selector = "range" => MetBy(pin, d)'
      <4> SUFFICES ASSUME Satisfies(pin.version, combined) PROVE MetBy(pin, d)'
        BY <3>4
      <4>1. d \in Asked(pin.name)'
        BY <1>1, <3>1
      <4>2. AllAsked(pin.name, combined)'
        BY <3>1, <3>6 DEF AllAsked
      <4> HIDE DEF d
      <4> QED BY <3>5, <3>7, <4>1, <4>2, SatisfiesMeets
    <3> QED BY <3>1, <3>3, <3>8
  <2>2. ASSUME NEW pin, NEW ds, Adds(d, pin, ds)
        PROVE  /\ pin \in ToSet(resolved') /\ pin.name = d.name /\ pin.repo = d.repo
               /\ d.selector = "range" => MetBy(pin, d)'
    <3>1. pin \in ToSet(resolved') /\ pin.name = d.name /\ pin.repo = d.repo
      BY <2>2, AddsOne
    <3>2. /\ pin.version \in NamedAs(pin)'
          /\ d.selector = "range" => Satisfies(pin.version, d.clauses)
      <4>1. d.selector = "range" => Satisfies(pin.version, d.clauses)
        BY <2>2 DEF Adds
      <4>2. d \in Asked(d.name)'
        BY <1>1
      <4> HIDE DEF d
      <4>3. pin.version \in NamedAs(pin)'
        BY <2>2, <4>2, AddsNamed
      <4> QED BY <4>1, <4>3
    <3>3. d \in Asked(pin.name)' /\ \A c \in d.clauses : \E x \in Asked(pin.name)' : c \in x.clauses
      BY <1>1, <3>1
    <3>4. d.selector = "range" => MetBy(pin, d)'
      <4> SUFFICES ASSUME Satisfies(pin.version, d.clauses) PROVE MetBy(pin, d)'
        BY <3>2
      <4> DEFINE clauses == d.clauses
      <4>1. d.clauses \subseteq clauses /\ Satisfies(pin.version, clauses)
        OBVIOUS
      <4>2. AllAsked(pin.name, clauses)'
        BY <3>3 DEF AllAsked
      <4> HIDE DEF d, clauses
      <4> QED BY <3>2, <3>3, <4>1, <4>2, SatisfiesMeets
    <3> QED BY <3>1, <3>4
  <2> QED BY <2>1, <2>2
<1>4. ASSUME NEW a \in asked'
      PROVE  LET x == a.dependency IN
             /\ \E q \in Pinned' : q.name = x.name
             /\ x.source = "git" => \E q \in Pinned' : q.name = x.name /\ q.repo = x.repo
             /\ x.selector = "range" =>
                  \E q \in Pinned' : q.name = x.name /\ MetBy(q, x)'
  <2>1. CASE a = e
    BY <1>1, <1>3, <2>1
  <2>2. CASE a \in asked
    BY <1>1, <1>2, <2>2 DEF AskedPinned
  <2> QED BY <1>1, <2>1, <2>2
<1> QED BY <1>4 DEF AskedPinned

LEMMA TakeNeedsPinned ==
  ASSUME TypeOK, NeedsPinned, NEW e, Notes(e),
         Checks(e.dependency) \/ \E pin, ds : Adds(e.dependency, pin, ds)
  PROVE  NeedsPinned'
<1> DEFINE d == e.dependency
           Queued == {x.dependency.name : x \in ToSet(queue)}
           Queued1 == {x.dependency.name : x \in ToSet(queue')}
<1>1. /\ ToSet(queue) = {e} \cup ToSet(Tail(queue)) /\ locked' = locked
      /\ Tail(queue) \in Seq(Entry)
      /\ \A pin \in Pinned : Needs(pin)' = Needs(pin)
      /\ ToSet(resolved) \subseteq ToSet(resolved')
  BY TakeGrows DEF Notes
<1>2. ToSet(Tail(queue)) \subseteq ToSet(queue') /\ d.name \in Names(resolved')
  <2>1. CASE Checks(d)
    BY <2>1 DEF Checks
  <2>2. ASSUME NEW pin, NEW ds, Adds(d, pin, ds)
        PROVE  ToSet(Tail(queue)) \subseteq ToSet(queue') /\ d.name \in Names(resolved')
    <3>1. ToSet(Tail(queue)) \subseteq ToSet(queue')
      BY <2>2, AddsQueue
    <3>2. pin \in ToSet(resolved') /\ pin.name = d.name
      BY <2>2, AddsOne
    <3> QED BY <3>1, <3>2 DEF Names
  <2> QED BY <2>1, <2>2
<1>3. /\ Names(resolved) \subseteq Names(resolved')
      /\ Queued \subseteq Queued1 \cup Names(resolved')
  BY <1>1, <1>2 DEF Names
<1>4. ASSUME NEW pin \in ToSet(locked') PROVE Needs(pin)' \subseteq Names(locked)'
  BY <1>1 DEF NeedsPinned, Pinned, Names
<1>5. ASSUME NEW pin \in ToSet(resolved') PROVE Needs(pin)' \subseteq Names(resolved') \cup Queued1
  <2>1. CASE pin \in ToSet(resolved)
    <3>1. Needs(pin)' = Needs(pin) /\ Needs(pin) \subseteq Names(resolved) \cup Queued
      BY <1>1, <2>1 DEF NeedsPinned, Pinned
    <3> HIDE DEF Queued, Queued1
    <3> QED BY <1>3, <3>1
  <2>2. CASE pin \notin ToSet(resolved)
    <3>1. PICK q, ds : Adds(d, q, ds)
      BY <2>2 DEF Checks
    <3>2. pin = q
      <4>1. ToSet(resolved') = ToSet(resolved) \cup {q}
        BY <3>1, AddsOne
      <4> QED BY <2>2, <4>1
    <3>3. /\ Needs(q)' = Bare(ds)
          /\ \A n \in Bare(ds) : \E x \in ToSet(queue') : x.dependency.name = n
      <4>1. /\ Needs(q)' = Bare(ds)
            /\ ToSet(queue') = ToSet(Tail(queue)) \cup ToSet(Inherited(ds, q))
            /\ \A n \in Bare(ds) : \E x \in ToSet(Inherited(ds, q)) : x.dependency.name = n
        BY <3>1, AddsQueue
      <4> QED BY <4>1
    <3> QED BY <3>2, <3>3
  <2> QED BY <2>1, <2>2
<1> QED BY <1>4, <1>5 DEF NeedsPinned, Names

LEMMA TakePinnedNeeded ==
  ASSUME TypeOK, PinnedNeeded, NEW e, Notes(e),
         Checks(e.dependency) \/ \E pin, ds : Adds(e.dependency, pin, ds)
  PROVE  PinnedNeeded'
<1> DEFINE d == e.dependency
<1>1. /\ ToSet(queue) = {e} \cup ToSet(Tail(queue)) /\ e \in ToSet(queue)
      /\ Tail(queue) \in Seq(Entry)
      /\ Pinned \subseteq Pinned' /\ ToSet(resolved) \subseteq Pinned
      /\ \A pin \in Pinned : Needs(pin)' = Needs(pin)
      /\ ToSet(resolved) \subseteq ToSet(resolved')
      /\ asked \subseteq asked' /\ e \in asked'
  BY TakeGrows DEF Notes, Pinned
<1>2. ASSUME NEW pin \in Pinned'
      PROVE  \/ \E a \in asked' : ByProject(a) /\ a.dependency.name = pin.name
             \/ \E other \in Pinned' : pin.name \in Needs(other)'
  <2>1. CASE pin \in Pinned
    BY <1>1, <2>1 DEF PinnedNeeded
  <2>2. CASE pin \notin Pinned
    <3>1. PICK q, ds : Adds(d, q, ds)
      BY <2>2 DEF Checks, Notes, Pinned
    <3>2. pin = q /\ pin.name = d.name
      BY <2>2, <3>1, AddsOne
    <3>3. \/ ByProject(e)
          \/ \E other \in ToSet(resolved) : other.name = e.by /\ d.name \in Needs(other)
      BY <1>1 DEF PinnedNeeded
    <3> QED BY <1>1, <3>2, <3>3
  <2> QED BY <2>1, <2>2
<1>3. ASSUME NEW x \in ToSet(queue')
      PROVE  \/ ByProject(x)
             \/ \E pin \in ToSet(resolved') : pin.name = x.by /\ x.dependency.name \in Needs(pin)'
  <2>1. CASE x \in ToSet(Tail(queue))
    <3>1. \/ ByProject(x)
          \/ \E pin \in ToSet(resolved) : pin.name = x.by /\ x.dependency.name \in Needs(pin)
      BY <1>1, <2>1 DEF PinnedNeeded
    <3> QED BY <1>1, <3>1
  <2>2. CASE x \notin ToSet(Tail(queue))
    <3>1. PICK q, ds : Adds(d, q, ds)
      BY <2>2 DEF Checks
    <3>2. q \in ToSet(resolved')
      BY <3>1, AddsOne
    <3>3. /\ Needs(q)' = Bare(ds)
          /\ x.by = q.name /\ x.dependency.name \in Bare(ds)
      BY <2>2, <3>1, AddsQueue
    <3> QED BY <3>2, <3>3
  <2> QED BY <2>1, <2>2
<1> QED BY <1>2, <1>3 DEF PinnedNeeded

LEMMA TakeOwnTag ==
  ASSUME TypeOK, OwnTag, NEW e, Notes(e),
         Checks(e.dependency) \/ \E pin, ds : Adds(e.dependency, pin, ds)
  PROVE  OwnTag'
<1> DEFINE d == e.dependency
<1>1. (\A n : Asked(n) \subseteq Asked(n)') /\ d \in Asked(d.name)'
  BY TakeGrows
<1>2. ASSUME NEW pin \in Pinned', \E t \in Tags[pin.repo] : Own(pin.name, t.scope),
             ~Own(pin.name, pin.commit[2])
      PROVE  \E x \in Asked(pin.name)' : x.selector # "range" /\ x.commit = pin.commit
  <2>1. CASE pin \in Pinned
    BY <1>1, <1>2, <2>1 DEF OwnTag
  <2>2. CASE pin \notin Pinned
    <3>1. PICK q, ds : Adds(d, q, ds)
      BY <2>2 DEF Checks, Notes, Pinned
    <3>2. pin = q
      <4>1. Pinned' = Pinned \cup {q}
        BY <3>1, AddsOne
      <4> QED BY <2>2, <4>1
    <3>3. pin.name = d.name /\ pin.repo = d.repo
      BY <3>1, <3>2 DEF Adds
    <3>4. d.selector # "range" /\ d.commit = pin.commit
      BY <1>2, <3>1, <3>2, <3>3 DEF Adds
    <3> QED BY <1>1, <3>3, <3>4
  <2> QED BY <2>1, <2>2
<1> QED BY <1>2 DEF OwnTag

---------------------------------------------------------------------------
(* From list to list, the merge, and errors. *)

\* In the end a name is pinned once.
OneEach == result = "ok" => Cardinality(Names(locked)) = Len(locked)

Inductive ==
    /\ TypeOK /\ OneEach
    /\ OnePin /\ AskedPinned /\ WantedAsked /\ NeedsPinned /\ PinnedNeeded

LEMMA TakeInductive ==
  ASSUME Inductive, Take
  PROVE  Inductive'
<1>1. PICK e : /\ Notes(e)
               /\ Checks(e.dependency) \/ \E pin, ds : Adds(e.dependency, pin, ds)
  BY TakeMeans DEF Inductive
<1>2. TypeOK' /\ OnePin' /\ AskedPinned' /\ WantedAsked' /\ NeedsPinned' /\ PinnedNeeded'
  BY <1>1, TakeTyped, TakeOnePin, TakeAskedPinned, TakeWantedAsked, TakeNeedsPinned,
     TakePinnedNeeded DEF Inductive
<1>3. OneEach'
  BY <1>1 DEF Notes, OneEach
<1> QED BY <1>2, <1>3 DEF Inductive

\* The pins of all lists, in one.
LEMMA AllPinned ==
  ASSUME TypeOK
  PROVE  /\ locked \o resolved \in Seq(Pin) /\ ToSet(locked \o resolved) = Pinned
         /\ ToSet(<<>>) = {}
<1>1. locked \o resolved \in Seq(Pin) /\ ToSet(locked \o resolved) = Pinned
  BY ConcatSet DEF TypeOK, Pinned
<1>2. ToSet(<<>>) = {}
  BY DEF ToSet
<1> QED BY <1>1, <1>2

LEMMA NextListInductive ==
  ASSUME Inductive, NextList
  PROVE  Inductive'
<1>1. /\ TypeOK /\ result = "none" /\ queue = <<>> /\ lists # <<>>
      /\ locked' = locked \o resolved /\ resolved' = <<>>
      /\ queue' = Roots(Head(lists)) /\ lists' = Tail(lists)
      /\ wanted' = NoneAsked /\ gits' = NoGits
      /\ UNCHANGED <<manifest, faults, result, asked>>
  BY DEF NextList, Inductive
<1>2. /\ locked' \in Seq(Pin) /\ ToSet(locked') = Pinned /\ ToSet(resolved') = {}
      /\ resolved' \in Seq(Pin) /\ Pinned' = Pinned
  BY <1>1, AllPinned, EmptySeq DEF Pinned
<1>3. /\ queue' \in Seq(Entry) /\ lists' \in Seq(List)
      /\ \A e \in ToSet(queue') : ByProject(e)
  <2>1. Head(lists) \in List /\ Tail(lists) \in Seq(List)
    BY <1>1, HeadTailProperties DEF TypeOK
  <2> QED BY <1>1, <2>1, RootsIs
<1>4. /\ wanted' \in [Packages -> SUBSET Clause] /\ \A n \in Packages : wanted'[n] = {}
      /\ gits' \in [Packages -> Repositories \cup {"none"}]
  BY <1>1 DEF NoneAsked, NoGits
<1>5. TypeOK'
  BY <1>1, <1>2, <1>3, <1>4 DEF TypeOK, Pinned
<1>6. \A pin : Needs(pin)' = Needs(pin) /\ \A d : MetBy(pin, d)' <=> MetBy(pin, d)
  BY <1>1 DEF Needs, MetBy, NamedAs, Asked, VersionAt
<1>7. OneEach' /\ OnePin'
  BY <1>1, <1>2 DEF OneEach, OnePin
<1>8. AskedPinned'
  BY <1>1, <1>2, <1>6 DEF Inductive, AskedPinned
<1>9. WantedAsked'
  <2>1. \A pin : NamedAs(pin)' = NamedAs(pin)
    BY <1>1 DEF NamedAs, Asked, VersionAt
  <2>2. \A n \in Packages : \A c \in wanted'[n] : \E d \in Asked(n)' : c \in d.clauses
    BY <1>4
  <2> QED BY <1>2, <2>1, <2>2 DEF Inductive, WantedAsked
<1>10. NeedsPinned'
  <2>1. ToSet(queue) = {} /\ Names(locked') = Names(locked) \cup Names(resolved)
    BY <1>1, <1>2, AllPinned DEF Names, Pinned
  <2>2. \A pin \in Pinned : Needs(pin) \subseteq Names(locked) \cup Names(resolved)
    BY <2>1 DEF Inductive, NeedsPinned, Pinned
  <2>3. \A pin \in ToSet(locked') : Needs(pin)' \subseteq Names(locked')
    BY <1>2, <1>6, <2>1, <2>2
  <2> QED BY <1>2, <2>3 DEF NeedsPinned, Names
<1>11. PinnedNeeded'
  BY <1>1, <1>2, <1>3, <1>6 DEF Inductive, PinnedNeeded
<1> QED BY <1>5, <1>7, <1>8, <1>9, <1>10, <1>11 DEF Inductive

\* The merge keeps, of each name, one of its pins; all of them are alike.
LEMMA MergesEffect ==
  ASSUME TypeOK, Merges
  PROVE  /\ locked' \in Seq(Pin) /\ Pinned' = ToSet(locked') /\ Pinned' \subseteq Pinned
         /\ Names(locked') = Names(locked) \cup Names(resolved)
         /\ Cardinality(Names(locked')) = Len(locked')
         /\ \A pin \in Pinned : \E q \in Pinned' :
              q.name = pin.name /\ q.repo = pin.repo /\ q.commit = pin.commit
<1> DEFINE all == locked \o resolved
<1>1. all \in Seq(Pin) /\ ToSet(all) = Pinned /\ ToSet(<<>>) = {}
  BY AllPinned
<1>2. Unique(all) /\ locked' = FirstOfEach(all) /\ resolved' = <<>>
  BY DEF Merges
<1>3. Names(all) = Names(locked) \cup Names(resolved)
  BY <1>1 DEF Names, Pinned
<1> HIDE DEF all
<1>4. /\ locked' \in Seq(Pin) /\ ToSet(locked') \subseteq ToSet(all)
      /\ Names(locked') = Names(all) /\ Cardinality(Names(locked')) = Len(locked')
  BY <1>1, <1>2, FirstOfEachIs
<1>5. Pinned' = ToSet(locked')
  BY <1>1, <1>2 DEF Pinned
<1>6. \A pin, q \in ToSet(all) :
        pin.name = q.name => pin.repo = q.repo /\ pin.commit = q.commit
  BY <1>2 DEF Unique, ToSet
<1>7. ASSUME NEW pin \in Pinned
      PROVE  \E q \in Pinned' : q.name = pin.name /\ q.repo = pin.repo /\ q.commit = pin.commit
  <2>1. pin \in ToSet(all) /\ pin.name \in Names(locked')
    BY <1>1, <1>4 DEF Names
  <2>2. PICK q \in ToSet(locked') : q.name = pin.name
    BY <2>1 DEF Names
  <2> QED BY <1>4, <1>5, <1>6, <2>1, <2>2
<1> QED BY <1>1, <1>3, <1>4, <1>5, <1>7

LEMMA MergesInductive ==
  ASSUME Inductive, Merges
  PROVE  Inductive'
<1>1. /\ TypeOK /\ result' = "ok" /\ queue = <<>> /\ resolved' = <<>>
      /\ UNCHANGED <<lists, queue, wanted, gits, manifest, faults, asked>>
  BY DEF Merges, Inductive
<1>2. /\ locked' \in Seq(Pin) /\ Pinned' = ToSet(locked') /\ Pinned' \subseteq Pinned
      /\ Names(locked') = Names(locked) \cup Names(resolved)
      /\ Cardinality(Names(locked')) = Len(locked')
      /\ \A pin \in Pinned : \E q \in Pinned' :
           q.name = pin.name /\ q.repo = pin.repo /\ q.commit = pin.commit
  BY <1>1, MergesEffect
<1>3. resolved' \in Seq(Pin) /\ ToSet(resolved') = {} /\ ToSet(queue) = {}
  BY <1>1, AllPinned, EmptySeq
<1>4. TypeOK'
  BY <1>1, <1>2, <1>3 DEF TypeOK, Pinned
<1>5. OneEach' /\ OnePin'
  BY <1>1, <1>2, <1>3 DEF OneEach, OnePin
<1>6. \A pin : Needs(pin)' = Needs(pin) /\ \A d : MetBy(pin, d)' <=> MetBy(pin, d)
  BY <1>1 DEF Needs, MetBy, NamedAs, Asked, VersionAt
<1>7. AskedPinned'
  <2>1. \A pin, q, d : pin.name = q.name /\ pin.commit = q.commit /\ MetBy(pin, d) => MetBy(q, d)
    BY DEF MetBy, NamedAs, VersionAt
  <2>2. ASSUME NEW a \in asked
        PROVE  LET x == a.dependency IN
               /\ \E q \in Pinned' : q.name = x.name
               /\ x.source = "git" => \E q \in Pinned' : q.name = x.name /\ q.repo = x.repo
               /\ x.selector = "range" =>
                    \E q \in Pinned' : q.name = x.name /\ MetBy(q, x)
    BY <1>2, <2>1 DEF Inductive, AskedPinned
  <2> QED BY <1>1, <1>6, <2>2 DEF AskedPinned
<1>8. WantedAsked'
  BY <1>1, <1>2 DEF Inductive, WantedAsked, NamedAs, Asked, VersionAt
<1>9. NeedsPinned'
  <2>1. \A pin \in Pinned : Needs(pin) \subseteq Names(locked) \cup Names(resolved)
    BY <1>3 DEF Inductive, NeedsPinned, Pinned
  <2>2. \A pin \in ToSet(locked') : Needs(pin)' \subseteq Names(locked')
    BY <1>2, <1>6, <2>1
  <2> QED BY <1>3, <2>2 DEF NeedsPinned, Names
<1>10. PinnedNeeded'
  <2>1. \A other \in Pinned : \E q \in Pinned' : Needs(q) = Needs(other)
    BY <1>2 DEF Needs
  <2>2. \A pin \in Pinned' :
          \/ \E a \in asked : ByProject(a) /\ a.dependency.name = pin.name
          \/ \E q \in Pinned' : pin.name \in Needs(q)'
    BY <1>2, <1>6, <2>1 DEF Inductive, PinnedNeeded
  <2> QED BY <1>1, <1>3, <2>2 DEF PinnedNeeded
<1> QED BY <1>4, <1>5, <1>7, <1>8, <1>9, <1>10 DEF Inductive

LEMMA RefusesInductive ==
  ASSUME Inductive, Refuses
  PROVE  Inductive'
<1>1. UNCHANGED <<lists, queue, resolved, wanted, gits, locked, manifest, asked>>
      /\ result' = "error" /\ faults' \in 0 .. MaxFaults
  BY DEF Refuses
<1>2. TypeOK' /\ OneEach' /\ OnePin'
  BY <1>1 DEF Inductive, TypeOK, OneEach, OnePin
<1>3. Pinned' = Pinned /\ \A pin : Needs(pin)' = Needs(pin) /\ \A d : MetBy(pin, d)' <=> MetBy(pin, d)
  BY <1>1 DEF Pinned, Needs, MetBy, NamedAs, Asked, VersionAt
<1>4. AskedPinned'
  BY <1>1, <1>3 DEF Inductive, AskedPinned
<1>5. WantedAsked' /\ NeedsPinned' /\ PinnedNeeded'
  BY <1>1, <1>3 DEF Inductive, WantedAsked, NeedsPinned, PinnedNeeded, Names, NamedAs, Asked, VersionAt
<1> QED BY <1>2, <1>4, <1>5 DEF Inductive

LEMMA IdleInductive ==
  ASSUME Inductive, UNCHANGED vars
  PROVE  Inductive'
<1>1. UNCHANGED <<lists, queue, resolved, wanted, gits, locked, manifest, faults, result, asked>>
  BY DEF vars
<1>2. TypeOK' /\ OneEach' /\ OnePin'
  BY <1>1 DEF Inductive, TypeOK, OneEach, OnePin
<1>3. Pinned' = Pinned /\ \A pin : Needs(pin)' = Needs(pin) /\ \A d : MetBy(pin, d)' <=> MetBy(pin, d)
  BY <1>1 DEF Pinned, Needs, MetBy, NamedAs, Asked, VersionAt
<1>4. AskedPinned'
  BY <1>1, <1>3 DEF Inductive, AskedPinned
<1>5. WantedAsked' /\ NeedsPinned' /\ PinnedNeeded'
  BY <1>1, <1>3 DEF Inductive, WantedAsked, NeedsPinned, PinnedNeeded, Names, NamedAs, Asked, VersionAt
<1> QED BY <1>2, <1>4, <1>5 DEF Inductive

LEMMA InitInductive ==
  ASSUME Init
  PROVE  Inductive /\ OwnTag
<1>1. PICK all \in RootLists : queue = Roots(Head(all)) /\ lists = Tail(all)
  BY DEF Init
<1>2. /\ resolved = <<>> /\ locked = <<>> /\ manifest = <<>> /\ faults = 0
      /\ result = "none" /\ asked = {} /\ wanted = NoneAsked /\ gits = NoGits
  BY DEF Init
<1>3. all \in Seq(List) /\ all # <<>>
  BY ResolverAssumption
<1>4. /\ lists \in Seq(List) /\ queue \in Seq(Entry)
      /\ \A e \in ToSet(queue) : ByProject(e)
  BY <1>1, <1>3, HeadTailProperties, RootsIs
<1>5. /\ resolved \in Seq(Pin) /\ locked \in Seq(Pin) /\ DOMAIN manifest = {}
      /\ ToSet(resolved) = {} /\ ToSet(locked) = {} /\ Pinned = {}
      /\ DOMAIN resolved = {}
  BY <1>2, EmptySeq DEF ToSet, Pinned
<1>6. /\ wanted \in [Packages -> SUBSET Clause] /\ \A n \in Packages : wanted[n] = {}
      /\ gits \in [Packages -> Repositories \cup {"none"}]
  BY <1>2 DEF NoneAsked, NoGits
<1>7. TypeOK
  BY <1>2, <1>4, <1>5, <1>6, ResolverAssumption DEF TypeOK
<1>8. OneEach /\ OnePin /\ AskedPinned
  BY <1>2, <1>5 DEF OneEach, OnePin, AskedPinned
<1>9. WantedAsked /\ NeedsPinned /\ PinnedNeeded /\ OwnTag
  BY <1>4, <1>5, <1>6 DEF WantedAsked, NeedsPinned, PinnedNeeded, OwnTag
<1> QED BY <1>7, <1>8, <1>9 DEF Inductive

LEMMA StepInductive ==
  ASSUME Inductive, [Next]_vars
  PROVE  Inductive'
<1>1. CASE UNCHANGED vars
  BY <1>1, IdleInductive
<1>2. CASE Next
  <2>1. Take \/ Refuses \/ NextList \/ Merges
    BY <1>2, NextMeans DEF Inductive
  <2> QED BY <2>1, TakeInductive, RefusesInductive, NextListInductive, MergesInductive
<1> QED BY <1>1, <1>2

\* Only a new pin can be at a commit that is not tagged as the package's own.
LEMMA StepOwnTag ==
  ASSUME Inductive, OwnTag, [Next]_vars
  PROVE  OwnTag'
<1>1. ASSUME Pinned' \subseteq Pinned, asked' = asked PROVE OwnTag'
  <2>1. \A n : Asked(n)' = Asked(n)
    BY <1>1 DEF Asked
  <2> QED BY <1>1, <2>1 DEF OwnTag
<1>2. CASE UNCHANGED vars
  BY <1>1, <1>2 DEF vars, Pinned
<1>3. CASE Next
  <2>1. Take \/ Refuses \/ NextList \/ Merges
    BY <1>3, NextMeans DEF Inductive
  <2>2. CASE Take
    <3>1. PICK e : /\ Notes(e)
                   /\ Checks(e.dependency) \/ \E pin, ds : Adds(e.dependency, pin, ds)
      BY <2>2, TakeMeans DEF Inductive
    <3> QED BY <3>1, TakeOwnTag DEF Inductive
  <2>3. CASE Refuses
    BY <1>1, <2>3 DEF Refuses, Pinned
  <2>4. CASE NextList
    <3>1. Pinned' = Pinned
      BY <2>4, AllPinned DEF Inductive, NextList, Pinned
    <3> QED BY <1>1, <2>4, <3>1 DEF NextList
  <2>5. CASE Merges
    <3>1. Pinned' \subseteq Pinned
      BY <2>5, MergesEffect DEF Inductive
    <3> QED BY <1>1, <2>5, <3>1 DEF Merges
  <2> QED BY <2>1, <2>2, <2>3, <2>4, <2>5
<1> QED BY <1>2, <1>3

---------------------------------------------------------------------------
(* What is locked in the end. *)

\* As many names as pins: no two pins have one name.
LEMMA LockedOnce ==
  ASSUME TypeOK, Cardinality(Names(locked)) = Len(locked)
  PROVE  \A pin, other \in ToSet(locked) : pin.name = other.name => pin = other
<1> DEFINE n == Len(locked)
           f == [i \in 1 .. n |-> locked[i].name]
<1>1. n \in Nat /\ DOMAIN locked = 1 .. n
  BY LenProperties DEF TypeOK
<1>2. f \in Surjection(1 .. n, Names(locked)) /\ DOMAIN f = 1 .. n
  <2>1. f \in [1 .. n -> Names(locked)]
    BY <1>1 DEF Names, ToSet
  <2>2. \A x \in Names(locked) : \E i \in 1 .. n : f[i] = x
    BY <1>1 DEF Names, ToSet
  <2> HIDE DEF f
  <2> QED BY <2>1, <2>2 DEF Surjection
<1>3. IsFiniteSet(1 .. n) /\ Cardinality(1 .. n) = n
  <2> HIDE DEF n
  <2>1. 1 \in Int /\ n \in Int
    BY <1>1
  <2>2. IsFiniteSet(1 .. n) /\ Cardinality(1 .. n) = IF 1 > n THEN 0 ELSE n - 1 + 1
    BY <2>1, FS_Interval
  <2> QED BY <1>1, <2>2
<1>4. f \in Injection(1 .. n, Names(locked))
  <2>1. Cardinality(1 .. n) = Cardinality(Names(locked))
    BY <1>3
  <2> HIDE DEF f, n
  <2> QED BY <1>2, <1>3, <2>1, FS_SurjSameCardinalityImpliesInj
<1>5. \A i, j \in 1 .. n : locked[i].name = locked[j].name => i = j
  <2>1. \A i, j \in 1 .. n : f[i] = f[j] => i = j
    <3> HIDE DEF f
    <3> QED BY <1>2, <1>4 DEF Injection, IsInjective
  <2> QED BY <2>1
<1> QED BY <1>1, <1>5 DEF ToSet

LEMMA EndsRight ==
  ASSUME Inductive
  PROVE  OnePackage /\ Closed /\ RangesMet
<1> SUFFICES ASSUME result = "ok" PROVE OnePackage /\ Closed /\ RangesMet
  BY DEF OnePackage, Closed, RangesMet
<1>1. /\ TypeOK /\ queue = <<>> /\ resolved = <<>>
      /\ Cardinality(Names(locked)) = Len(locked)
  BY DEF Inductive, OnePin, OneEach
<1>2. Pinned = ToSet(locked) /\ ToSet(queue) = {} /\ ToSet(resolved) = {}
  BY <1>1, AllPinned DEF Pinned
<1>3. \A pin, other \in Pinned : pin.name = other.name => pin = other
  BY <1>1, <1>2, LockedOnce
<1>4. \A n : \A d \in Asked(n) : d.name = n /\ \E a \in asked : a.dependency = d
  BY DEF Asked
<1>5. ASSUME NEW pin \in Pinned, NEW d \in Asked(pin.name)
      PROVE  /\ d.source = "git" => d.repo = pin.repo
             /\ d.selector = "range" => MetBy(pin, d)
  <2>1. PICK a \in asked : a.dependency = d /\ d.name = pin.name
    BY <1>4
  <2>2. /\ d.source = "git" => \E q \in Pinned : q.name = d.name /\ q.repo = d.repo
        /\ d.selector = "range" => \E q \in Pinned : q.name = d.name /\ MetBy(q, d)
    BY <2>1 DEF Inductive, AskedPinned
  <2> QED BY <1>3, <2>1, <2>2
<1>6. OnePackage
  BY <1>1, <1>2, <1>5 DEF OnePackage
<1>7. RangesMet
  BY <1>2, <1>5 DEF RangesMet
<1>8. Closed
  <2> DEFINE roots == {a.dependency.name : a \in {a \in asked : ByProject(a)}}
             needs == UNION {Needs(pin) : pin \in ToSet(locked)}
  <2>1. Names(locked) \subseteq roots \cup needs
    BY <1>2 DEF Inductive, PinnedNeeded, Names
  <2>2. roots \subseteq Names(locked)
    BY <1>2 DEF Inductive, AskedPinned, Names
  <2>3. needs \subseteq Names(locked)
    BY <1>2 DEF Inductive, NeedsPinned
  <2> QED BY <2>1, <2>2, <2>3 DEF Closed
<1> QED BY <1>6, <1>7, <1>8

\* What the runs check of Resolver, for any packages, tags, offers and lists.
LEMMA AlwaysInductive == Spec => [](Inductive /\ OwnTag)
<1>1. Init => Inductive /\ OwnTag
  BY InitInductive
<1>2. Inductive /\ OwnTag /\ [Next]_vars => (Inductive /\ OwnTag)'
  BY StepInductive, StepOwnTag
<1> QED BY <1>1, <1>2, PTL DEF Spec

\* In the end the graph is closed, one package stands under each name and no
\* other repository was asked for it; on the way nothing that was asked is lost.
THEOREM AlwaysConsistent == Spec => []Consistent
<1>1. Inductive => Consistent
  BY EndsRight DEF Inductive, Consistent
<1> QED BY <1>1, AlwaysInductive, PTL

\* Every range anybody asked for is met, in whichever order they asked, by what
\* the pinned commit is tagged as or was asked for as.
THEOREM EveryRangeIsMet == Spec => []RangesMet
<1>1. Inductive => RangesMet
  BY EndsRight
<1> QED BY <1>1, AlwaysInductive, PTL

\* A package with tags that count as its own is at another commit only when that
\* very commit was asked for.
THEOREM TagsAreOwn == Spec => []OwnTag
BY AlwaysInductive, PTL

---------------------------------------------------------------------------
(* The order of versions and what a requirement asks, for every version. *)

V == INSTANCE Semver

\* Every channel has a rank.
LEMMA RankTyped == \A c \in V!Channels : V!ChannelRank[c] \in Nat
BY DEF V!Channels, V!ChannelRank

\* The comparison, as one comparison of ranks and numbers.
LEMMA CompareMeans ==
    ASSUME NEW a \in V!Version, NEW b \in V!Version
    PROVE  LET ra == V!ChannelRank[a.channel]
               rb == V!ChannelRank[b.channel]
           IN  /\ V!Compare(a, b) \in {"Less", "Greater", "Equal"}
               /\ V!Compare(a, b) = "Less" <=>
                    \/ a.major < b.major
                    \/ a.major = b.major /\ a.minor < b.minor
                    \/ /\ a.major = b.major /\ a.minor = b.minor
                       /\ \/ a.patch < b.patch
                          \/ /\ a.patch = b.patch /\ ~a.stable
                             /\ b.stable \/ ra < rb \/ (ra = rb /\ a.number < b.number)
               /\ V!Compare(a, b) = "Equal" <=>
                    /\ a.major = b.major /\ a.minor = b.minor /\ a.patch = b.patch
                    /\ a.stable = b.stable
                    /\ a.stable \/ (ra = rb /\ a.number = b.number)
<1>1. V!ChannelRank[a.channel] \in Nat /\ V!ChannelRank[b.channel] \in Nat
  BY RankTyped DEF V!Version
<1>2. /\ a.major \in Nat /\ a.minor \in Nat /\ a.patch \in Nat /\ a.number \in Nat
      /\ b.major \in Nat /\ b.minor \in Nat /\ b.patch \in Nat /\ b.number \in Nat
      /\ a.stable \in BOOLEAN /\ b.stable \in BOOLEAN
  BY DEF V!Version
<1> QED BY <1>1, <1>2 DEF V!Compare, V!ComparePreRelease, V!Order

\* To compare two versions the other way round gives the opposite answer.
THEOREM CompareMirrors ==
    ASSUME NEW a \in V!Version, NEW b \in V!Version
    PROVE  /\ V!Compare(a, b) = "Less" <=> V!Compare(b, a) = "Greater"
           /\ V!Compare(a, b) = "Equal" <=> V!Compare(b, a) = "Equal"
<1>1. V!ChannelRank[a.channel] \in Nat /\ V!ChannelRank[b.channel] \in Nat
  BY RankTyped DEF V!Version
<1> QED BY <1>1, CompareMeans DEF V!Version

\* Nor does it run in a circle: what is not above something that is not above
\* a third is not above the third.
THEOREM CompareTransitive ==
    ASSUME NEW a \in V!Version, NEW b \in V!Version, NEW c \in V!Version,
           V!Compare(a, b) # "Greater", V!Compare(b, c) # "Greater"
    PROVE  /\ V!Compare(a, c) # "Greater"
           /\ V!Compare(a, b) = "Less" \/ V!Compare(b, c) = "Less" => V!Compare(a, c) = "Less"
           /\ V!Compare(a, b) = "Equal" /\ V!Compare(b, c) = "Equal" => V!Compare(a, c) = "Equal"
<1>1. /\ V!ChannelRank[a.channel] \in Nat /\ V!ChannelRank[b.channel] \in Nat
      /\ V!ChannelRank[c.channel] \in Nat
  BY RankTyped DEF V!Version
<1>2. /\ V!Compare(a, b) \in {"Less", "Equal"} /\ V!Compare(b, c) \in {"Less", "Equal"}
  BY CompareMeans
<1>3. CASE V!Compare(a, b) = "Equal" /\ V!Compare(b, c) = "Equal"
  <2>1. V!Compare(a, c) = "Equal"
    BY <1>3, CompareMeans
  <2> QED BY <1>3, <2>1
<1>4. CASE V!Compare(a, b) = "Less" \/ V!Compare(b, c) = "Less"
  <2>1. V!Compare(a, c) = "Less"
    BY <1>1, <1>2, <1>4, CompareMeans DEF V!Version
  <2> QED BY <1>4, <2>1
<1> QED BY <1>2, <1>3, <1>4

\* newer? is what sort needs of a comparator: never both ways, never of a tag
\* and itself, transitive, and so is being neither newer nor older.  Sorting
\* tags by it therefore puts no tag behind one that is older.
THEOREM NewerSorts ==
    ASSUME NEW s \in V!Text, NEW t \in V!Text, NEW u \in V!Text
    PROVE  /\ ~V!Newer(s, s)
           /\ V!Newer(s, t) => ~V!Newer(t, s)
           /\ V!Newer(s, t) /\ V!Newer(t, u) => V!Newer(s, u)
           /\ ~V!Newer(s, t) /\ ~V!Newer(t, u) => ~V!Newer(s, u)
<1>1. s.version \in V!Version /\ t.version \in V!Version /\ u.version \in V!Version
  BY DEF V!Text
<1>2. \A v, w \in V!Version :
        /\ V!Compare(v, w) \in {"Less", "Greater", "Equal"}
        /\ V!Compare(v, w) = "Less" <=> V!Compare(w, v) = "Greater"
        /\ V!Compare(v, w) = "Equal" <=> V!Compare(w, v) = "Equal"
  BY CompareMeans, CompareMirrors
<1>3. \A v, w, x \in V!Version :
        V!Compare(v, w) # "Greater" /\ V!Compare(w, x) # "Greater" => V!Compare(v, x) # "Greater"
  BY CompareTransitive
<1>4. \A v \in V!Version : V!Compare(v, v) = "Equal"
  BY CompareMeans
<1>5. ~V!Newer(s, s)
  BY <1>1, <1>4 DEF V!Newer
<1>6. V!Newer(s, t) => ~V!Newer(t, s)
  BY <1>1, <1>2 DEF V!Newer
<1>7. ~V!Newer(s, t) /\ ~V!Newer(t, u) => ~V!Newer(s, u)
  BY <1>1, <1>3 DEF V!Newer
<1>8. V!Newer(s, t) /\ V!Newer(t, u) => V!Newer(s, u)
  <2>1. SUFFICES ASSUME V!Newer(s, t), V!Newer(t, u), u.parses
                 PROVE  V!Compare(s.version, u.version) = "Greater"
    BY DEF V!Newer
  <2>2. V!Compare(u.version, t.version) = "Less" /\ V!Compare(t.version, s.version) = "Less"
    BY <1>1, <1>2, <2>1 DEF V!Newer
  <2>3. V!Compare(u.version, s.version) = "Less"
    BY <1>1, <2>2, CompareTransitive
  <2> QED BY <1>1, <1>2, <2>3
<1> QED BY <1>5, <1>6, <1>7, <1>8

\* Two versions that compare as equal are not told apart by any requirement.
THEOREM EqualsSatisfyAlike ==
    ASSUME NEW s \in V!Text, NEW t \in V!Text, NEW cs \in SUBSET V!Clause,
           s.parses, t.parses, V!Compare(s.version, t.version) = "Equal"
    PROVE  V!Satisfies(s, cs) <=> V!Satisfies(t, cs)
<1>1. s.version \in V!Version /\ t.version \in V!Version
  BY DEF V!Text
<1>2. /\ s.version.stable = t.version.stable
      /\ s.version.major = t.version.major /\ s.version.minor = t.version.minor
  BY <1>1, CompareMeans
<1>3. ASSUME NEW c \in cs
      PROVE  V!SatisfiesClause(s.version, c) <=> V!SatisfiesClause(t.version, c)
  <2>1. c \in V!Clause /\ c.wanted.version \in V!Version
    BY DEF V!Clause, V!Text
  <2>2. V!Compare(s.version, c.wanted.version) = V!Compare(t.version, c.wanted.version)
    BY <1>1, <2>1, CompareMeans, CompareMirrors, CompareTransitive
  <2> QED BY <1>2, <2>2 DEF V!SatisfiesClause, V!SameMinor
<1> QED BY <1>2, <1>3 DEF V!Satisfies

\* A requirement has no holes: between two versions that satisfy it, every
\* release does, and every pre-release too if one is asked for.
THEOREM NoHoles ==
    ASSUME NEW s \in V!Text, NEW t \in V!Text, NEW u \in V!Text, NEW cs \in SUBSET V!Clause,
           V!Satisfies(s, cs), V!Satisfies(u, cs), t.parses,
           V!Compare(s.version, t.version) # "Greater",
           V!Compare(t.version, u.version) # "Greater",
           t.version.stable \/ V!AsksForPreRelease(cs)
    PROVE  V!Satisfies(t, cs)
<1>1. s.version \in V!Version /\ t.version \in V!Version /\ u.version \in V!Version
  BY DEF V!Text
<1>2. ASSUME NEW c \in cs PROVE V!SatisfiesClause(t.version, c)
  <2> DEFINE w == c.wanted.version
  <2>1. c \in V!Clause /\ w \in V!Version /\ c.wanted.parses
    BY <1>2 DEF V!Clause, V!Text, V!Satisfies, V!SatisfiesClause
  <2>2. V!SatisfiesClause(s.version, c) /\ V!SatisfiesClause(u.version, c)
    BY DEF V!Satisfies
  <2>3. /\ V!Compare(s.version, w) # "Less" => V!Compare(t.version, w) # "Less"
        /\ V!Compare(s.version, w) = "Greater" => V!Compare(t.version, w) = "Greater"
        /\ V!Compare(u.version, w) # "Greater" => V!Compare(t.version, w) # "Greater"
        /\ V!Compare(u.version, w) = "Less" => V!Compare(t.version, w) = "Less"
    <3> HIDE DEF w
    <3>1. \A v, x \in V!Version :
            /\ V!Compare(v, x) \in {"Less", "Greater", "Equal"}
            /\ V!Compare(v, x) = "Less" <=> V!Compare(x, v) = "Greater"
      BY CompareMeans, CompareMirrors
    <3> QED BY <1>1, <2>1, <3>1, CompareTransitive
  <2>4. /\ s.version.major = w.major /\ u.version.major = w.major
             => t.version.major = w.major
        /\ V!SameMinor(s.version, w) /\ V!SameMinor(u.version, w) => V!SameMinor(t.version, w)
    <3>1. \A v, x \in V!Version : V!Compare(v, x) # "Greater" =>
            v.major <= x.major /\ (v.major = x.major => v.minor <= x.minor)
      BY CompareMeans DEF V!Version
    <3>2. /\ s.version.major <= t.version.major /\ t.version.major <= u.version.major
          /\ s.version.major = t.version.major => s.version.minor <= t.version.minor
          /\ t.version.major = u.version.major => t.version.minor <= u.version.minor
      BY <1>1, <3>1
    <3> QED BY <1>1, <2>1, <3>2 DEF V!Version, V!SameMinor
  <2>5. V!Compare(t.version, w) \in {"Less", "Greater", "Equal"}
        /\ V!Compare(s.version, w) \in {"Less", "Greater", "Equal"}
        /\ V!Compare(u.version, w) \in {"Less", "Greater", "Equal"}
    BY <1>1, <2>1, CompareMeans
  <2> HIDE DEF w
  <2> QED BY <2>1, <2>2, <2>3, <2>4, <2>5 DEF V!SatisfiesClause, w
<1> QED BY <1>2 DEF V!Satisfies

\* Both requirements together ask a release for both, and a pre-release for no
\* less: what satisfies each satisfies both.
THEOREM IntersectIsBoth ==
    ASSUME NEW t \in V!Text, NEW a \in SUBSET V!Clause, NEW b \in SUBSET V!Clause
    PROVE  /\ V!Satisfies(t, a) /\ V!Satisfies(t, b) => V!Satisfies(t, V!Intersect(a, b))
           /\ t.version.stable /\ V!Satisfies(t, V!Intersect(a, b))
                => V!Satisfies(t, a) /\ V!Satisfies(t, b)
BY DEF V!Satisfies, V!Intersect, V!AsksForPreRelease
=============================================================================
