--------------------------- MODULE WebSocketProofs ---------------------------
(***************************************************************************)
(* What TLAPS proves of WebSocket, for any holders of the connection and   *)
(* any number of calls, messages and pings: the pending request has a      *)
(* caller and the socket is listened to, and with one reader no receive is *)
(* forgotten.                                                              *)
(***************************************************************************)
EXTENDS WebSocket, SequenceTheorems, FiniteSetTheorems, WellFoundedInduction, TLAPS

Letters == [tag : Tags, request : Requests, frames : Seq(Frames)]
Calls == [op : {"none", "send", "close"} \cup Receives, ref : 0 .. MaxCalls]

(***************************************************************************)
(* Types.                                                                  *)
(***************************************************************************)

\* A request is its caller and its number.
LEMMA RequestParts ==
  /\ \A p \in Requests : p.from \in Holders /\ p.ref \in 0 .. MaxCalls
                         /\ p = Request(p.from, p.ref)
  /\ \A x, r, y, s : Request(x, r) = Request(y, s) => x = y /\ r = s
  /\ \A x \in Holders, r \in 0 .. MaxCalls :
       Request(x, r) \in Requests /\ Request(x, r).from = x /\ Request(x, r).ref = r
  /\ NoRequest \in Requests /\ NoRequest.ref = 0
<1>1. Handler \in Holders /\ 0 \in 0 .. MaxCalls
  BY WebSocketAssumption DEF Holders
<1> QED BY <1>1 DEF Requests, Request, NoRequest

\* The parts of a letter.
LEMMA LetterParts ==
  /\ \A t, p, f : /\ Letter(t, p, f).tag = t
                  /\ Letter(t, p, f).request = p
                  /\ Letter(t, p, f).frames = f
  /\ \A t \in Tags, p \in Requests, f \in Seq(Frames) : Letter(t, p, f) \in Letters
  /\ \A m \in Letters : m.tag \in Tags /\ m.request \in Requests /\ m.frames \in Seq(Frames)
  /\ <<>> \in Seq(Frames)
  BY DEF Letter, Letters

\* An appended element is the last; the others stay where they are.
LEMMA AppendKeeps ==
  ASSUME NEW S, NEW s \in Seq(S), NEW e \in S
  PROVE  /\ Append(s, e) \in Seq(S)
         /\ DOMAIN s = 1 .. Len(s) /\ Len(s) \in Nat
         /\ DOMAIN Append(s, e) = DOMAIN s \cup {Len(s) + 1}
         /\ Len(s) + 1 \notin DOMAIN s
         /\ \A j \in DOMAIN s : Append(s, e)[j] = s[j]
         /\ Append(s, e)[Len(s) + 1] = e
  BY LenProperties

\* The head is gone, the others have moved up.
LEMMA TailKeeps ==
  ASSUME NEW S, NEW s \in Seq(S), s # <<>>
  PROVE  /\ Tail(s) \in Seq(S)
         /\ 1 \in DOMAIN s /\ s[1] = Head(s) /\ Head(s) \in S
         /\ DOMAIN s \subseteq Nat
         /\ \A j \in DOMAIN Tail(s) : j + 1 \in DOMAIN s /\ j \in Nat /\ j # 0
                                      /\ Tail(s)[j] = s[j + 1]
         /\ \A k \in DOMAIN s : k # 1 => k - 1 \in DOMAIN Tail(s) /\ Tail(s)[k - 1] = s[k]
<1>1. Len(s) \in Nat /\ Len(s) >= 1 /\ DOMAIN s = 1 .. Len(s)
  BY EmptySeq, LenProperties
<1>2. /\ Tail(s) \in Seq(S) /\ Head(s) \in S
      /\ Len(Tail(s)) = Len(s) - 1
      /\ \A i \in 1 .. Len(Tail(s)) : Tail(s)[i] = s[i + 1]
  BY HeadTailProperties
<1>3. DOMAIN Tail(s) = 1 .. (Len(s) - 1)
  BY <1>2, LenProperties
<1> QED BY <1>1, <1>2, <1>3

\* What holds of 0, and of i + 1 whenever of i, holds of all numbers to n.
LEMMA Reaches ==
  ASSUME NEW n \in Nat, NEW T, 0 \in T, \A i \in 0 .. (n - 1) : i \in T => i + 1 \in T
  PROVE  \A i \in 0 .. n : i \in T
<1> SUFFICES ASSUME NEW k \in 0 .. n, k \notin T PROVE FALSE
  OBVIOUS
<1> DEFINE Below == {0 .. i : i \in {j \in 0 .. n : j \notin T}}
<1>1. Below \subseteq FiniteSubsetsOf(Nat) /\ Below # {}
  <2>1. \A i \in 0 .. n : IsFiniteSet(0 .. i) /\ 0 .. i \subseteq Nat
    BY FS_Interval
  <2>2. 0 .. k \in Below
    OBVIOUS
  <2> QED BY <2>1, <2>2 DEF FiniteSubsetsOf
<1>2. PICK s \in Below : \A t \in Below : <<t, s>> \notin StrictSubsetOrdering(Nat)
  <2> HIDE DEF Below
  <2> QED BY <1>1, FS_StrictSubsetOrderingWellFounded, WFMin
<1>3. PICK x \in 0 .. n : x \notin T /\ s = 0 .. x
  OBVIOUS
<1>4. x # 0 /\ x - 1 \in 0 .. (n - 1) /\ (x - 1) + 1 = x
  BY <1>3
<1>5. x - 1 \notin T /\ 0 .. (x - 1) \in Below
  <2>1. x - 1 \notin T
    BY <1>3, <1>4
  <2> QED BY <1>4, <2>1
<1>6. <<0 .. (x - 1), 0 .. x>> \in StrictSubsetOrdering(Nat)
  <2>1. 0 .. (x - 1) \in SUBSET Nat /\ 0 .. x \in SUBSET Nat
    BY <1>4
  <2>2. 0 .. (x - 1) \subseteq 0 .. x /\ x \in 0 .. x /\ x \notin 0 .. (x - 1)
    BY <1>4
  <2> QED BY <2>1, <2>2 DEF StrictSubsetOrdering
<1> QED BY <1>2, <1>3, <1>5, <1>6

\* What is left of some frames, or comes first, is frames.
LEMMA SubSeqTyped ==
  ASSUME NEW S, NEW s \in Seq(S), NEW i \in Nat, NEW n \in 0 .. Len(s)
  PROVE  SubSeq(s, i + 1, n) \in Seq(S)
<1>1. \A j \in i + 1 .. n : s[j] \in S
  BY LenProperties, ElementOfSeq
<1> QED BY <1>1, LenProperties, SubSeqProperties

\* What the letters hold.
LEMMA BoxTyped ==
  ASSUME TypeOK
  PROVE  /\ box \in Seq(Letters)
         /\ \A i \in DOMAIN box : box[i] \in Letters
         /\ box # <<>> => Head(box) \in Letters
         /\ call \in [Holders -> Calls]
<1>1. box \in Seq(Letters) /\ call \in [Holders -> Calls]
  BY DEF TypeOK, Letters, Calls
<1> QED BY <1>1, LenProperties, ElementOfSeq, HeadTailProperties

\* The answers given are the ones that are meant.
LEMMA AnswerTyped ==
  ASSUME TypeOK, NEW R, Answer(R)
  PROVE  /\ call' \in [Holders -> Calls]
         /\ \A x \in Holders :
              call'[x] = IF Request(x, call[x].ref) \in R THEN Idle ELSE call[x]
<1>1. Idle \in Calls
  BY WebSocketAssumption DEF Idle, Calls
<1> QED BY <1>1, BoxTyped DEF Answer

\* The message under way has a number.
LEMMA FragmentTyped ==
  ASSUME NEW frames \in Seq(Frames), NEW i \in 0 .. Len(frames), fragment \in 0 .. MaxMessages
  PROVE  FragmentAfter(frames, i) \in 0 .. MaxMessages
<1>1. \A j \in 1 .. i : frames[j] \in Frames
  BY LenProperties, ElementOfSeq
<1>2. \A f \in Frames : f.id \in 0 .. MaxMessages
  BY WebSocketAssumption DEF Frames
<1>3. CASE \E j \in 1 .. i : frames[j].kind = "part"
  <2> DEFINE k == CHOOSE j \in 1 .. i : frames[j].kind = "part"
  <2>1. k \in 1 .. i
    BY <1>3
  <2>2. FragmentAfter(frames, i) = frames[k].id
    BY <1>3 DEF FragmentAfter
  <2> HIDE DEF k
  <2> QED BY <1>1, <1>2, <2>1, <2>2
<1>4. CASE ~ \E j \in 1 .. i : frames[j].kind = "part"
  BY <1>4 DEF FragmentAfter
<1> QED BY <1>3, <1>4

\* A read that ends, with a message or for good.
LEMMA ReadDoneTyped ==
  ASSUME TypeOK, NEW frames \in Seq(Frames), NEW p, ReadDone(frames, p)
  PROVE  /\ closed' \in BOOLEAN /\ buffer' \in Seq(Frames) /\ fragment' = 0
         /\ got' \in Seq(1 .. MaxMessages) /\ pending' = NoRequest /\ Answer({p})
         /\ UNCHANGED <<loop, timers, armed>>
<1>1. PICK i \in DOMAIN frames :
        /\ \/ /\ Completes(frames, i)
              /\ got' = IF Waits(p) THEN Append(got, frames[i].id) ELSE got
              /\ UNCHANGED closed
           \/ StopsAt(frames, i) /\ closed' = TRUE /\ UNCHANGED got
        /\ buffer' = SubSeq(frames, i + 1, Len(frames))
  BY DEF ReadDone
<1>2. i \in 1 .. Len(frames) /\ Len(frames) \in Nat /\ frames[i] \in Frames
  BY LenProperties, ElementOfSeq
<1>3. buffer' \in Seq(Frames)
  BY <1>1, <1>2, SubSeqTyped
<1>4. Completes(frames, i) => frames[i].id \in 1 .. MaxMessages
  BY <1>2 DEF Completes, Frames
<1>5. got' \in Seq(1 .. MaxMessages)
  <2>1. got \in Seq(1 .. MaxMessages)
    BY DEF TypeOK
  <2>2. CASE Completes(frames, i) /\ Waits(p) /\ got' = Append(got, frames[i].id)
    BY <2>1, <2>2, <1>4, AppendKeeps
  <2>3. CASE UNCHANGED got
    BY <2>1, <2>3
  <2> QED BY <1>1, <2>2, <2>3
<1> QED BY <1>1, <1>3, <1>5 DEF ReadDone, TypeOK

\* A read that needs more frames.
LEMMA ReadPendingTyped ==
  ASSUME TypeOK, NEW frames \in Seq(Frames), NEW p \in Requests, NEW bound,
         ReadPending(frames, p, bound)
  PROVE  /\ pending' = p /\ timers' \subseteq Requests /\ buffer' \in Seq(Frames)
         /\ fragment' \in 0 .. MaxMessages
         /\ UNCHANGED <<closed, call, got>>
<1>1. FragmentAfter(frames, Len(frames)) \in 0 .. MaxMessages
  BY FragmentTyped, LenProperties DEF TypeOK
<1>2. timers' \subseteq Requests
  BY DEF ReadPending, TypeOK
<1> QED BY <1>1, <1>2 DEF ReadPending

\* Either way what a read changes keeps its type; the process may crash.
LEMMA ReadTyped ==
  ASSUME TypeOK, NEW frames \in Seq(Frames), NEW p \in Requests, NEW bound,
         Read(frames, p, bound), UNCHANGED <<socket, netVars, handler, nextRef>>,
         box' \in Seq(Letters)
  PROVE  TypeOK'
<1>1. CASE ReadDone(frames, p)
  <2>1. /\ closed' \in BOOLEAN /\ buffer' \in Seq(Frames) /\ fragment' = 0
        /\ got' \in Seq(1 .. MaxMessages) /\ pending' = NoRequest /\ Answer({p})
        /\ UNCHANGED <<loop, timers, armed>>
    BY <1>1, ReadDoneTyped
  <2>2. call' \in [Holders -> Calls]
    BY <2>1, AnswerTyped
  <2> QED BY <2>1, <2>2, RequestParts, WebSocketAssumption
      DEF TypeOK, Letters, Calls, netVars
<1>2. CASE ReadPending(frames, p, bound) /\ Arm
  <2>1. /\ pending' = p /\ timers' \subseteq Requests /\ buffer' \in Seq(Frames)
        /\ fragment' \in 0 .. MaxMessages
        /\ UNCHANGED <<closed, call, got>>
    BY <1>2, ReadPendingTyped
  <2>2. /\ loop' \in {"running", "over", "crashed", "killed"}
        /\ armed' \in BOOLEAN /\ (armed' => socket = "open")
    BY <1>2 DEF Arm, TypeOK
  <2> QED BY <2>1, <2>2 DEF TypeOK, Letters, Calls, netVars
<1> QED BY <1>1, <1>2 DEF Read

(***************************************************************************)
(* Which steps keep the numbers of requests, the pending one and receives. *)
(***************************************************************************)

\* With one process that receives, which is also the reader of every request.
OneReader == \A x, y \in Readers : x = y

Held == OneReader => ReceiveHeld

\* What is proved inductive, apart from the types.
Core == PendingWaited /\ Numbered /\ Held

\* The loop's process is over: calls can only end.
LEMMA OverKeeps ==
  ASSUME Core, loop' # "running", UNCHANGED nextRef,
         \A x \in Holders : call'[x] \in {call[x], Idle}
  PROVE  Core'
  BY DEF Core, PendingWaited, Numbered, Held, ReceiveHeld, Receiving, Receives, Idle

\* The letters that deliver.
Brings(m) == m.tag \in {"tcp", "tcp_closed"}

\* The loop takes a letter and answers R: the letter's request, if it asks, and
\* the pending one are answered, or one of them is the pending one.
LEMMA TakenKeeps ==
  ASSUME TypeOK, Core, loop = "running", box # <<>>, box' = Tail(box), UNCHANGED nextRef,
         NEW R,
         \A x \in Holders :
            call'[x] = IF Request(x, call[x].ref) \in R THEN Idle ELSE call[x],
         \A q \in R : q = pending \/ (Asks(Head(box)) /\ q = Head(box).request),
         \/ pending' = NoRequest
         \/ pending' = pending
         \/ Head(box).tag \in Receives /\ pending' = Head(box).request,
         pending' # NoRequest => pending' \notin R,
         Head(box).tag \in Receives =>
            loop' # "running" \/ Head(box).request \in R \/ pending' = Head(box).request,
         Head(box).tag \notin Receives => pending' = pending \/ pending \in R,
         loop' = "running" /\ pending' # NoRequest =>
            armed' \/ (armed' = armed /\ ~Brings(Head(box)) /\ pending' = pending)
  PROVE  Core'
<1> DEFINE m == Head(box)
<1>1. /\ 1 \in DOMAIN box /\ box[1] = m /\ m \in Letters
      /\ DOMAIN box \subseteq Nat
      /\ \A j \in DOMAIN box' : j + 1 \in DOMAIN box /\ j \in Nat /\ j # 0 /\ box'[j] = box[j + 1]
      /\ \A k \in DOMAIN box : k # 1 => k - 1 \in DOMAIN box' /\ box'[k - 1] = box[k]
      /\ \A i \in DOMAIN box : box[i] \in Letters
  BY BoxTyped, TailKeeps
<1>2. /\ \A i \in DOMAIN box : Asks(box[i]) =>
              box[i].request.ref \in 1 .. nextRef - 1 /\ box[i].request # pending
      /\ \A i, j \in DOMAIN box :
              Asks(box[i]) /\ Asks(box[j]) /\ box[i].request = box[j].request => i = j
      /\ \A i \in DOMAIN box : box[i].tag \in Receives =>
              call[box[i].request.from] = [op |-> box[i].tag, ref |-> box[i].request.ref]
      /\ pending # NoRequest => Receiving(pending.from)
  BY DEF Core, Numbered
<1>3. \A p \in Requests : p.from \in Holders /\ p.ref \in 0 .. MaxCalls
                          /\ p = Request(p.from, p.ref)
  BY RequestParts
<1>4. \A j \in DOMAIN box' : Asks(box'[j]) => box'[j].request \notin R
  <2> SUFFICES ASSUME NEW j \in DOMAIN box', Asks(box'[j]), box'[j].request \in R
               PROVE  FALSE
    OBVIOUS
  <2>1. j + 1 \in DOMAIN box /\ j + 1 # 1 /\ box'[j] = box[j + 1]
    BY <1>1
  <2>2. box[j + 1].request # pending
    BY <1>2, <2>1
  <2>3. Asks(m) /\ box[j + 1].request = m.request
    BY <2>1, <2>2
  <2> QED BY <1>1, <1>2, <2>1, <2>3
<1> HIDE DEF m
<1>5. \A x \in Holders :
        /\ call[x].op = "none" => call[x].ref = 0
        /\ call[x].op # "none" => call[x].ref \in 1 .. nextRef - 1
        /\ Receiving(x) => x \in Readers
  BY DEF Core, Numbered
<1>6. \A x \in Holders : call'[x] = call[x] \/ (call'[x] = Idle /\ Request(x, call[x].ref) \in R)
  OBVIOUS
<1>7. \A x \in Holders :
        /\ call'[x].op = "none" => call'[x].ref = 0
        /\ call'[x].op # "none" => call'[x].ref \in 1 .. nextRef - 1
        /\ Receiving(x)' => x \in Readers /\ call'[x] = call[x]
                            /\ Request(x, call[x].ref) \notin R
  BY <1>5, <1>6 DEF Idle, Receiving, Receives
<1>8. ASSUME pending' # NoRequest
      PROVE  Receiving(pending.from)' /\ Waits(pending)'
  <2>1. CASE pending' = pending
    <3>1. pending \in Requests /\ Waits(pending) /\ Receiving(pending.from)
      BY <1>2, <1>8, <2>1 DEF Core, PendingWaited, TypeOK
    <3>2. pending.from \in Holders /\ Request(pending.from, call[pending.from].ref) = pending
      BY <1>3, <3>1 DEF Waits
    <3>3. call'[pending.from] = call[pending.from]
      BY <1>6, <1>8, <2>1, <3>2
    <3> QED BY <2>1, <3>1, <3>3 DEF Receiving, Waits
  <2>2. CASE m.tag \in Receives /\ pending' = m.request
    <3>1. /\ call[m.request.from] = [op |-> m.tag, ref |-> m.request.ref]
          /\ m.request.ref \in 1 .. nextRef - 1
      BY <1>1, <1>2, <2>2 DEF Asks
    <3>2. m.request \in Requests
      BY <1>1 DEF Letters
    <3>3. m.request.from \in Holders /\ Request(m.request.from, m.request.ref) = m.request
      BY <1>3, <3>2
    <3>4. call'[m.request.from] = call[m.request.from]
      BY <1>6, <1>8, <2>2, <3>1, <3>3
    <3> QED BY <2>2, <3>1, <3>4 DEF Receiving, Waits
  <2> QED BY <1>8, <2>1, <2>2 DEF m
<1>9. Numbered'
  <2>1. ASSUME NEW j \in DOMAIN box', Asks(box'[j])
        PROVE  box'[j].request.ref \in 1 .. nextRef - 1 /\ box'[j].request # pending'
    <3>1. j + 1 \in DOMAIN box /\ j + 1 # 1 /\ box'[j] = box[j + 1]
      BY <1>1
    <3>2. /\ box[j + 1].request.ref \in 1 .. nextRef - 1 /\ box[j + 1].request # pending
          /\ Asks(m) => box[j + 1].request # m.request
      BY <1>1, <1>2, <2>1, <3>1
    <3>3. box[j + 1].request # NoRequest
      BY <3>2, RequestParts
    <3> QED BY <3>1, <3>2, <3>3 DEF m, Asks
  <2>2. \A i, j \in DOMAIN box' :
          Asks(box'[i]) /\ Asks(box'[j]) /\ box'[i].request = box'[j].request => i = j
    BY <1>1, <1>2
  <2>3. ASSUME NEW j \in DOMAIN box', box'[j].tag \in Receives
        PROVE  call'[box'[j].request.from] = [op |-> box'[j].tag, ref |-> box'[j].request.ref]
    <3>1. j + 1 \in DOMAIN box /\ box'[j] = box[j + 1] /\ box[j + 1] \in Letters
      BY <1>1
    <3> DEFINE q == box'[j].request
    <3>2. call[q.from] = [op |-> box'[j].tag, ref |-> q.ref]
      BY <1>2, <2>3, <3>1
    <3>3. q \in Requests
      BY <3>1 DEF Letters
    <3>4. q.from \in Holders /\ Request(q.from, q.ref) = q
      BY <1>3, <3>3
    <3>5. q \notin R
      BY <1>4, <2>3 DEF Asks
    <3> HIDE DEF q
    <3>6. call'[q.from] = call[q.from]
      BY <1>6, <3>2, <3>4, <3>5
    <3> QED BY <3>2, <3>6 DEF q
  <2> QED BY <1>7, <1>8, <2>1, <2>2, <2>3 DEF Numbered
<1>10. PendingWaited'
  <2> SUFFICES ASSUME loop' = "running", pending' # NoRequest
               PROVE  armed' \/ \E i \in DOMAIN box' : Brings(box'[i])
    BY <1>8 DEF PendingWaited, Brings
  <2>1. CASE armed' = armed /\ ~Brings(m) /\ pending' = pending
    <3>1. armed \/ \E i \in DOMAIN box : Brings(box[i])
      BY <2>1 DEF Core, PendingWaited, Brings
    <3>2. ASSUME NEW i \in DOMAIN box, Brings(box[i])
          PROVE  \E j \in DOMAIN box' : Brings(box'[j])
      <4>1. i # 1
        BY <1>1, <2>1, <3>2
      <4> QED BY <1>1, <3>2, <4>1
    <3> QED BY <2>1, <3>1, <3>2
  <2> QED BY <2>1 DEF m
<1>11. Held'
  <2> SUFFICES ASSUME OneReader, loop' = "running", NEW x \in Holders, Receiving(x)'
               PROVE  Queued(Request(x, call[x].ref))' \/ pending' = Request(x, call'[x].ref)
    BY DEF Held, ReceiveHeld, OneReader
  <2>0. PICK q : q = Request(x, call[x].ref)
    OBVIOUS
  <2>1. x \in Readers /\ call'[x] = call[x] /\ q \notin R
    BY <1>7, <2>0
  <2>2. Receiving(x) /\ (Queued(q) \/ pending = q)
    BY <2>0, <2>1 DEF Core, Held, ReceiveHeld, Receiving
  <2>3. call[x].ref \in 1 .. nextRef - 1 /\ q.ref = call[x].ref /\ q # NoRequest
    BY <1>5, <2>0, <2>2, RequestParts DEF Receiving, Receives, Request
  <2>4. CASE Queued(q)
    <3>1. PICK k \in DOMAIN box : box[k].request = q /\ box[k].tag \in Receives
      BY <2>4 DEF Queued
    <3>2. CASE k = 1
      <4>1. m.request = q /\ m.tag \in Receives
        BY <1>1, <3>1, <3>2
      <4>2. pending' = q
        BY <2>1, <4>1 DEF m
      <4> QED BY <2>0, <2>1, <4>2
    <3>3. CASE k # 1
      <4>1. Queued(q)'
        BY <1>1, <3>1, <3>3 DEF Queued
      <4> QED BY <2>0, <2>1, <4>1
    <3> QED BY <3>2, <3>3
  <2>5. CASE pending = q
    <3>1. CASE m.tag \notin Receives
      <4>1. pending' = q
        BY <2>1, <2>5, <3>1 DEF m
      <4> QED BY <2>0, <2>1, <4>1
    <3>2. CASE m.tag \in Receives
      <4>1. /\ call[m.request.from] = [op |-> m.tag, ref |-> m.request.ref]
            /\ m.request # pending /\ m.request \in Requests
        BY <1>1, <1>2, <3>2 DEF Asks, Letters
      <4>2. m.request.from \in Readers /\ m.request = Request(m.request.from, m.request.ref)
        BY <1>3, <1>5, <3>2, <4>1 DEF Receiving
      <4>3. m.request.from = x
        BY <2>1, <4>2 DEF OneReader
      <4>4. m.request = Request(x, call[x].ref)
        BY <4>1, <4>2, <4>3
      <4> QED BY <2>5, <2>0, <4>1, <4>4
    <3> QED BY <3>1, <3>2
  <2> QED BY <2>2, <2>4, <2>5
<1> QED BY <1>9, <1>10, <1>11 DEF Core

\* The loop takes a letter and answers nobody; a receive becomes the pending
\* request.
LEMMA UnansweredKeeps ==
  ASSUME TypeOK, Core, loop = "running", box # <<>>, box' = Tail(box),
         UNCHANGED <<nextRef, call>>,
         IF Head(box).tag \in Receives THEN pending' = Head(box).request
                                       ELSE pending' = pending,
         loop' = "running" /\ pending' # NoRequest =>
            armed' \/ (armed' = armed /\ ~Brings(Head(box)) /\ pending' = pending)
  PROVE  Core'
<1>1. PICK R : R = {}
  OBVIOUS
<1>2. /\ \A x \in Holders :
           call'[x] = IF Request(x, call[x].ref) \in R THEN Idle ELSE call[x]
      /\ \A q \in R : q = pending \/ (Asks(Head(box)) /\ q = Head(box).request)
      /\ pending' \notin R
  BY <1>1
<1>3. /\ \/ pending' = NoRequest
         \/ pending' = pending
         \/ Head(box).tag \in Receives /\ pending' = Head(box).request
      /\ Head(box).tag \in Receives => pending' = Head(box).request
      /\ Head(box).tag \notin Receives => pending' = pending
  OBVIOUS
<1> QED BY <1>2, <1>3, TakenKeeps

\* A letter that asks nothing is appended.
LEMMA AppendedKeeps ==
  ASSUME TypeOK, Core, NEW m \in Letters, ~Asks(m), box' = Append(box, m),
         UNCHANGED <<loop, pending, call, nextRef>>,
         armed' = armed \/ Brings(m)
  PROVE  Core'
<1>1. /\ DOMAIN box' = DOMAIN box \cup {Len(box) + 1}
      /\ \A j \in DOMAIN box : box'[j] = box[j]
      /\ box'[Len(box) + 1] = m
  BY BoxTyped, AppendKeeps
<1>2. m.tag \notin Receives
  BY DEF Asks
<1>3. Numbered'
  BY <1>1, <1>2 DEF Core, Numbered, Receiving
<1>4. PendingWaited'
  BY <1>1 DEF Core, PendingWaited, Waits, Brings
<1>5. Held'
  BY <1>1 DEF Core, Held, ReceiveHeld, Receiving, Queued, OneReader
<1> QED BY <1>3, <1>4, <1>5 DEF Core

\* Nothing the invariant speaks of changes.
LEMMA SameKeeps ==
  ASSUME Core, UNCHANGED <<loop, box, pending, call, nextRef, armed>>
  PROVE  Core'
<1>1. Numbered'
  BY DEF Core, Numbered, Receiving
<1>2. PendingWaited'
  BY DEF Core, PendingWaited, Waits
<1>3. Held'
  BY DEF Core, Held, ReceiveHeld, Receiving, Queued, OneReader
<1> QED BY <1>1, <1>2, <1>3 DEF Core

\* A call is made with a number of its own.
LEMMA AskKeeps ==
  ASSUME TypeOK, Core, NEW x \in Holders, NEW op \in {"send", "close"} \cup Receives, Ask(x, op)
  PROVE  Core'
<1> DEFINE p == Request(x, nextRef)
<1>1. /\ call[x] = Idle /\ (op \in Receives => x \in Readers) /\ loop = "running"
      /\ nextRef \in Ref /\ nextRef' = nextRef + 1
      /\ call' = [call EXCEPT ![x] = [op |-> op, ref |-> nextRef]]
      /\ box' = Append(box, Letter(op, p, <<>>))
      /\ UNCHANGED <<loop, pending, armed>>
  BY DEF Ask, loopVars
<1>2. nextRef \in Nat /\ nextRef >= 1 /\ nextRef \in 0 .. MaxCalls
  BY <1>1, WebSocketAssumption DEF Ref
<1>3. /\ p \in Requests /\ p.from = x /\ p.ref = nextRef
      /\ Letter(op, p, <<>>) \in Letters
      /\ Letter(op, p, <<>>).tag = op /\ Letter(op, p, <<>>).request = p
  <2>1. p \in Requests /\ p.from = x /\ p.ref = nextRef
    BY <1>2, RequestParts
  <2>2. op \in Tags
    BY DEF Tags, Receives
  <2> HIDE DEF p
  <2>3. Letter(op, p, <<>>).tag = op /\ Letter(op, p, <<>>).request = p
    BY DEF Letter
  <2>4. Letter(op, p, <<>>) \in Letters
    BY <2>1, <2>2 DEF Letter, Letters
  <2> QED BY <2>1, <2>3, <2>4
<1>4. /\ DOMAIN box' = DOMAIN box \cup {Len(box) + 1}
      /\ Len(box) + 1 \notin DOMAIN box
      /\ \A j \in DOMAIN box : box'[j] = box[j]
      /\ box'[Len(box) + 1] = Letter(op, p, <<>>)
  BY <1>1, <1>3, BoxTyped, AppendKeeps
<1>5. /\ \A y \in Holders : call'[y] = IF y = x THEN [op |-> op, ref |-> nextRef] ELSE call[y]
      /\ Idle.op = "none" /\ op # "none"
  BY <1>1, BoxTyped DEF Idle, Receives
<1>6. /\ \A i \in DOMAIN box : Asks(box[i]) =>
              box[i].request.ref \in 1 .. nextRef - 1 /\ box[i].request # pending
      /\ \A i, j \in DOMAIN box :
              Asks(box[i]) /\ Asks(box[j]) /\ box[i].request = box[j].request => i = j
      /\ \A i \in DOMAIN box : box[i].tag \in Receives =>
              call[box[i].request.from] = [op |-> box[i].tag, ref |-> box[i].request.ref]
      /\ pending # NoRequest => Receiving(pending.from)
  BY <1>1 DEF Core, Numbered
<1>7. pending # NoRequest =>
        /\ pending.from \in Holders /\ pending.from # x
        /\ Waits(pending) /\ pending.ref \in 1 .. nextRef - 1
  <2> SUFFICES ASSUME pending # NoRequest
               PROVE  /\ pending.from \in Holders /\ pending.from # x
                      /\ Waits(pending) /\ pending.ref \in 1 .. nextRef - 1
    OBVIOUS
  <2>1. pending.from \in Holders /\ Waits(pending)
    BY <1>1, RequestParts DEF Core, PendingWaited, TypeOK
  <2>2. call[pending.from].op # "none" /\ call[pending.from].ref \in 1 .. nextRef - 1
    BY <1>6, <2>1 DEF Core, Numbered, Receiving, Receives
  <2> QED BY <1>1, <1>5, <2>1, <2>2 DEF Waits
<1>8. \A i \in DOMAIN box : box[i].tag \in Receives =>
         box[i].request.from # x /\ box[i].request.from \in Holders
  <2> SUFFICES ASSUME NEW i \in DOMAIN box, box[i].tag \in Receives
               PROVE  box[i].request.from # x /\ box[i].request.from \in Holders
    OBVIOUS
  <2>1. box[i].request \in Requests
    BY BoxTyped DEF Letters
  <2>2. call[box[i].request.from].op # "none"
    <3>1. call[box[i].request.from] = [op |-> box[i].tag, ref |-> box[i].request.ref]
      BY <1>6
    <3>2. box[i].tag # "none"
      BY DEF Receives
    <3> QED BY <3>1, <3>2
  <2> QED BY <1>1, <1>5, <2>1, <2>2, RequestParts
<1> HIDE DEF p
<1>9. p # pending /\ p # NoRequest
  BY <1>2, <1>3, <1>7, RequestParts
<1>10. Numbered'
  <2>1. ASSUME NEW y \in Holders
        PROVE  /\ call'[y].op = "none" => call'[y].ref = 0
               /\ call'[y].op # "none" => call'[y].ref \in 1 .. nextRef' - 1
               /\ Receiving(y)' => y \in Readers
    <3>1. CASE y = x
      BY <1>1, <1>2, <1>5, <3>1 DEF Receiving
    <3>2. CASE y # x
      BY <1>1, <1>2, <1>5, <3>2 DEF Core, Numbered, Receiving
    <3> QED BY <3>1, <3>2
  <2>2. ASSUME NEW i \in DOMAIN box', Asks(box'[i])
        PROVE  box'[i].request.ref \in 1 .. nextRef' - 1 /\ box'[i].request # pending'
    BY <1>1, <1>2, <1>3, <1>4, <1>6, <1>9, <2>2
  <2>3. \A i, j \in DOMAIN box' :
          Asks(box'[i]) /\ Asks(box'[j]) /\ box'[i].request = box'[j].request => i = j
    <3>1. \A i \in DOMAIN box : Asks(box[i]) => box[i].request # p
      BY <1>2, <1>3, <1>6
    <3> QED BY <1>3, <1>4, <1>6, <3>1
  <2>4. ASSUME NEW i \in DOMAIN box', box'[i].tag \in Receives
        PROVE  call'[box'[i].request.from] = [op |-> box'[i].tag, ref |-> box'[i].request.ref]
    BY <1>3, <1>4, <1>5, <1>6, <1>8, <2>4
  <2>5. pending' # NoRequest => Receiving(pending.from)'
    BY <1>1, <1>5, <1>6, <1>7 DEF Receiving
  <2> QED BY <2>1, <2>2, <2>3, <2>4, <2>5 DEF Numbered
<1>11. PendingWaited'
  BY <1>1, <1>4, <1>5, <1>7 DEF Core, PendingWaited, Waits
<1>12. Held'
  <2> SUFFICES ASSUME OneReader, NEW y \in Holders, Receiving(y)'
               PROVE  Queued(Request(y, call[y].ref))' \/ pending = Request(y, call'[y].ref)
    BY <1>1 DEF Held, ReceiveHeld, OneReader
  <2>1. CASE y = x
    <3>1. Request(y, call'[y].ref) = p /\ op \in Receives
      BY <1>5, <2>1 DEF p, Receiving
    <3>2. box'[Len(box) + 1].request = Request(y, call'[y].ref)
          /\ box'[Len(box) + 1].tag \in Receives
      BY <1>3, <1>4, <3>1
    <3> QED BY <1>4, <3>2 DEF Queued
  <2>2. CASE y # x
    <3>1. call'[y] = call[y]
      BY <1>5, <2>2
    <3>2. Queued(Request(y, call[y].ref)) \/ pending = Request(y, call[y].ref)
      BY <1>1, <3>1 DEF Core, Held, ReceiveHeld, Receiving, OneReader
    <3> QED BY <1>4, <3>1, <3>2 DEF Queued
  <2> QED BY <2>1, <2>2
<1> QED BY <1>10, <1>11, <1>12 DEF Core

\* A caller gives up a call that is no receive.
LEMMA GivesUpKeeps ==
  ASSUME TypeOK, Core, NEW x \in Holders, GivesUp(x)
  PROVE  Core'
<1>1. /\ ~Receiving(x) /\ UNCHANGED <<loop, box, pending, nextRef, armed>>
      /\ \A y \in Holders : call'[y] = IF y = x THEN Idle ELSE call[y]
  BY BoxTyped DEF GivesUp, Receiving, Receives, loopVars
<1>2. \A i \in DOMAIN box : box[i].request.from \in Holders
  BY BoxTyped, LetterParts, RequestParts
<1>3. pending.from \in Holders
  BY RequestParts DEF TypeOK
<1>4. Numbered'
  <2>1. ASSUME NEW y \in Holders
        PROVE  /\ call'[y].op = "none" => call'[y].ref = 0
               /\ call'[y].op # "none" => call'[y].ref \in 1 .. nextRef' - 1
               /\ Receiving(y)' => y \in Readers
    BY <1>1 DEF Core, Numbered, Receiving, Receives, Idle
  <2>2. ASSUME loop = "running", NEW i \in DOMAIN box, box[i].tag \in Receives
        PROVE  call'[box[i].request.from] = [op |-> box[i].tag, ref |-> box[i].request.ref]
    <3>1. call[box[i].request.from] = [op |-> box[i].tag, ref |-> box[i].request.ref]
      BY <2>2 DEF Core, Numbered
    <3>2. box[i].request.from # x
      BY <1>1, <2>2, <3>1 DEF Receiving
    <3> QED BY <1>1, <1>2, <3>1, <3>2
  <2>3. loop = "running" /\ pending # NoRequest => Receiving(pending.from)'
    BY <1>1, <1>3 DEF Core, Numbered, Receiving
  <2> QED BY <1>1, <2>1, <2>2, <2>3 DEF Core, Numbered
<1>5. PendingWaited'
  BY <1>1, <1>3 DEF Core, Numbered, PendingWaited, Waits, Receiving
<1>6. Held'
  BY <1>1 DEF Core, Held, ReceiveHeld, Receiving, Receives, Queued, OneReader, Idle
<1> QED BY <1>4, <1>5, <1>6 DEF Core

(***************************************************************************)
(* Each action keeps the types and the invariant.                          *)
(***************************************************************************)

\* What holds before and after every step.
Inv == TypeOK /\ Core

\* The letter that is taken, and the mailbox it leaves.
LEMMA TakesTyped ==
  ASSUME TypeOK, NEW letter, Takes(letter)
  PROVE  /\ loop = "running" /\ box # <<>> /\ Head(box) = letter /\ letter \in Letters
         /\ box' = Tail(box) /\ box' \in Seq(Letters)
  BY BoxTyped, TailKeeps DEF Takes

\* A letter that asks is answered, and the pending request is another.
LEMMA AnsweredKeeps ==
  ASSUME Inv, NEW p, NEW tag \in {"send", "close"} \cup Receives,
         Takes(Letter(tag, p, <<>>)), Answer({p}),
         UNCHANGED <<loopVars, timers, socket, armed, netVars, handler, nextRef, got>>
  PROVE  Inv'
<1>1. /\ loop = "running" /\ box # <<>> /\ box' = Tail(box) /\ box' \in Seq(Letters)
      /\ Head(box).tag = tag /\ Head(box).request = p /\ Asks(Head(box))
  BY TakesTyped, LetterParts DEF Inv, Asks
<1>2. pending # p
  <2>1. 1 \in DOMAIN box /\ box[1] = Head(box)
    BY <1>1, BoxTyped, TailKeeps DEF Inv
  <2> QED BY <1>1, <2>1 DEF Inv, Core, Numbered
<1>3. /\ call' \in [Holders -> Calls]
      /\ \A x \in Holders :
           call'[x] = IF Request(x, call[x].ref) \in {p} THEN Idle ELSE call[x]
  BY AnswerTyped DEF Inv
<1>4. Core'
  <2>1. TypeOK /\ Core /\ pending' \notin {p} /\ pending' = pending /\ armed' = armed
        /\ ~Brings(Head(box)) /\ nextRef' = nextRef
    BY <1>1, <1>2 DEF Inv, loopVars, Brings, Receives
  <2> QED BY <1>1, <1>3, <2>1, TakenKeeps
<1>5. TypeOK'
  BY <1>1, <1>3 DEF Inv, TypeOK, Letters, Calls, loopVars, netVars
<1> QED BY <1>4, <1>5 DEF Inv

\* Closed becomes true: the pending request is answered, and the letter's.
LEMMA ShutKeeps ==
  ASSUME Inv, NEW letter, Takes(letter), letter.tag \notin Receives, NEW R, Shut(R),
         \A q \in R : Asks(letter) /\ q = letter.request,
         TransportKept \/ TransportClosed,
         UNCHANGED <<loop, buffer, fragment, timers, handler, nextRef, got>>
  PROVE  Inv'
<1>1. /\ loop = "running" /\ box # <<>> /\ box' = Tail(box) /\ box' \in Seq(Letters)
      /\ Head(box) = letter
  BY TakesTyped DEF Inv
<1>2. /\ call' \in [Holders -> Calls] /\ pending' = NoRequest /\ closed' = TRUE
      /\ \A x \in Holders :
           call'[x] = IF Request(x, call[x].ref) \in R \cup {pending} THEN Idle ELSE call[x]
  BY AnswerTyped DEF Inv, Shut
<1>3. Core'
  <2>1. /\ TypeOK /\ Core /\ nextRef' = nextRef
        /\ \A q \in R \cup {pending} : q = pending \/ (Asks(Head(box)) /\ q = Head(box).request)
        /\ pending \in R \cup {pending} /\ Head(box).tag \notin Receives
    BY <1>1 DEF Inv
  <2> QED BY <1>1, <1>2, <2>1, TakenKeeps
<1>4. TypeOK'
  <2>1. /\ socket' \in {"open", "closed"} /\ wire' \in Seq(Frames)
        /\ armed' \in BOOLEAN /\ (armed' => socket' = "open")
        /\ UNCHANGED <<peer, begun, open, pings>>
    <3>1. CASE TransportKept
      BY <3>1 DEF Inv, TypeOK, TransportKept, netVars
    <3>2. CASE TransportClosed
      BY <3>2, LetterParts DEF TransportClosed
    <3> QED BY <3>1, <3>2
  <2> QED BY <1>1, <1>2, <2>1, RequestParts DEF Inv, TypeOK, Letters, Calls
<1> QED BY <1>3, <1>4 DEF Inv

\* A send is carried out, or closes the connection.
LEMMA TakeSendKeeps ==
  ASSUME Inv, NEW p \in Requests, TakeSend(p)
  PROVE  Inv'
<1>1. Takes(Letter("send", p, <<>>))
  BY DEF TakeSend
<1>2. CASE Answer({p}) /\ TransportKept
           /\ UNCHANGED <<loopVars, timers, handler, nextRef, got>>
  BY <1>1, <1>2, AnsweredKeeps DEF TransportKept
<1>3. CASE Shut({p}) /\ TransportClosed
           /\ UNCHANGED <<loop, buffer, fragment, timers, handler, nextRef, got>>
  <2>1. /\ Letter("send", p, <<>>).tag \notin Receives
        /\ Asks(Letter("send", p, <<>>)) /\ Letter("send", p, <<>>).request = p
    BY LetterParts DEF Asks, Receives
  <2> QED BY <1>1, <1>3, <2>1, ShutKeeps
<1> QED BY <1>2, <1>3 DEF TakeSend, AnswerClosed

\* A close shuts, once more or for the first time.
LEMMA TakeCloseKeeps ==
  ASSUME Inv, NEW p \in Requests, TakeClose(p)
  PROVE  Inv'
<1>1. /\ Letter("close", p, <<>>).tag \notin Receives
      /\ Asks(Letter("close", p, <<>>)) /\ Letter("close", p, <<>>).request = p
  BY LetterParts DEF Asks, Receives
<1>2. /\ Takes(Letter("close", p, <<>>)) /\ Shut({p}) /\ (TransportKept \/ TransportClosed)
      /\ UNCHANGED <<loop, buffer, fragment, timers, handler, nextRef, got>>
  BY DEF TakeClose
<1> QED BY <1>1, <1>2, ShutKeeps

\* The kernel reports the connection lost.
LEMMA TakeTcpClosedKeeps ==
  ASSUME Inv, TakeTcpClosed
  PROVE  Inv'
<1>1. Letter("tcp_closed", NoRequest, <<>>).tag \notin Receives
  BY LetterParts DEF Receives
<1>2. /\ Takes(Letter("tcp_closed", NoRequest, <<>>)) /\ Shut({}) /\ TransportKept
      /\ UNCHANGED <<loop, buffer, fragment, timers, handler, nextRef, got>>
  BY DEF TakeTcpClosed
<1> QED BY <1>1, <1>2, ShutKeeps

\* A read for p, the taken letter's request or the pending one.
LEMMA ReadKeeps ==
  ASSUME Inv, NEW letter, Takes(letter),
         NEW frames \in Seq(Frames), NEW p \in Requests, NEW bound, Read(frames, p, bound),
         \/ letter.tag \in Receives /\ p = letter.request
         \/ letter.tag \notin Receives /\ p = pending,
         UNCHANGED <<socket, netVars, handler, nextRef>>
  PROVE  Inv'
<1>1. /\ loop = "running" /\ box # <<>> /\ box' = Tail(box) /\ box' \in Seq(Letters)
      /\ Head(box) = letter /\ TypeOK /\ Core
  BY TakesTyped DEF Inv
<1>2. TypeOK'
  BY <1>1, ReadTyped
<1>3. CASE ReadDone(frames, p)
  <2>1. pending' = NoRequest /\ Answer({p})
    BY <1>1, <1>3, ReadDoneTyped
  <2>2. \A x \in Holders :
          call'[x] = IF Request(x, call[x].ref) \in {p} THEN Idle ELSE call[x]
    BY <1>1, <2>1, AnswerTyped
  <2>3. \A q \in {p} : q = pending \/ (Asks(Head(box)) /\ q = Head(box).request)
    BY <1>1 DEF Asks
  <2>4. /\ Head(box).tag \in Receives => Head(box).request \in {p}
        /\ Head(box).tag \notin Receives => pending \in {p}
    BY <1>1
  <2>5. Core'
    BY <1>1, <2>1, <2>2, <2>3, <2>4, TakenKeeps
  <2> QED BY <1>2, <2>5 DEF Inv
<1>4. CASE ReadPending(frames, p, bound) /\ Arm
  <2>1. pending' = p /\ call' = call
    BY <1>1, <1>4, ReadPendingTyped
  <2>2. loop' = "running" => armed'
    BY <1>4 DEF Arm
  <2>3. IF Head(box).tag \in Receives THEN pending' = Head(box).request
                                     ELSE pending' = pending
    BY <1>1, <2>1
  <2>4. Core'
    BY <1>1, <2>1, <2>2, <2>3, UnansweredKeeps
  <2> QED BY <1>2, <2>4 DEF Inv
<1> QED BY <1>3, <1>4 DEF Read

\* A receive.
LEMMA TakeReceiveKeeps ==
  ASSUME Inv, NEW p \in Requests, NEW op \in Receives, TakeReceive(p, op)
  PROVE  Inv'
<1>1. /\ Takes(Letter(op, p, <<>>)) /\ Letter(op, p, <<>>).tag = op
      /\ Letter(op, p, <<>>).request = p
  BY LetterParts DEF TakeReceive
<1>2. CASE AnswerClosed(p)
  BY <1>1, <1>2, AnsweredKeeps DEF AnswerClosed, TransportKept
<1>3. CASE Read(buffer, p, op = "receiveWithin")
           /\ UNCHANGED <<socket, netVars, handler, nextRef>>
  <2>1. buffer \in Seq(Frames)
    BY DEF Inv, TypeOK
  <2> QED BY <1>1, <1>3, <2>1, ReadKeeps
<1> QED BY <1>2, <1>3 DEF TakeReceive

\* A deadline that is over ends the pending request only.
LEMMA TakeTimeoutKeeps ==
  ASSUME Inv, NEW p \in Requests, TakeTimeout(p)
  PROVE  Inv'
<1>1. /\ loop = "running" /\ box # <<>> /\ box' = Tail(box) /\ box' \in Seq(Letters)
      /\ Head(box).tag = "receive_timeout" /\ TypeOK /\ Core
  BY TakesTyped, LetterParts DEF Inv, TakeTimeout
<1>2. /\ pending' = IF pending = p THEN NoRequest ELSE pending
      /\ Answer({p} \cap {pending})
      /\ UNCHANGED <<loop, closed, buffer, fragment, timers, socket, armed, netVars, handler,
                     nextRef, got>>
  BY DEF TakeTimeout, TransportKept
<1>3. /\ call' \in [Holders -> Calls]
      /\ \A x \in Holders : call'[x] =
           IF Request(x, call[x].ref) \in {p} \cap {pending} THEN Idle ELSE call[x]
  BY <1>1, <1>2, AnswerTyped
<1>4. Core'
  <2>1. Head(box).tag \notin Receives /\ ~Brings(Head(box))
    BY <1>1 DEF Receives, Brings
  <2>2. /\ \A q \in {p} \cap {pending} : q = pending
        /\ pending' = NoRequest \/ pending' = pending
        /\ pending' # NoRequest => pending' = pending /\ pending' \notin {p} \cap {pending}
        /\ pending' = pending \/ pending \in {p} \cap {pending}
        /\ armed' = armed /\ nextRef' = nextRef
    BY <1>2
  <2> QED BY <1>1, <1>3, <2>1, <2>2, TakenKeeps
<1>5. TypeOK'
  BY <1>1, <1>2, <1>3, RequestParts DEF TypeOK, Letters, Calls, netVars
<1> QED BY <1>4, <1>5 DEF Inv

\* Frames that arrive are kept, or read for the pending request.
LEMMA TakeDataKeeps ==
  ASSUME Inv, box # <<>>, TakeData(Head(box).frames)
  PROVE  Inv'
<1> DEFINE frames == Head(box).frames
           letter == Letter("tcp", NoRequest, frames)
<1>1. /\ Takes(letter) /\ letter.tag \notin Receives /\ letter.tag \in {"tcp", "tcp_closed"}
      /\ UNCHANGED <<socket, netVars, handler, nextRef>>
  BY LetterParts DEF TakeData, Receives
<1>2. /\ loop = "running" /\ box' = Tail(box) /\ box' \in Seq(Letters) /\ Head(box) = letter
      /\ TypeOK /\ Core /\ frames \in Seq(Frames)
  <2>1. Head(box) \in Letters
    BY BoxTyped DEF Inv
  <2> QED BY <1>1, <2>1, TakesTyped, LetterParts DEF Inv
<1>3. buffer \o frames \in Seq(Frames)
  BY <1>2, ConcatProperties DEF TypeOK
<1>4. CASE pending = NoRequest
  <2>1. /\ buffer' = buffer \o frames
        /\ UNCHANGED <<loop, closed, pending, fragment, timers, armed, call, got>>
    BY <1>4 DEF TakeData
  <2>2. TypeOK'
    BY <1>1, <1>2, <1>3, <2>1 DEF TypeOK, Letters, netVars
  <2>3. /\ pending' = NoRequest /\ pending' = pending /\ Head(box).tag \notin Receives
        /\ UNCHANGED <<nextRef, call>> /\ box # <<>>
    BY <1>1, <1>2, <1>4, <2>1
  <2>4. Core'
    BY <1>2, <2>3, UnansweredKeeps
  <2> QED BY <2>2, <2>4 DEF Inv
<1>5. CASE pending # NoRequest
  <2>1. Read(buffer \o frames, pending, FALSE) /\ pending \in Requests
    BY <1>2, <1>5 DEF TakeData, TypeOK
  <2> HIDE DEF frames, letter
  <2> QED BY <1>1, <1>3, <2>1, ReadKeeps
<1> QED BY <1>4, <1>5

\* What a loop that is gone leaves has its types.
LEMMA OverTyped ==
  ASSUME TypeOK, NEW how \in {"over", "killed"}, Gone(how), pending' \in Requests,
         closed' \in BOOLEAN, call' \in [Holders -> Calls]
  PROVE  TypeOK'
<1>1. /\ loop' \in {"over", "killed"} /\ box' = <<>> /\ buffer' = <<>> /\ fragment' = 0
      /\ timers' = {} /\ socket' = "closed" /\ armed' = FALSE /\ wire' = <<>>
      /\ UNCHANGED <<peer, begun, open, pings, handler, nextRef, got>>
  BY DEF Gone, TransportClosed
<1>2. <<>> \in Seq(Frames) /\ <<>> \in Seq(Letters)
  OBVIOUS
<1>3. 0 \in 0 .. MaxMessages
  BY WebSocketAssumption
<1> QED BY <1>1, <1>2, <1>3 DEF TypeOK, Letters, Calls

\* The connection is answered for, and the loop is gone.
LEMMA TakeDownKeeps ==
  ASSUME Inv, TakeDown
  PROVE  Inv'
<1>1. TypeOK /\ Core /\ Shut({}) /\ Gone("over")
  BY DEF Inv, TakeDown
<1>2. /\ call' \in [Holders -> Calls] /\ pending' = NoRequest /\ closed' = TRUE
      /\ \A x \in Holders :
           call'[x] = IF Request(x, call[x].ref) \in {} \cup {pending} THEN Idle ELSE call[x]
  BY <1>1, AnswerTyped DEF Shut
<1>3. TypeOK'
  BY <1>1, <1>2, OverTyped, RequestParts
<1>4. loop' # "running" /\ UNCHANGED nextRef
  BY <1>1 DEF Gone
<1>5. Core'
  BY <1>1, <1>2, <1>4, OverKeeps
<1> QED BY <1>3, <1>5 DEF Inv

\* A killed loop answers nobody.
LEMMA KilledKeeps ==
  ASSUME Inv, Killed
  PROVE  Inv'
<1>1. TypeOK /\ Core /\ Gone("killed") /\ UNCHANGED <<closed, pending, call>>
  BY DEF Inv, Killed
<1>2. TypeOK'
  BY <1>1, BoxTyped, OverTyped DEF TypeOK
<1>3. loop' # "running" /\ UNCHANGED nextRef
  BY <1>1 DEF Gone
<1>4. Core'
  BY <1>1, <1>3, OverKeeps
<1> QED BY <1>2, <1>4 DEF Inv

\* The callers: a call is made, given up, or ended by the loop's DOWN.
LEMMA CallersKeep ==
  ASSUME Inv, NEW x \in Holders,
         \/ SeesDown(x) \/ GivesUp(x)
         \/ \E op \in {"send", "close"} \cup Receives : Ask(x, op)
  PROVE  Inv'
<1>0. TypeOK /\ Core /\ box \in Seq(Letters) /\ call \in [Holders -> Calls] /\ Idle \in Calls
  BY BoxTyped, WebSocketAssumption DEF Inv, Idle, Calls
<1>1. CASE SeesDown(x) \/ GivesUp(x)
  <2>1. /\ call' = [call EXCEPT ![x] = Idle]
        /\ UNCHANGED <<loopVars, box, timers, socket, armed, netVars, handler, nextRef, got>>
    BY <1>1 DEF SeesDown, GivesUp
  <2>2. call' \in [Holders -> Calls]
    BY <1>0, <2>1
  <2>3. TypeOK'
    BY <1>0, <2>1, <2>2 DEF TypeOK, Letters, Calls, loopVars, netVars
  <2>4. CASE SeesDown(x)
    <3>1. /\ loop' # "running" /\ UNCHANGED nextRef
          /\ \A y \in Holders : call'[y] \in {call[y], Idle}
      BY <1>0, <2>1, <2>4 DEF SeesDown, loopVars
    <3> QED BY <1>0, <2>3, <3>1, OverKeeps DEF Inv
  <2>5. CASE GivesUp(x)
    BY <1>0, <2>3, <2>5, GivesUpKeeps DEF Inv
  <2> QED BY <1>1, <2>4, <2>5
<1>2. ASSUME NEW op \in {"send", "close"} \cup Receives, Ask(x, op)
      PROVE  Inv'
  <2>1. Core'
    BY <1>0, <1>2, AskKeeps
  <2>2. /\ nextRef \in Ref /\ nextRef' = nextRef + 1
        /\ call' = [call EXCEPT ![x] = [op |-> op, ref |-> nextRef]]
        /\ box' = Append(box, Letter(op, Request(x, nextRef), <<>>))
        /\ UNCHANGED <<loopVars, timers, socket, armed, netVars, handler, got>>
    BY <1>2 DEF Ask
  <2>3. nextRef \in 0 .. MaxCalls /\ nextRef' \in 1 .. (MaxCalls + 1)
    BY <2>2, WebSocketAssumption DEF Ref
  <2>4. Letter(op, Request(x, nextRef), <<>>) \in Letters
    <3>1. op \in Tags
      BY DEF Tags, Receives
    <3> QED BY <2>3, <3>1, RequestParts, LetterParts
  <2>5. box' \in Seq(Letters)
    BY <1>0, <2>2, <2>4, AppendKeeps
  <2>6. call' \in [Holders -> Calls]
    BY <1>0, <2>2, <2>3 DEF Calls
  <2>7. TypeOK'
    BY <1>0, <2>2, <2>3, <2>5, <2>6 DEF TypeOK, Letters, Calls, loopVars, netVars
  <2> QED BY <2>1, <2>7 DEF Inv
<1> QED BY <1>1, <1>2

\* A letter that asks nothing arrives.
LEMMA ArrivesKeeps ==
  ASSUME Inv, NEW m \in Letters, ~Asks(m), box' = Append(box, m),
         UNCHANGED <<loopVars, call, nextRef, got, begun, open, pings, peer>>,
         (armed' = armed /\ socket' = socket) \/ (armed' = FALSE /\ Brings(m)),
         timers' \subseteq Requests, wire' \in Seq(Frames),
         handler' \in {"runs", "ended"},
         socket' \in {socket, "closed"}
  PROVE  Inv'
<1>1. box' \in Seq(Letters)
  BY BoxTyped, AppendKeeps DEF Inv
<1>2. TypeOK'
  <2>1. armed' \in BOOLEAN /\ (armed' => socket' = "open") /\ socket' \in {"open", "closed"}
    <3>1. armed \in BOOLEAN /\ (armed => socket = "open") /\ socket \in {"open", "closed"}
      BY DEF Inv, TypeOK
    <3>2. CASE armed' = armed /\ socket' = socket
      BY <3>1, <3>2
    <3>3. CASE armed' = FALSE /\ socket' \in {socket, "closed"}
      BY <3>1, <3>3
    <3> QED BY <3>2, <3>3
  <2>2. UNCHANGED <<loop, closed, pending, buffer, fragment, call, nextRef, got, begun, open,
                    pings, peer>>
    BY DEF loopVars
  <2> QED BY <1>1, <2>1, <2>2 DEF Inv, TypeOK, Letters, Calls
<1>3. Core'
  BY AppendedKeeps DEF Inv, loopVars
<1> QED BY <1>2, <1>3 DEF Inv

\* The handler's end, the clock, the kernel and the peer.
LEMMA OutsideKeeps ==
  ASSUME Inv,
         \/ HandlerEnds \/ Deliver \/ DeliverClosed
         \/ \E p \in Requests : TimerFires(p)
  PROVE  Inv'
<1>0. TypeOK /\ Core /\ wire \in Seq(Frames) /\ timers \subseteq Requests
      /\ handler \in {"runs", "ended"}
  BY DEF Inv, TypeOK
<1>1. ASSUME NEW tag \in {"DOWN", "tcp", "tcp_closed", "receive_timeout"},
             NEW p \in Requests, NEW f \in Seq(Frames)
      PROVE  /\ Letter(tag, p, f) \in Letters /\ ~Asks(Letter(tag, p, f))
             /\ Brings(Letter(tag, p, f)) <=> tag \in {"tcp", "tcp_closed"}
  BY LetterParts DEF Tags, Asks, Receives, Brings
<1>2. CASE HandlerEnds
  <2>1. CASE loop = "running"
    BY <1>0, <1>1, <1>2, <2>1, RequestParts, LetterParts, ArrivesKeeps
    DEF HandlerEnds, netVars, loopVars
  <2>2. CASE loop # "running"
    <3>0. /\ handler' \in {"runs", "ended"}
          /\ UNCHANGED <<loopVars, box, timers, socket, armed, netVars, call, nextRef, got>>
      BY <1>2, <2>2 DEF HandlerEnds
    <3>1. TypeOK'
      <4>1. UNCHANGED <<loop, closed, pending, buffer, fragment, box, timers, socket, armed,
                        wire, peer, begun, open, pings, call, nextRef, got>>
        BY <3>0 DEF loopVars, netVars
      <4> QED BY <3>0, <4>1 DEF Inv, TypeOK, Letters, Calls
    <3>2. Core'
      BY <1>0, <1>2, <2>2, SameKeeps DEF HandlerEnds, loopVars
    <3> QED BY <3>1, <3>2 DEF Inv
  <2> QED BY <2>1, <2>2
<1>3. CASE Deliver
  <2>1. PICK n \in 1 .. Len(wire) :
          /\ box' = Append(box, Letter("tcp", NoRequest, SubSeq(wire, 1, n)))
          /\ wire' = SubSeq(wire, n + 1, Len(wire))
    BY <1>3 DEF Deliver
  <2>2. SubSeq(wire, 1, n) \in Seq(Frames) /\ wire' \in Seq(Frames)
    BY <1>0, <2>1, SubSeqProperties, SubSeqTyped, LenProperties
  <2>3. /\ UNCHANGED <<loopVars, call, nextRef, got, begun, open, pings, peer, timers, handler>>
        /\ armed' = FALSE /\ socket' = socket
    BY <1>3 DEF Deliver
  <2> QED BY <1>0, <1>1, <2>1, <2>2, <2>3, RequestParts, ArrivesKeeps
<1>4. CASE DeliverClosed
  BY <1>0, <1>1, <1>4, RequestParts, LetterParts, ArrivesKeeps DEF DeliverClosed, netVars
<1>5. ASSUME NEW p \in Requests, TimerFires(p)
      PROVE  Inv'
  BY <1>0, <1>1, <1>5, LetterParts, ArrivesKeeps DEF TimerFires, netVars
<1> QED BY <1>2, <1>3, <1>4, <1>5

\* The peer's end.
LEMMA PeerKeeps ==
  ASSUME Inv,
         \/ PeerLeaves
         \/ \E kind \in {"whole", "part", "end", "ping", "closing"} : PeerSends(kind)
  PROVE  Inv'
<1>1. CASE PeerLeaves
  <2>1. Core'
    BY <1>1, SameKeeps DEF Inv, PeerLeaves, loopVars
  <2>2. wire' \in Seq(Frames) /\ peer' \in {"up", "away"}
    BY <1>1, LetterParts DEF Inv, TypeOK, PeerLeaves
  <2>3. TypeOK'
    BY <1>1, <2>2 DEF Inv, TypeOK, PeerLeaves, loopVars
  <2> QED BY <2>1, <2>3 DEF Inv
<1>2. ASSUME NEW kind \in {"whole", "part", "end", "ping", "closing"}, PeerSends(kind)
      PROVE  Inv'
  <2>1. Core'
    BY <1>2, SameKeeps DEF Inv, PeerSends, loopVars
  <2>2. /\ begun' \in 0 .. MaxMessages /\ pings' \in 0 .. MaxPings
        /\ open' \in BOOLEAN /\ (open' => begun' > 0) /\ peer' \in {"up", "away"}
        /\ kind \in {"whole", "part", "end"} => begun' > 0
    <3>0. /\ begun \in 0 .. MaxMessages /\ pings \in 0 .. MaxPings /\ open \in BOOLEAN
          /\ open => begun > 0
          /\ peer \in {"up", "away"} /\ MaxMessages \in Nat /\ MaxPings \in Nat
      BY WebSocketAssumption DEF Inv, TypeOK
    <3>1. CASE kind \in {"whole", "part"}
      <4>1. ~open /\ begun < MaxMessages /\ begun' = begun + 1 /\ pings' = pings
            /\ peer' = peer
        BY <1>2, <3>1 DEF PeerSends
      <4>2. open' \in BOOLEAN
        BY <1>2, <3>0, <3>1 DEF PeerSends
      <4> QED BY <3>0, <3>1, <4>1, <4>2
    <3>2. CASE kind = "end"
      <4>1. open /\ begun' = begun /\ pings' = pings /\ open' = FALSE /\ peer' = peer
        BY <1>2, <3>2 DEF PeerSends
      <4> QED BY <3>0, <3>2, <4>1
    <3>3. CASE kind = "ping"
      <4>1. pings < MaxPings /\ begun' = begun /\ pings' = pings + 1 /\ open' = open
            /\ peer' = peer
        BY <1>2, <3>3 DEF PeerSends
      <4> QED BY <3>0, <3>3, <4>1
    <3>4. CASE kind = "closing"
      <4>1. begun' = begun /\ pings' = pings /\ open' = open /\ peer' = "away"
        BY <1>2, <3>4 DEF PeerSends
      <4> QED BY <3>0, <3>4, <4>1
    <3> QED BY <3>1, <3>2, <3>3, <3>4
  <2>3. wire' \in Seq(Frames)
    <3>1. CASE kind \in {"ping", "closing"}
      <4>1. Frame(kind, 0) \in Frames /\ wire' = Append(wire, Frame(kind, 0))
        BY <1>2, <3>1 DEF Frame, Frames, PeerSends
      <4> QED BY <4>1, AppendKeeps DEF Inv, TypeOK
    <3>2. CASE kind \in {"whole", "part", "end"}
      <4>1. wire' = Append(wire, Frame(kind, begun'))
        BY <1>2, <3>2 DEF PeerSends
      <4>2. PICK b : b = begun' /\ b \in 1 .. MaxMessages
        BY <2>2, <3>2, WebSocketAssumption
      <4>3. Frame(kind, b) \in Frames
        BY <3>2, <4>2 DEF Frame, Frames
      <4> QED BY <4>1, <4>2, <4>3, AppendKeeps DEF Inv, TypeOK
    <3> QED BY <3>1, <3>2
  <2>4. TypeOK'
    BY <1>2, <2>2, <2>3 DEF Inv, TypeOK, PeerSends, loopVars
  <2> QED BY <2>1, <2>4 DEF Inv
<1> QED BY <1>1, <1>2

(***************************************************************************)
(* What receivers are given.                                               *)
(*                                                                         *)
(* Between the peer and the receivers lie the frames of the kernel, of the *)
(* letters in the mailbox and of the buffer.  A mark says where in the     *)
(* peer's messages a place between two frames is: how many have begun, and *)
(* which of them is under way.                                             *)
(***************************************************************************)
Marks == Nat \X Nat

\* The frame leads from mark a to mark b.
Follows(frame, a, b) ==
  \/ frame.kind \in {"ping", "closing"} /\ b = a
  \/ frame.kind = "whole" /\ a[2] = 0 /\ frame.id = a[1] + 1 /\ b = <<frame.id, 0>>
  \/ frame.kind = "part" /\ a[2] = 0 /\ frame.id = a[1] + 1 /\ b = <<frame.id, frame.id>>
  \/ frame.kind = "end" /\ a[2] # 0 /\ frame.id = a[2] /\ b = <<a[1], 0>>

\* These marks lie between the frames.
Marked(frames, marks) ==
  /\ marks \in [0 .. Len(frames) -> Marks]
  /\ \A i \in 1 .. Len(frames) : Follows(frames[i], marks[i - 1], marks[i])

\* The frames lead from a to b.
Path(frames, a, b) ==
  \E marks \in [0 .. Len(frames) -> Marks] :
     Marked(frames, marks) /\ marks[0] = a /\ marks[Len(frames)] = b

\* So do the frames of these letters, one letter after the other.
Chain(letters, a, b) ==
  \E marks \in [0 .. Len(letters) -> Marks] :
     /\ \A i \in 1 .. Len(letters) : Path(letters[i].frames, marks[i - 1], marks[i])
     /\ marks[0] = a /\ marks[Len(letters)] = b

\* How far receivers have read, and how far the peer has sent.
Looked == <<IF fragment = 0 THEN Len(got) ELSE Len(got) + 1, fragment>>
Sent == <<begun, IF open THEN begun ELSE 0>>

\* While a message can still be read, all between the one and the other is
\* there and in order, or its end has been lost with the connection.
Flowing ==
  /\ fragment \in {0, Len(got) + 1}
  /\ \E a, b, c \in Marks :
       /\ Path(buffer, Looked, a) /\ Chain(box, a, b) /\ Path(wire, b, c)
       /\ peer = "up" => c = Sent

Flow ==
  /\ closed => pending = NoRequest
  /\ loop = "running" /\ ~closed => Flowing
  /\ InOrder

\* No frames lead nowhere.
LEMMA PathEmpty ==
  ASSUME NEW a \in Marks, NEW b \in Marks
  PROVE  Path(<<>>, a, b) <=> a = b
<1>1. Len(<<>>) = 0
  OBVIOUS
<1>2. ASSUME a = b PROVE Path(<<>>, a, b)
  <2> DEFINE marks == [i \in 0 .. 0 |-> a]
  <2>1. marks \in [0 .. 0 -> Marks] /\ marks[0] = a /\ marks[0] = b
    BY <1>2
  <2>2. Marked(<<>>, marks)
    BY <1>1, <2>1 DEF Marked
  <2> HIDE DEF marks
  <2> QED BY <1>1, <2>1, <2>2 DEF Path
<1> QED BY <1>1, <1>2 DEF Path

\* One more frame.
LEMMA PathAppend ==
  ASSUME NEW frames \in Seq(Frames), NEW e \in Frames, NEW a \in Marks, NEW b \in Marks,
         NEW c \in Marks, Path(frames, a, b), Follows(e, b, c)
  PROVE  Path(Append(frames, e), a, c)
<1>1. PICK m \in [0 .. Len(frames) -> Marks] :
        Marked(frames, m) /\ m[0] = a /\ m[Len(frames)] = b
  BY DEF Path
<1>2. PICK n \in Nat : n = Len(frames)
  BY LenProperties
<1> DEFINE all == [i \in 0 .. (n + 1) |-> IF i <= n THEN m[i] ELSE c]
<1>3. all \in [0 .. (n + 1) -> Marks] /\ all[0] = a /\ all[n + 1] = c
  BY <1>1, <1>2
<1>4. Len(Append(frames, e)) = n + 1
  BY <1>2, LenProperties
<1>5. ASSUME NEW i \in 1 .. (n + 1)
      PROVE  Follows(Append(frames, e)[i], all[i - 1], all[i])
  <2>1. CASE i = n + 1
    <3>1. Append(frames, e)[i] = e /\ all[i - 1] = b /\ all[i] = c
      BY <1>1, <1>2, <2>1, AppendKeeps
    <3> QED BY <3>1
  <2>2. CASE i # n + 1
    <3>1. i \in 1 .. n /\ all[i - 1] = m[i - 1] /\ all[i] = m[i]
      BY <2>2
    <3>2. Append(frames, e)[i] = frames[i]
      BY <1>2, <3>1, AppendKeeps
    <3> QED BY <1>1, <1>2, <3>1, <3>2 DEF Marked
  <2> QED BY <2>1, <2>2
<1> HIDE DEF all
<1> QED BY <1>3, <1>4, <1>5 DEF Path, Marked

\* One path after the other.
LEMMA PathConcat ==
  ASSUME NEW f \in Seq(Frames), NEW g \in Seq(Frames), NEW a \in Marks, NEW b \in Marks,
         NEW c \in Marks, Path(f, a, b), Path(g, b, c)
  PROVE  Path(f \o g, a, c)
<1>1. PICK m \in [0 .. Len(f) -> Marks] : Marked(f, m) /\ m[0] = a /\ m[Len(f)] = b
  BY DEF Path
<1>2. PICK n \in [0 .. Len(g) -> Marks] : Marked(g, n) /\ n[0] = b /\ n[Len(g)] = c
  BY DEF Path
<1>3. PICK j \in Nat, k \in Nat : j = Len(f) /\ k = Len(g)
  BY LenProperties
<1> DEFINE all == [i \in 0 .. (j + k) |-> IF i <= j THEN m[i] ELSE n[i - j]]
<1>4. all \in [0 .. (j + k) -> Marks]
  BY <1>1, <1>2, <1>3
<1>5. all[0] = a /\ all[j + k] = c
  <2>1. CASE k = 0
    BY <1>1, <1>2, <1>3, <2>1
  <2>2. CASE k # 0
    BY <1>1, <1>2, <1>3, <2>2
  <2> QED BY <2>1, <2>2
<1>6. /\ Len(f \o g) = j + k
      /\ \A i \in 1 .. (j + k) : (f \o g)[i] = IF i <= j THEN f[i] ELSE g[i - j]
  BY <1>3, ConcatProperties
<1>7. ASSUME NEW i \in 1 .. (j + k)
      PROVE  Follows((f \o g)[i], all[i - 1], all[i])
  <2>1. CASE i <= j
    <3>1. (f \o g)[i] = f[i] /\ all[i - 1] = m[i - 1] /\ all[i] = m[i] /\ i \in 1 .. j
      BY <1>6, <2>1
    <3> QED BY <1>1, <1>3, <3>1 DEF Marked
  <2>2. CASE ~(i <= j)
    <3>1. PICK h \in 1 .. k : h = i - j
      BY <2>2
    <3>2. (f \o g)[i] = g[h] /\ all[i] = n[h]
      BY <1>6, <2>2, <3>1
    <3>3. all[i - 1] = n[h - 1]
      <4>1. CASE h = 1
        <5>1. i - 1 = j /\ h - 1 = 0 /\ j \in 0 .. (j + k)
          BY <3>1, <4>1
        <5>2. all[j] = m[j]
          BY <5>1
        <5> QED BY <1>1, <1>2, <1>3, <5>1, <5>2
      <4>2. CASE h # 1
        <5>1. i - 1 \in 0 .. (j + k) /\ ~(i - 1 <= j) /\ (i - 1) - j = h - 1
          BY <3>1, <4>2
        <5> QED BY <5>1
      <4> QED BY <4>1, <4>2
    <3> QED BY <1>2, <1>3, <3>2, <3>3 DEF Marked
  <2> QED BY <2>1, <2>2
<1> HIDE DEF all
<1> QED BY <1>4, <1>5, <1>6, <1>7 DEF Path, Marked

\* A path can be cut between two frames.
LEMMA PathSplit ==
  ASSUME NEW f \in Seq(Frames), NEW marks, Marked(f, marks), NEW n \in 0 .. Len(f)
  PROVE  /\ marks[0] \in Marks /\ marks[n] \in Marks /\ marks[Len(f)] \in Marks
         /\ Path(SubSeq(f, 1, n), marks[0], marks[n])
         /\ Path(SubSeq(f, n + 1, Len(f)), marks[n], marks[Len(f)])
<1>1. PICK k \in Nat : k = Len(f)
  BY LenProperties
<1>2. /\ marks \in [0 .. k -> Marks]
      /\ \A i \in 1 .. k : Follows(f[i], marks[i - 1], marks[i]) /\ f[i] \in Frames
  BY <1>1, LenProperties, ElementOfSeq DEF Marked
<1>3. /\ Len(SubSeq(f, 1, n)) = n
      /\ \A i \in 1 .. n : SubSeq(f, 1, n)[i] = f[i]
  BY <1>1, <1>2, SubSeqProperties
<1>4. /\ Len(SubSeq(f, n + 1, k)) = k - n
      /\ \A i \in 1 .. (k - n) : SubSeq(f, n + 1, k)[i] = f[n + i]
  <2>1. \A i \in n + 1 .. k : f[i] \in Frames
    BY <1>1, <1>2
  <2>2. /\ Len(SubSeq(f, n + 1, k)) = IF n + 1 <= k THEN k - (n + 1) + 1 ELSE 0
        /\ \A i \in 1 .. k - (n + 1) + 1 : SubSeq(f, n + 1, k)[i] = f[(n + 1) + i - 1]
    BY <1>1, <2>1, SubSeqProperties
  <2> QED BY <1>1, <2>2
<1>5. Path(SubSeq(f, 1, n), marks[0], marks[n])
  <2> DEFINE m == [i \in 0 .. n |-> marks[i]]
  <2>1. m \in [0 .. n -> Marks] /\ m[0] = marks[0] /\ m[n] = marks[n]
        /\ \A i \in 1 .. n : m[i] = marks[i] /\ m[i - 1] = marks[i - 1]
    BY <1>1, <1>2
  <2> HIDE DEF m
  <2>2. \A i \in 1 .. n : Follows(SubSeq(f, 1, n)[i], m[i - 1], m[i])
    BY <1>1, <1>2, <1>3, <2>1
  <2> QED BY <1>3, <2>1, <2>2 DEF Path, Marked
<1>6. Path(SubSeq(f, n + 1, k), marks[n], marks[k])
  <2> DEFINE m == [i \in 0 .. (k - n) |-> marks[n + i]]
  <2>1. m \in [0 .. (k - n) -> Marks] /\ m[0] = marks[n] /\ m[k - n] = marks[k]
    BY <1>1, <1>2
  <2>2. ASSUME NEW i \in 1 .. (k - n)
        PROVE  m[i] = marks[n + i] /\ m[i - 1] = marks[(n + i) - 1] /\ n + i \in 1 .. k
    BY <1>1
  <2> HIDE DEF m
  <2>3. \A i \in 1 .. (k - n) : Follows(SubSeq(f, n + 1, k)[i], m[i - 1], m[i])
    BY <1>2, <1>4, <2>2
  <2> QED BY <1>4, <2>1, <2>3 DEF Path, Marked
<1> QED BY <1>1, <1>2, <1>5, <1>6

\* A letter that arrives.
LEMMA ChainAppend ==
  ASSUME NEW letters \in Seq(Letters), NEW e \in Letters, NEW a \in Marks, NEW b \in Marks,
         NEW c \in Marks, Chain(letters, a, b), Path(e.frames, b, c)
  PROVE  Chain(Append(letters, e), a, c)
<1>1. PICK m \in [0 .. Len(letters) -> Marks] :
        /\ \A i \in 1 .. Len(letters) : Path(letters[i].frames, m[i - 1], m[i])
        /\ m[0] = a /\ m[Len(letters)] = b
  BY DEF Chain
<1>2. PICK n \in Nat : n = Len(letters)
  BY LenProperties
<1> DEFINE all == [i \in 0 .. (n + 1) |-> IF i <= n THEN m[i] ELSE c]
<1>3. all \in [0 .. (n + 1) -> Marks] /\ all[0] = a /\ all[n + 1] = c
  BY <1>1, <1>2
<1>4. Len(Append(letters, e)) = n + 1
  BY <1>2, LenProperties
<1>5. ASSUME NEW i \in 1 .. (n + 1)
      PROVE  Path(Append(letters, e)[i].frames, all[i - 1], all[i])
  <2>1. CASE i = n + 1
    <3>1. Append(letters, e)[i] = e /\ all[i - 1] = b /\ all[i] = c
      BY <1>1, <1>2, <2>1, AppendKeeps
    <3> QED BY <3>1
  <2>2. CASE i # n + 1
    <3>1. i \in 1 .. n /\ all[i - 1] = m[i - 1] /\ all[i] = m[i]
      BY <2>2
    <3>2. Append(letters, e)[i] = letters[i]
      BY <1>2, <3>1, AppendKeeps
    <3> QED BY <1>1, <1>2, <3>1, <3>2
  <2> QED BY <2>1, <2>2
<1> HIDE DEF all
<1> QED BY <1>3, <1>4, <1>5 DEF Chain

\* A letter that is taken.
LEMMA ChainTail ==
  ASSUME NEW letters \in Seq(Letters), letters # <<>>, NEW a \in Marks, NEW b \in Marks,
         Chain(letters, a, b)
  PROVE  \E c \in Marks : Path(Head(letters).frames, a, c) /\ Chain(Tail(letters), c, b)
<1>1. PICK m \in [0 .. Len(letters) -> Marks] :
        /\ \A i \in 1 .. Len(letters) : Path(letters[i].frames, m[i - 1], m[i])
        /\ m[0] = a /\ m[Len(letters)] = b
  BY DEF Chain
<1>2. PICK n \in Nat : n + 1 = Len(letters)
  BY EmptySeq, LenProperties
<1>3. Len(Tail(letters)) = n
  BY <1>2, HeadTailProperties
<1>4. Head(letters) = letters[1] /\ \A i \in 1 .. n : Tail(letters)[i] = letters[i + 1]
  BY <1>2, <1>3, HeadTailProperties, TailKeeps
<1> DEFINE all == [i \in 0 .. n |-> m[i + 1]]
<1>5. all \in [0 .. n -> Marks] /\ all[0] = m[1] /\ all[n] = b /\ m[1] \in Marks
  BY <1>1, <1>2
<1>6. ASSUME NEW i \in 1 .. n
      PROVE  Path(Tail(letters)[i].frames, all[i - 1], all[i])
  <2>1. all[i - 1] = m[(i + 1) - 1] /\ all[i] = m[i + 1] /\ i + 1 \in 1 .. (n + 1)
    OBVIOUS
  <2> QED BY <1>1, <1>2, <1>4, <2>1
<1>7. Path(Head(letters).frames, a, m[1])
  BY <1>1, <1>2, <1>4
<1> HIDE DEF all
<1> QED BY <1>3, <1>5, <1>6, <1>7 DEF Chain

\* What a receive has read over: pings, and at most one first part.
LEMMA ReadOver ==
  ASSUME NEW f \in Seq(Frames), NEW marks, Marked(f, marks), marks[0] = Looked,
         got \in Seq(1 .. MaxMessages), fragment \in {0, Len(got) + 1},
         NEW n \in 0 .. Len(f), ReadsOver(f, n)
  PROVE  /\ FragmentAfter(f, n) \in {0, Len(got) + 1}
         /\ marks[n] = <<IF FragmentAfter(f, n) = 0 THEN Len(got) ELSE Len(got) + 1,
                         FragmentAfter(f, n)>>
<1>1. PICK k \in Nat : k = Len(got)
  BY LenProperties
<1>2. Len(f) \in Nat /\ n \in Nat
  BY LenProperties
<1>3. \A i \in 1 .. n : /\ Follows(f[i], marks[i - 1], marks[i])
                        /\ f[i].kind \in {"ping", "part"}
  BY <1>2 DEF Marked, ReadsOver
<1> DEFINE Parts(i) == {j \in 1 .. i : f[j].kind = "part"}
           Fine(i) == \/ Parts(i) = {} /\ marks[i] = Looked
                      \/ /\ Parts(i) # {} /\ fragment = 0 /\ marks[i] = <<k + 1, k + 1>>
                         /\ \A j \in Parts(i) : f[j].id = k + 1
           T == {i \in 0 .. n : Fine(i)}
<1>4. 0 \in T
  BY <1>2
<1>5. ASSUME NEW i \in 0 .. (n - 1), i \in T
      PROVE  i + 1 \in T
  <2>1. /\ i + 1 \in 1 .. n /\ (i + 1) - 1 = i /\ Fine(i)
    BY <1>2, <1>5
  <2>2. Follows(f[i + 1], marks[i], marks[i + 1]) /\ f[i + 1].kind \in {"ping", "part"}
    BY <1>3, <2>1
  <2>3. CASE f[i + 1].kind = "ping"
    <3>1. Parts(i + 1) = Parts(i)
      <4>1. \A j \in 1 .. (i + 1) : j \in 1 .. i \/ j = i + 1
        OBVIOUS
      <4>2. 1 .. i \subseteq 1 .. (i + 1)
        OBVIOUS
      <4> QED BY <2>3, <4>1, <4>2
    <3>2. marks[i + 1] = marks[i]
      BY <2>2, <2>3 DEF Follows
    <3> HIDE DEF Parts
    <3>3. Fine(i + 1)
      BY <2>1, <3>1, <3>2
    <3> QED BY <2>1, <3>3
  <2>4. CASE f[i + 1].kind = "part"
    <3>1. /\ marks[i][2] = 0 /\ f[i + 1].id = marks[i][1] + 1
          /\ marks[i + 1] = <<f[i + 1].id, f[i + 1].id>>
      BY <2>2, <2>4 DEF Follows
    <3>2. Parts(i) = {} /\ marks[i] = Looked /\ fragment = 0
      BY <1>1, <2>1, <3>1 DEF Looked
    <3>3. f[i + 1].id = k + 1 /\ marks[i + 1] = <<k + 1, k + 1>>
      BY <1>1, <3>1, <3>2 DEF Looked
    <3>4. Parts(i + 1) = {i + 1}
      <4>1. \A j \in 1 .. (i + 1) : j \in 1 .. i \/ j = i + 1
        OBVIOUS
      <4>2. i + 1 \in 1 .. (i + 1)
        OBVIOUS
      <4> QED BY <2>4, <3>2, <4>1, <4>2
    <3> HIDE DEF Parts
    <3>5. Fine(i + 1)
      BY <3>2, <3>3, <3>4
    <3> QED BY <2>1, <3>5
  <2> QED BY <2>2, <2>3, <2>4
<1>6. n \in T
  <2> HIDE DEF T
  <2>1. \A i \in 0 .. n : i \in T
    BY <1>2, <1>4, <1>5, Reaches
  <2> QED BY <1>2, <2>1
<1>7. Fine(n)
  BY <1>6
<1>8. CASE Parts(n) = {} /\ marks[n] = Looked
  <2>1. FragmentAfter(f, n) = fragment
    BY <1>8 DEF FragmentAfter
  <2> QED BY <1>8, <2>1 DEF Looked
<1>9. CASE /\ Parts(n) # {} /\ marks[n] = <<k + 1, k + 1>>
           /\ \A j \in Parts(n) : f[j].id = k + 1
  <2> DEFINE j == CHOOSE j \in 1 .. n : f[j].kind = "part"
  <2>1. \E h \in 1 .. n : f[h].kind = "part"
    BY <1>9
  <2>2. FragmentAfter(f, n) = f[j].id /\ j \in Parts(n)
    BY <2>1 DEF FragmentAfter
  <2> HIDE DEF j
  <2>3. FragmentAfter(f, n) = k + 1
    BY <1>9, <2>2
  <2> QED BY <1>1, <1>9, <2>3
<1> QED BY <1>7, <1>8, <1>9

\* A message that is complete is the next one, and nothing is under way after it.
LEMMA CompleteIsNext ==
  ASSUME NEW f \in Seq(Frames), NEW marks, Marked(f, marks), marks[0] = Looked,
         got \in Seq(1 .. MaxMessages), fragment \in {0, Len(got) + 1},
         NEW i \in 1 .. Len(f), Completes(f, i)
  PROVE  f[i].id = Len(got) + 1 /\ marks[i] = <<Len(got) + 1, 0>>
<1>1. PICK k \in Nat : k = Len(got)
  BY LenProperties
<1>2. Len(f) \in Nat /\ i - 1 \in 0 .. Len(f)
  BY LenProperties
<1>3. f[i] \in Frames
  BY LenProperties, ElementOfSeq
<1>4. PICK u : u = FragmentAfter(f, i - 1)
  OBVIOUS
<1>5. u \in {0, k + 1} /\ marks[i - 1] = <<IF u = 0 THEN k ELSE k + 1, u>>
  BY <1>1, <1>2, <1>4, ReadOver DEF Completes
<1>6. Follows(f[i], marks[i - 1], marks[i])
  BY DEF Marked
<1>7. CASE f[i].kind = "whole" /\ u = 0
  BY <1>1, <1>5, <1>6, <1>7 DEF Follows
<1>8. CASE f[i].kind = "end" /\ u = f[i].id
  <2>1. f[i].id # 0
    BY <1>3, <1>8 DEF Frames
  <2> QED BY <1>1, <1>5, <1>6, <1>8, <2>1 DEF Follows
<1> QED BY <1>4, <1>7, <1>8 DEF Completes

\* A read gives its caller, who still waits, the next message, and goes on from
\* there; or it has looked at all there is.
LEMMA ReadFlows ==
  ASSUME Inv, InOrder, fragment \in {0, Len(got) + 1},
         NEW f \in Seq(Frames), NEW p \in Requests, NEW bound, Waits(p), Read(f, p, bound),
         NEW a \in Marks, NEW b \in Marks, NEW c \in Marks,
         Path(f, Looked, a), Chain(box', a, b), Path(wire, b, c), peer = "up" => c = Sent,
         ~closed, UNCHANGED <<wire, peer, begun, open>>
  PROVE  Flow'
<1>1. got \in Seq(1 .. MaxMessages) /\ Len(got) \in Nat /\ Len(f) \in Nat
  BY LenProperties DEF Inv, TypeOK
<1>2. PICK marks : Marked(f, marks) /\ marks[0] = Looked /\ marks[Len(f)] = a
  BY DEF Path
<1>3. peer' = "up" => c = Sent'
  BY DEF Sent
<1>4. CASE ReadDone(f, p)
  <2>1. PICK i \in DOMAIN f :
          /\ \/ /\ Completes(f, i)
                /\ got' = IF Waits(p) THEN Append(got, f[i].id) ELSE got
                /\ UNCHANGED closed
             \/ StopsAt(f, i) /\ closed' = TRUE /\ UNCHANGED got
          /\ buffer' = SubSeq(f, i + 1, Len(f))
    BY <1>4 DEF ReadDone
  <2>2. fragment' = 0 /\ pending' = NoRequest
    BY <1>4 DEF ReadDone
  <2>3. i \in 1 .. Len(f) /\ i \in 0 .. Len(f) /\ f[i] \in Frames
    BY LenProperties, ElementOfSeq
  <2>4. CASE closed' = TRUE /\ UNCHANGED got
    BY <2>2, <2>4 DEF Flow, InOrder
  <2>5. CASE Completes(f, i) /\ got' = Append(got, f[i].id) /\ UNCHANGED closed
    <3>1. f[i].id = Len(got) + 1 /\ marks[i] = <<Len(got) + 1, 0>>
      BY <1>1, <1>2, <2>3, <2>5, CompleteIsNext
    <3>2. f[i].id \in 1 .. MaxMessages
      BY <2>3, <2>5 DEF Completes, Frames
    <3>3. /\ Len(got') = Len(got) + 1
          /\ DOMAIN got' = 1 .. (Len(got) + 1)
          /\ \A j \in 1 .. Len(got) : got'[j] = got[j]
          /\ got'[Len(got) + 1] = f[i].id
      BY <1>1, <2>5, <3>2, AppendKeeps, LenProperties
    <3>4. InOrder'
      <4>1. \A j \in 1 .. Len(got) : got[j] = j
        BY <1>1, LenProperties DEF InOrder
      <4>2. \A j \in 1 .. (Len(got) + 1) : got'[j] = j
        BY <1>1, <3>1, <3>3, <4>1
      <4> QED BY <3>3, <4>2 DEF InOrder
    <3>5. Path(buffer', marks[i], a) /\ marks[i] \in Marks
      BY <1>2, <2>1, <2>3, PathSplit
    <3>6. Looked' = marks[i]
      BY <2>2, <3>1, <3>3 DEF Looked
    <3>7. Flowing'
      <4>1. Path(buffer', Looked', a)
        BY <3>5, <3>6
      <4>2. Path(wire', b, c)
        OBVIOUS
      <4> QED BY <1>3, <2>2, <4>1, <4>2 DEF Flowing
    <3> QED BY <2>2, <3>4, <3>7 DEF Flow
  <2> QED BY <2>1, <2>4, <2>5
<1>5. CASE ReadPending(f, p, bound) /\ Arm
  <2>1. /\ ReadsOver(f, Len(f)) /\ buffer' = <<>> /\ fragment' = FragmentAfter(f, Len(f))
        /\ UNCHANGED <<closed, got>>
    BY <1>5 DEF ReadPending
  <2>2. Len(f) \in 0 .. Len(f)
    BY <1>1
  <2>3. /\ fragment' \in {0, Len(got) + 1}
        /\ a = <<IF fragment' = 0 THEN Len(got) ELSE Len(got) + 1, fragment'>>
    BY <1>1, <1>2, <2>1, <2>2, ReadOver
  <2>4. Looked' = a
    BY <2>1, <2>3 DEF Looked
  <2>5. Path(buffer', Looked', a)
    BY <2>1, <2>4, PathEmpty
  <2>6. Flowing'
    <3>1. Path(wire', b, c)
      OBVIOUS
    <3> QED BY <1>3, <2>1, <2>3, <2>5, <3>1 DEF Flowing
  <2> QED BY <2>1, <2>6 DEF Flow, InOrder
<1> QED BY <1>4, <1>5 DEF Read

(***************************************************************************)
(* Each action keeps the flow.                                             *)
(***************************************************************************)

\* Nothing between the peer and the receivers changes, or the end is lost.
LEMMA StaysFlowing ==
  ASSUME Flow, InOrder, UNCHANGED got, closed' => pending' = NoRequest,
         loop' = "running" /\ ~closed' =>
            /\ loop = "running" /\ ~closed /\ UNCHANGED <<buffer, fragment, begun, open>>
            /\ wire' = wire \/ (wire' = <<>> /\ peer' # "up")
            /\ peer' = "up" => peer = "up"
            /\ \A a, b \in Marks : Chain(box, a, b) => Chain(box', a, b)
  PROVE  Flow'
<1>1. InOrder'
  BY DEF InOrder
<1>2. ASSUME loop' = "running", ~closed'
      PROVE  Flowing'
  <2>1. PICK a \in Marks, b \in Marks, c \in Marks :
          /\ Path(buffer, Looked, a) /\ Chain(box, a, b) /\ Path(wire, b, c)
          /\ peer = "up" => c = Sent
    BY <1>2 DEF Flow, Flowing
  <2>2. /\ fragment' \in {0, Len(got') + 1}
        /\ Looked' = Looked /\ Sent' = Sent
    BY <1>2 DEF Flow, Flowing, Looked, Sent
  <2>3. Path(buffer', Looked', a) /\ Chain(box', a, b)
    BY <1>2, <2>1, <2>2
  <2>4. CASE wire' = wire
    <3>1. Path(wire', b, c) /\ (peer' = "up" => c = Sent')
      BY <1>2, <2>1, <2>2, <2>4
    <3> QED BY <2>2, <2>3, <3>1 DEF Flowing
  <2>5. CASE wire' = <<>> /\ peer' # "up"
    <3>1. Path(wire', b, b)
      BY <2>5, PathEmpty
    <3> QED BY <2>2, <2>3, <2>5, <3>1 DEF Flowing
  <2> QED BY <1>2, <2>4, <2>5
<1> QED BY <1>1, <1>2 DEF Flow

\* A letter without frames comes or goes.
LEMMA ChainKept ==
  ASSUME TypeOK,
         \/ box' = box
         \/ \E m \in Letters : m.frames = <<>> /\ box' = Append(box, m)
         \/ box # <<>> /\ Head(box).frames = <<>> /\ box' = Tail(box),
         NEW a \in Marks, NEW b \in Marks, Chain(box, a, b)
  PROVE  Chain(box', a, b)
<1>1. box \in Seq(Letters)
  BY BoxTyped
<1>2. ASSUME NEW m \in Letters, m.frames = <<>>, box' = Append(box, m)
      PROVE  Chain(box', a, b)
  <2>1. Path(m.frames, b, b)
    BY <1>2, PathEmpty
  <2> QED BY <1>1, <1>2, <2>1, ChainAppend
<1>3. CASE box # <<>> /\ Head(box).frames = <<>> /\ box' = Tail(box)
  <2>1. PICK c \in Marks : Path(Head(box).frames, a, c) /\ Chain(Tail(box), c, b)
    BY <1>1, <1>3, ChainTail
  <2>2. a = c
    BY <1>3, <2>1, PathEmpty
  <2> QED BY <1>3, <2>1, <2>2
<1> QED BY <1>2, <1>3

\* So it is with the letter a clause takes.
LEMMA TakenEmpty ==
  ASSUME TypeOK, NEW tag, NEW p, Takes(Letter(tag, p, <<>>))
  PROVE  loop = "running" /\ \A a, b \in Marks : Chain(box, a, b) => Chain(box', a, b)
<1>1. box # <<>> /\ Head(box).frames = <<>> /\ box' = Tail(box) /\ loop = "running"
  BY LetterParts DEF Takes
<1> QED BY <1>1, ChainKept

\* Sends, closes, deadlines and the loss of the peer.
LEMMA ClausesFlow ==
  ASSUME Inv, Flow,
         \/ \E p \in Requests : TakeSend(p) \/ TakeClose(p) \/ TakeTimeout(p)
         \/ TakeTcpClosed \/ TakeDown \/ Killed
  PROVE  Flow'
<1>0. TypeOK /\ InOrder /\ (closed => pending = NoRequest)
  BY DEF Inv, Flow
<1>1. ASSUME NEW p \in Requests, TakeSend(p)
      PROVE  Flow'
  <2>1. \A a, b \in Marks : Chain(box, a, b) => Chain(box', a, b)
    BY <1>0, <1>1, TakenEmpty DEF TakeSend
  <2>2. CASE AnswerClosed(p)
    BY <1>0, <2>1, <2>2, StaysFlowing DEF AnswerClosed, TransportKept, netVars, loopVars
  <2>3. CASE TransportKept /\ UNCHANGED <<loopVars, timers, handler, nextRef, got>>
    BY <1>0, <2>1, <2>3, StaysFlowing DEF TransportKept, netVars, loopVars
  <2>4. CASE Shut({p}) /\ UNCHANGED got
    BY <1>0, <2>4, StaysFlowing DEF Shut
  <2> QED BY <1>1, <2>2, <2>3, <2>4 DEF TakeSend
<1>2. ASSUME NEW p \in Requests, TakeClose(p)
      PROVE  Flow'
  <2>1. Shut({p}) /\ UNCHANGED got
    BY <1>2 DEF TakeClose
  <2> QED BY <1>0, <2>1, StaysFlowing DEF Shut
<1>3. ASSUME NEW p \in Requests, TakeTimeout(p)
      PROVE  Flow'
  <2>1. \A a, b \in Marks : Chain(box, a, b) => Chain(box', a, b)
    BY <1>0, <1>3, TakenEmpty DEF TakeTimeout
  <2>2. /\ loop' = loop /\ closed' = closed
        /\ UNCHANGED <<buffer, fragment, begun, open, wire, peer, got>>
        /\ pending' = IF pending = p THEN NoRequest ELSE pending
    BY <1>3 DEF TakeTimeout, TransportKept, netVars
  <2> QED BY <1>0, <2>1, <2>2, StaysFlowing
<1>4. CASE TakeTcpClosed
  <2>1. Shut({}) /\ UNCHANGED got
    BY <1>4 DEF TakeTcpClosed
  <2> QED BY <1>0, <2>1, StaysFlowing DEF Shut
<1>5. CASE TakeDown
  BY <1>0, <1>5, StaysFlowing DEF TakeDown, Shut, Gone
<1>6. CASE Killed
  BY <1>0, <1>6, StaysFlowing DEF Killed, Gone
<1> QED BY <1>1, <1>2, <1>3, <1>4, <1>5, <1>6

\* A receive whose caller still waits is read for, or answered.
LEMMA TakeReceiveFlows ==
  ASSUME Inv, Flow, NEW p \in Requests, NEW op \in Receives, TakeReceive(p, op)
  PROVE  Flow'
<1>0. TypeOK /\ InOrder /\ (closed => pending = NoRequest) /\ Core
  BY DEF Inv, Flow
<1>1. Takes(Letter(op, p, <<>>))
  BY DEF TakeReceive
<1>2. /\ loop = "running" /\ box # <<>> /\ box' = Tail(box) /\ box \in Seq(Letters)
      /\ Head(box).tag = op /\ Head(box).request = p /\ Head(box).frames = <<>>
  BY <1>0, <1>1, TakesTyped, LetterParts, BoxTyped
<1>3. \A a, b \in Marks : Chain(box, a, b) => Chain(box', a, b)
  BY <1>0, <1>1, TakenEmpty
<1>4. CASE AnswerClosed(p)
  BY <1>0, <1>3, <1>4, StaysFlowing DEF AnswerClosed, TransportKept, netVars, loopVars
<1>5. CASE /\ ~closed
           /\ Read(buffer, p, op = "receiveWithin")
           /\ UNCHANGED <<socket, netVars, handler, nextRef>>
  <2>1. Waits(p)
    <3>1. 1 \in DOMAIN box /\ box[1] = Head(box)
      BY <1>2, TailKeeps
    <3>2. Asks(box[1]) /\ box[1].tag \in Receives
      BY <1>2, <3>1 DEF Asks
    <3>3. /\ box[1].request.ref \in 1 .. nextRef - 1
          /\ call[box[1].request.from] = [op |-> box[1].tag, ref |-> box[1].request.ref]
      BY <1>0, <1>2, <3>1, <3>2 DEF Core, Numbered
    <3>4. p.ref \in 1 .. nextRef - 1 /\ call[p.from].ref = p.ref
      BY <1>2, <3>1, <3>3
    <3> QED BY <3>4 DEF Waits
  <2>2. Flowing /\ buffer \in Seq(Frames)
    BY <1>0, <1>2, <1>5 DEF Flow, TypeOK
  <2>3. PICK a \in Marks, b \in Marks, c \in Marks :
          /\ Path(buffer, Looked, a) /\ Chain(box, a, b) /\ Path(wire, b, c)
          /\ peer = "up" => c = Sent
    BY <2>2 DEF Flowing
  <2>4. Chain(box', a, b) /\ fragment \in {0, Len(got) + 1}
    BY <1>3, <2>2, <2>3 DEF Flowing
  <2>5. UNCHANGED <<wire, peer, begun, open>>
    BY <1>5 DEF netVars
  <2> QED BY <1>0, <1>5, <2>1, <2>2, <2>3, <2>4, <2>5, ReadFlows
<1> QED BY <1>4, <1>5 DEF TakeReceive

\* What a letter brings goes to the end of the buffer.
LEMMA TakeDataFlows ==
  ASSUME Inv, Flow, box # <<>>, TakeData(Head(box).frames)
  PROVE  Flow'
<1>0. TypeOK /\ InOrder /\ (closed => pending = NoRequest) /\ Core
  BY DEF Inv, Flow
<1> DEFINE frames == Head(box).frames
<1>1. /\ loop = "running" /\ box' = Tail(box) /\ box \in Seq(Letters) /\ frames \in Seq(Frames)
      /\ buffer \in Seq(Frames) /\ buffer \o frames \in Seq(Frames)
  <2>1. box \in Seq(Letters) /\ Head(box) \in Letters /\ buffer \in Seq(Frames)
    BY <1>0, BoxTyped DEF TypeOK
  <2>2. loop = "running" /\ box' = Tail(box)
    BY DEF TakeData, Takes
  <2> QED BY <2>1, <2>2, LetterParts, ConcatProperties
<1>2. ASSUME ~closed
      PROVE  \E a, b, c \in Marks :
               /\ Path(buffer \o frames, Looked, a) /\ Chain(box', a, b) /\ Path(wire, b, c)
               /\ peer = "up" => c = Sent
  <2>1. PICK a \in Marks, b \in Marks, c \in Marks :
          /\ Path(buffer, Looked, a) /\ Chain(box, a, b) /\ Path(wire, b, c)
          /\ peer = "up" => c = Sent
    BY <1>1, <1>2 DEF Flow, Flowing
  <2>2. PICK d \in Marks : Path(frames, a, d) /\ Chain(box', d, b)
    BY <1>1, <2>1, ChainTail
  <2>3. Looked \in Marks
    <3>1. Len(got) \in Nat /\ fragment \in Nat
      BY <1>0, LenProperties, WebSocketAssumption DEF TypeOK
    <3> QED BY <3>1 DEF Looked, Marks
  <2>4. Path(buffer \o frames, Looked, d)
    BY <1>1, <2>1, <2>2, <2>3, PathConcat
  <2> QED BY <2>1, <2>2, <2>4
<1>3. UNCHANGED <<wire, peer, begun, open>>
  BY DEF TakeData, netVars
<1>4. CASE pending = NoRequest
  <2>1. /\ buffer' = buffer \o frames
        /\ UNCHANGED <<loop, closed, pending, fragment, got>>
    BY <1>4 DEF TakeData
  <2>2. ASSUME ~closed
        PROVE  Flowing'
    <3>1. PICK a \in Marks, b \in Marks, c \in Marks :
            /\ Path(buffer \o frames, Looked, a) /\ Chain(box', a, b) /\ Path(wire, b, c)
            /\ peer = "up" => c = Sent
      BY <1>2, <2>2
    <3>2. fragment' \in {0, Len(got') + 1} /\ Looked' = Looked /\ Sent' = Sent
      BY <1>1, <1>3, <2>1, <2>2 DEF Flow, Flowing, Looked, Sent
    <3>3. Path(buffer', Looked', a) /\ Path(wire', b, c) /\ (peer' = "up" => c = Sent')
      BY <1>3, <2>1, <3>1, <3>2
    <3> QED BY <3>1, <3>2, <3>3 DEF Flowing
  <2> QED BY <1>0, <2>1, <2>2 DEF Flow, InOrder
<1>5. CASE pending # NoRequest
  <2>1. Read(buffer \o frames, pending, FALSE) /\ pending \in Requests
    BY <1>0, <1>5 DEF TakeData, TypeOK
  <2>2. ~closed /\ Waits(pending)
    BY <1>0, <1>1, <1>5 DEF Core, PendingWaited
  <2>3. fragment \in {0, Len(got) + 1}
    BY <1>1, <2>2 DEF Flow, Flowing
  <2>4. PICK a \in Marks, b \in Marks, c \in Marks :
          /\ Path(buffer \o frames, Looked, a) /\ Chain(box', a, b) /\ Path(wire, b, c)
          /\ peer = "up" => c = Sent
    BY <1>2, <2>2
  <2> HIDE DEF frames
  <2> QED BY <1>0, <1>1, <1>3, <2>1, <2>2, <2>3, <2>4, ReadFlows
<1> QED BY <1>4, <1>5

\* The callers, the handler's end and the clock send letters without frames.
LEMMA LettersFlow ==
  ASSUME Inv, Flow,
         \/ \E x \in Holders :
              SeesDown(x) \/ GivesUp(x) \/ \E op \in {"send", "close"} \cup Receives : Ask(x, op)
         \/ HandlerEnds \/ DeliverClosed \/ PeerLeaves
         \/ \E p \in Requests : TimerFires(p)
  PROVE  Flow'
<1>0. TypeOK /\ InOrder /\ (closed => pending = NoRequest)
  BY DEF Inv, Flow
<1>1. ASSUME NEW tag \in Tags, NEW p \in Requests, box' = Append(box, Letter(tag, p, <<>>)),
             NEW a \in Marks, NEW b \in Marks, Chain(box, a, b)
      PROVE  Chain(box', a, b)
  <2>1. Letter(tag, p, <<>>) \in Letters
    <3>1. <<>> \in Seq(Frames)
      BY LetterParts
    <3> QED BY <3>1, LetterParts
  <2>2. Letter(tag, p, <<>>).frames = <<>>
    BY LetterParts
  <2> QED BY <1>0, <1>1, <2>1, <2>2, ChainKept
<1>2. ASSUME UNCHANGED box, NEW a \in Marks, NEW b \in Marks, Chain(box, a, b)
      PROVE  Chain(box', a, b)
  BY <1>2
<1>3. ASSUME UNCHANGED <<loop, closed, pending, buffer, fragment, begun, open, got>>,
             wire' = wire \/ (wire' = <<>> /\ peer' # "up"), peer' = "up" => peer = "up",
             \A a, b \in Marks : Chain(box, a, b) => Chain(box', a, b)
      PROVE  Flow'
  BY <1>0, <1>3, StaysFlowing
<1>4. ASSUME NEW x \in Holders, SeesDown(x) \/ GivesUp(x)
      PROVE  Flow'
  BY <1>2, <1>3, <1>4 DEF SeesDown, GivesUp, loopVars, netVars
<1>5. ASSUME NEW x \in Holders, NEW op \in {"send", "close"} \cup Receives, Ask(x, op)
      PROVE  Flow'
  <2>1. /\ UNCHANGED <<loop, closed, pending, buffer, fragment, begun, open, got, wire, peer>>
        /\ box' = Append(box, Letter(op, Request(x, nextRef), <<>>))
        /\ nextRef \in Ref
    BY <1>5 DEF Ask, loopVars, netVars
  <2>2. op \in Tags /\ Request(x, nextRef) \in Requests
    <3>1. nextRef \in 0 .. MaxCalls
      BY <2>1, WebSocketAssumption DEF Ref
    <3> QED BY <3>1, RequestParts DEF Tags, Receives
  <2>3. \A a, b \in Marks : Chain(box, a, b) => Chain(box', a, b)
    BY <1>1, <2>1, <2>2
  <2> QED BY <1>3, <2>1, <2>3
<1>6. CASE HandlerEnds
  <2>1. /\ UNCHANGED <<loop, closed, pending, buffer, fragment, begun, open, got, wire, peer>>
        /\ box' = Append(box, Letter("DOWN", NoRequest, <<>>)) \/ box' = box
    BY <1>6 DEF HandlerEnds, loopVars, netVars
  <2>2. \A a, b \in Marks : Chain(box, a, b) => Chain(box', a, b)
    BY <1>1, <1>2, <2>1, RequestParts DEF Tags
  <2> QED BY <1>3, <2>1, <2>2
<1>7. CASE DeliverClosed
  <2>1. /\ UNCHANGED <<loop, closed, pending, buffer, fragment, begun, open, got, wire, peer>>
        /\ box' = Append(box, Letter("tcp_closed", NoRequest, <<>>))
    BY <1>7 DEF DeliverClosed, loopVars, netVars
  <2>2. \A a, b \in Marks : Chain(box, a, b) => Chain(box', a, b)
    BY <1>1, <2>1, RequestParts DEF Tags
  <2> QED BY <1>3, <2>1, <2>2
<1>8. CASE PeerLeaves
  <2>1. /\ UNCHANGED <<loop, closed, pending, buffer, fragment, begun, open, got, box>>
        /\ wire' \in {wire, <<>>} /\ peer' = "away"
    BY <1>8 DEF PeerLeaves, loopVars
  <2> QED BY <1>2, <1>3, <2>1
<1>9. ASSUME NEW p \in Requests, TimerFires(p)
      PROVE  Flow'
  <2>1. /\ UNCHANGED <<loop, closed, pending, buffer, fragment, begun, open, got, wire, peer>>
        /\ box' = Append(box, Letter("receive_timeout", p, <<>>))
    BY <1>9 DEF TimerFires, loopVars, netVars
  <2>2. \A a, b \in Marks : Chain(box, a, b) => Chain(box', a, b)
    BY <1>1, <2>1 DEF Tags
  <2> QED BY <1>3, <2>1, <2>2
<1> QED BY <1>4, <1>5, <1>6, <1>7, <1>8, <1>9

\* What the kernel delivers is the first of what it holds.
LEMMA DeliverFlows ==
  ASSUME Inv, Flow, Deliver
  PROVE  Flow'
<1>0. TypeOK /\ InOrder /\ wire \in Seq(Frames) /\ box \in Seq(Letters)
  BY BoxTyped DEF Inv, Flow, TypeOK
<1>1. PICK n \in 1 .. Len(wire) :
        /\ box' = Append(box, Letter("tcp", NoRequest, SubSeq(wire, 1, n)))
        /\ wire' = SubSeq(wire, n + 1, Len(wire))
  BY DEF Deliver
<1>2. UNCHANGED <<loop, closed, pending, buffer, fragment, begun, open, got, peer>>
  BY DEF Deliver, loopVars
<1>3. ASSUME loop = "running", ~closed
      PROVE  Flowing'
  <2>1. PICK a \in Marks, b \in Marks, c \in Marks :
          /\ Path(buffer, Looked, a) /\ Chain(box, a, b) /\ Path(wire, b, c)
          /\ peer = "up" => c = Sent
    BY <1>3 DEF Flow, Flowing
  <2>2. PICK marks : Marked(wire, marks) /\ marks[0] = b /\ marks[Len(wire)] = c
    BY <2>1 DEF Path
  <2>3. n \in 0 .. Len(wire)
    BY <1>0, LenProperties
  <2>4. /\ marks[n] \in Marks /\ Path(SubSeq(wire, 1, n), b, marks[n])
        /\ Path(wire', marks[n], c)
    BY <1>0, <1>1, <2>2, <2>3, PathSplit
  <2>5. SubSeq(wire, 1, n) \in Seq(Frames)
    BY <1>0, SubSeqProperties, SubSeqTyped, LenProperties
  <2>6. Letter("tcp", NoRequest, SubSeq(wire, 1, n)) \in Letters
    BY <2>5, LetterParts, RequestParts DEF Tags
  <2>7. Chain(box', a, marks[n])
    <3>1. Path(Letter("tcp", NoRequest, SubSeq(wire, 1, n)).frames, b, marks[n])
      BY <2>4, LetterParts
    <3> QED BY <1>0, <1>1, <2>1, <2>4, <2>6, <3>1, ChainAppend
  <2>8. fragment' \in {0, Len(got') + 1} /\ Looked' = Looked /\ Sent' = Sent
    BY <1>2, <1>3 DEF Flow, Flowing, Looked, Sent
  <2>9. Path(buffer', Looked', a) /\ (peer' = "up" => c = Sent')
    BY <1>2, <2>1, <2>8
  <2> QED BY <2>1, <2>4, <2>7, <2>8, <2>9 DEF Flowing
<1> QED BY <1>0, <1>2, <1>3 DEF Flow, InOrder

\* What the peer sends is the next frame after those it has sent.
LEMMA PeerSendsFlows ==
  ASSUME Inv, Inv', Flow, NEW kind \in {"whole", "part", "end", "ping", "closing"},
         PeerSends(kind)
  PROVE  Flow'
<1>0. TypeOK /\ InOrder /\ wire \in Seq(Frames) /\ begun \in Nat /\ begun' \in Nat
      /\ open \in BOOLEAN /\ (open => begun > 0)
  BY WebSocketAssumption DEF Inv, Flow, TypeOK
<1>1. /\ UNCHANGED <<loop, closed, pending, buffer, fragment, got, box>>
      /\ peer = "up"
  BY DEF PeerSends, loopVars
<1>2. PICK e : e = Frame(kind, IF kind \in {"ping", "closing"} THEN 0 ELSE begun')
  OBVIOUS
<1>3. wire' = Append(wire, e)
  BY <1>2 DEF PeerSends
<1>4. e \in Frames
  <2>1. wire' \in Seq(Frames)
    BY DEF Inv, TypeOK
  <2>2. Len(wire) \in Nat /\ Len(wire') = Len(wire) + 1 /\ wire'[Len(wire) + 1] = e
    BY <1>0, <1>3, LenProperties
  <2>3. Len(wire) + 1 \in 1 .. Len(wire')
    BY <2>2
  <2> QED BY <2>1, <2>2, <2>3, ElementOfSeq
<1>5. Sent \in Marks /\ Sent' \in Marks
  BY <1>0 DEF Sent, Marks
<1>6. Follows(e, Sent, Sent')
  <2>1. CASE kind = "whole"
    <3>1. ~open /\ begun' = begun + 1 /\ open' = open
      BY <2>1 DEF PeerSends
    <3>2. Sent = <<begun, 0>> /\ Sent' = <<begun + 1, 0>> /\ e = Frame("whole", begun + 1)
      BY <1>2, <2>1, <3>1 DEF Sent
    <3> QED BY <3>2 DEF Follows, Frame
  <2>2. CASE kind = "part"
    <3>1. ~open /\ begun' = begun + 1 /\ open' = TRUE
      BY <2>2 DEF PeerSends
    <3>2. /\ Sent = <<begun, 0>> /\ Sent' = <<begun + 1, begun + 1>>
          /\ e = Frame("part", begun + 1)
      BY <1>2, <2>2, <3>1 DEF Sent
    <3> QED BY <3>2 DEF Follows, Frame
  <2>3. CASE kind = "end"
    <3>1. open /\ begun' = begun /\ open' = FALSE
      BY <2>3 DEF PeerSends
    <3>2. Sent = <<begun, begun>> /\ Sent' = <<begun, 0>> /\ e = Frame("end", begun)
      BY <1>2, <2>3, <3>1 DEF Sent
    <3> QED BY <1>0, <3>1, <3>2 DEF Follows, Frame
  <2>4. CASE kind \in {"ping", "closing"}
    <3>1. begun' = begun /\ open' = open /\ e.kind \in {"ping", "closing"}
      BY <1>2, <2>4 DEF PeerSends, Frame
    <3>2. Sent' = Sent
      BY <3>1 DEF Sent
    <3> QED BY <3>1, <3>2 DEF Follows
  <2> QED BY <2>1, <2>2, <2>3, <2>4
<1>7. ASSUME loop = "running", ~closed
      PROVE  Flowing'
  <2>1. PICK a \in Marks, b \in Marks : Path(buffer, Looked, a) /\ Chain(box, a, b)
                                        /\ Path(wire, b, Sent)
    BY <1>1, <1>7 DEF Flow, Flowing
  <2>2. Path(wire', b, Sent')
    BY <1>0, <1>3, <1>4, <1>5, <1>6, <2>1, PathAppend
  <2>3. fragment' \in {0, Len(got') + 1} /\ Looked' = Looked
    BY <1>1, <1>7 DEF Flow, Flowing, Looked
  <2>4. Path(buffer', Looked', a) /\ Chain(box', a, b)
    BY <1>1, <2>1, <2>3
  <2> QED BY <1>5, <2>1, <2>2, <2>3, <2>4 DEF Flowing
<1> QED BY <1>0, <1>1, <1>7 DEF Flow, InOrder

\* At first the buffer may hold a message, and nothing else is on its way.
LEMMA InitFlow == Init => Flow
<1> SUFFICES ASSUME Init PROVE Flow
  OBVIOUS
<1>1. /\ box = <<>> /\ wire = <<>> /\ got = <<>> /\ fragment = 0 /\ closed = FALSE
      /\ open = FALSE /\ begun \in {0, 1} /\ buffer = [i \in 1 .. begun |-> Frame("whole", i)]
  BY DEF Init
<1>2. Len(got) = 0 /\ DOMAIN got = {} /\ Len(box) = 0
  BY <1>1
<1>3. Looked = <<0, 0>> /\ Sent = <<begun, 0>> /\ Looked \in Marks /\ Sent \in Marks
  BY <1>1, <1>2 DEF Looked, Sent, Marks
<1>4. Path(buffer, Looked, Sent)
  <2>1. CASE begun = 0
    BY <1>1, <1>3, <2>1, PathEmpty
  <2>2. CASE begun = 1
    <3>1. buffer = Append(<<>>, Frame("whole", 1))
      BY <1>1, <2>2
    <3>2. MaxMessages \in Nat /\ 1 \in 1 .. MaxMessages
      BY <2>2, WebSocketAssumption DEF Init
    <3>3. Frame("whole", 1) \in Frames
      BY <3>2 DEF Frame, Frames
    <3>4. Path(<<>>, Looked, Looked)
      BY <1>3, PathEmpty
    <3>5. Follows(Frame("whole", 1), Looked, Sent)
      BY <1>3, <2>2 DEF Follows, Frame
    <3> QED BY <1>3, <3>1, <3>3, <3>4, <3>5, LetterParts, PathAppend
  <2> QED BY <1>1, <2>1, <2>2
<1>5. Chain(box, Sent, Sent)
  <2> DEFINE marks == [i \in 0 .. 0 |-> Sent]
  <2>1. marks \in [0 .. 0 -> Marks] /\ marks[0] = Sent
    BY <1>3
  <2> HIDE DEF marks
  <2> QED BY <1>2, <2>1 DEF Chain
<1>6. Path(wire, Sent, Sent)
  BY <1>1, <1>3, PathEmpty
<1>7. Flowing
  BY <1>1, <1>3, <1>4, <1>5, <1>6 DEF Flowing
<1> QED BY <1>1, <1>2, <1>7 DEF Flow, InOrder

\* Every step keeps the flow.
LEMMA NextFlow == Inv /\ Inv' /\ Flow /\ [Next]_vars => Flow'
<1> SUFFICES ASSUME Inv, Inv', Flow, [Next]_vars PROVE Flow'
  OBVIOUS
<1>1. CASE Loop
  BY <1>1, ClausesFlow, TakeReceiveFlows, TakeDataFlows DEF Loop
<1>2. CASE Kernel
  BY <1>2, DeliverFlows, LettersFlow DEF Kernel
<1>3. CASE HandlerEnds \/ PeerLeaves \/ \E p \in Requests : TimerFires(p)
  BY <1>3, LettersFlow
<1>4. CASE Killed
  BY <1>4, ClausesFlow
<1>5. CASE \E kind \in {"whole", "part", "end", "ping", "closing"} : PeerSends(kind)
  BY <1>5, PeerSendsFlows
<1>6. CASE \E x \in Holders :
             SeesDown(x) \/ GivesUp(x) \/ \E op \in {"send", "close"} \cup Receives : Ask(x, op)
  BY <1>6, LettersFlow
<1>7. CASE UNCHANGED vars
  <2>1. UNCHANGED <<loop, closed, pending, buffer, fragment, box, wire, peer, begun, open, got>>
    BY <1>7 DEF vars, loopVars, netVars
  <2> QED BY <2>1, StaysFlowing DEF Flow
<1> QED BY <1>1, <1>2, <1>3, <1>4, <1>5, <1>6, <1>7 DEF Next

(***************************************************************************)
(* The theorems.                                                           *)
(***************************************************************************)
\* The invariant holds at first.
LEMMA InitInv == Init => Inv
<1> SUFFICES ASSUME Init PROVE Inv
  OBVIOUS
<1>1. /\ loop = "running" /\ box = <<>> /\ pending = NoRequest /\ nextRef = 1
      /\ \A x \in Holders : call[x] = Idle
  BY DEF Init
<1>2. Core
  BY <1>1 DEF Core, PendingWaited, Numbered, Held, ReceiveHeld, Receiving, Receives, Idle
<1>3. begun \in 0 .. MaxMessages /\ begun \in {0, 1}
  BY DEF Init
<1>4. buffer \in Seq(Frames)
  <2>1. CASE begun = 0
    BY <2>1, LetterParts DEF Init
  <2>2. CASE begun = 1
    <3>1. Frame("whole", 1) \in Frames
      BY <1>3, <2>2 DEF Frame, Frames
    <3>2. buffer = [i \in 1 .. 1 |-> Frame("whole", i)]
      BY <2>2 DEF Init
    <3> QED BY <3>1, <3>2, SeqDef
  <2> QED BY <1>3, <2>1, <2>2
<1>5. call \in [Holders -> Calls]
  BY WebSocketAssumption DEF Init, Idle, Calls
<1>6. /\ <<>> \in Seq(Letters) /\ <<>> \in Seq(Frames) /\ <<>> \in Seq(1 .. MaxMessages)
      /\ NoRequest \in Requests /\ 0 \in 0 .. MaxMessages /\ 0 \in 0 .. MaxPings
      /\ 1 \in 1 .. (MaxCalls + 1)
  BY RequestParts, WebSocketAssumption
<1>7. /\ box = <<>> /\ closed = FALSE /\ fragment = 0 /\ timers = {} /\ socket = "open"
      /\ armed = FALSE /\ wire = <<>> /\ peer = "up" /\ open = FALSE /\ pings = 0
      /\ handler = "runs" /\ got = <<>>
  BY DEF Init
<1>8. TypeOK
  BY <1>1, <1>3, <1>4, <1>5, <1>6, <1>7 DEF TypeOK, Letters, Calls
<1> QED BY <1>2, <1>8 DEF Inv

\* Every step keeps the invariant.
LEMMA NextInv == Inv /\ [Next]_vars => Inv'
<1> SUFFICES ASSUME Inv, [Next]_vars PROVE Inv'
  OBVIOUS
<1>1. CASE Loop
  BY <1>1, TakeSendKeeps, TakeCloseKeeps, TakeTimeoutKeeps, TakeReceiveKeeps, TakeDataKeeps,
     TakeTcpClosedKeeps, TakeDownKeeps DEF Loop
<1>2. CASE Kernel
  BY <1>2, OutsideKeeps DEF Kernel
<1>3. CASE HandlerEnds \/ \E p \in Requests : TimerFires(p)
  BY <1>3, OutsideKeeps
<1>4. CASE Killed
  BY <1>4, KilledKeeps
<1>5. CASE PeerLeaves \/ \E kind \in {"whole", "part", "end", "ping", "closing"} : PeerSends(kind)
  BY <1>5, PeerKeeps
<1>6. CASE \E x \in Holders :
             SeesDown(x) \/ GivesUp(x) \/ \E op \in {"send", "close"} \cup Receives : Ask(x, op)
  BY <1>6, CallersKeep
<1>7. CASE UNCHANGED vars
  <2>1. UNCHANGED <<loopVars, box, timers, socket, armed, netVars, handler, call, nextRef, got>>
    BY <1>7 DEF vars
  <2>2. TypeOK'
    BY <2>1 DEF Inv, TypeOK, Letters, Calls, loopVars, netVars
  <2>3. Core'
    BY <2>1, SameKeeps DEF Inv, loopVars
  <2> QED BY <2>2, <2>3 DEF Inv
<1> QED BY <1>1, <1>2, <1>3, <1>4, <1>5, <1>6, <1>7 DEF Next

\* The pending request always has a caller that still waits, and the socket is
\* listened to meanwhile, whatever the holders, the peer and the kernel do: a
\* timed out, answered or closed receive never stays pending, and a request is
\* queued at most once (the invariant's comment in kex_intrinsic_netwebsocket.erl,
\* "Pending is always a request someone is still waiting on").
THEOREM AlwaysConsistent == Spec => []Consistent
<1>1. Inv => Consistent
  BY DEF Inv, Core, Consistent
<1> QED BY <1>1, InitInv, NextInv, PTL DEF Spec

\* Where one process reads, its receive is never forgotten: while the loop runs
\* the request is queued in the mailbox or pending.  A second reader would
\* displace the first (server_loop overwrites Pending).
THEOREM OneReaderHeld ==
  ASSUME OneReader
  PROVE  Spec => []ReceiveHeld
<1>1. Inv => ReceiveHeld
  BY DEF Inv, Core, Held
<1> QED BY <1>1, InitInv, NextInv, PTL DEF Spec

\* However many processes receive, and whatever deadlines, closes, pings and
\* fragments come between, they are given the peer's messages in order and
\* without a gap: what arrives around a timeout is neither lost nor handed to the
\* request that has just been given up (server_loop's receive_timeout clause).
THEOREM MessagesInOrder == Spec => []InOrder
<1>1. Flow => InOrder
  BY DEF Flow
<1> QED BY <1>1, InitInv, NextInv, InitFlow, NextFlow, PTL DEF Spec
=============================================================================
